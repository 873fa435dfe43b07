----------------------------- MODULE AppProofs ------------------------------
(***************************************************************************)
(* What App's run checks, for any number of workers, producers, consumers, *)
(* items and tags.                                                         *)
(*                                                                         *)
(* A coroutine moves between the queue of the pool, the mutex's, that of   *)
(* the getters and the stacks; what it has done so far is told by its op   *)
(* and its item, and that is what the last producer, main and whoever is   *)
(* stopped rely on.                                                        *)
(***************************************************************************)
EXTENDS App, SequenceLemmas

-----------------------------------------------------------------------------
(* where a coroutine is *)

OnWorkers == StackElements(stack, Workers)

Scheduled == ToSet(tasks)

Live == {c \in Scheduled : op[c] # "gone"}

PlaceTypes ==
  /\ tasks \in Seq(Coroutines) /\ waiters \in Seq(Coroutines)
  /\ parked \in Seq(Coroutines) /\ getters \in Seq(Consumers)
  /\ stack \in [Workers -> Seq(Coroutines)]

Once ==
  /\ IsInjective(waiters) /\ IsInjective(parked) /\ IsInjective(getters)
  /\ OnceOnStacks(stack, Workers)

Apart ==
  /\ ToSet(waiters) \cap ToSet(parked) = {}
  /\ ToSet(waiters) \cap ToSet(getters) = {}
  /\ ToSet(waiters) \cap OnWorkers = {}
  /\ ToSet(parked) \cap ToSet(getters) = {}
  /\ ToSet(parked) \cap OnWorkers = {}
  /\ ToSet(getters) \cap OnWorkers = {}

Everywhere == ToSet(waiters) \cup ToSet(parked) \cup ToSet(getters) \cup OnWorkers

PlaceInv ==
  /\ PlaceTypes /\ Once /\ Apart
  /\ Everywhere = Live
  /\ holder # Nobody => holder \in OnWorkers

(* they are scheduled in the order of their numbers, and do nothing before *)
TaskInv ==
  /\ Len(tasks) <= NConsumers + NProducers
  /\ \A k \in DOMAIN tasks : tasks[k] = k - 1
  /\ \A c \in Coroutines \ Scheduled : op[c] = IF c \in Producers THEN "loop" ELSE "get"

OpTypes ==
  /\ op \in [Coroutines -> LockingOps
                             \cup {"loop", "yield", "get", "end", "ended", "gone"}]
  /\ \A c \in Producers :
       op[c] \in {"loop", "reserve", "yield", "release", "interrupt", "end", "ended", "gone"}
  /\ \A c \in Consumers : op[c] \in {"get", "yield", "finalize", "end", "ended", "gone"}

PlacedInv == PlaceInv /\ TaskInv /\ OpTypes /\ \A c \in ToSet(getters) : op[c] = "get"

(* The numbers of the coroutines. *)
LEMMA NumbersFacts ==
  /\ Coroutines = 0..NConsumers + NProducers - 1
  /\ Consumers \cap Producers = {} /\ Nobody \notin Coroutines
  /\ Consumers \subseteq Coroutines /\ Producers \subseteq Coroutines
BY AppAssumption DEF Coroutines, Consumers, Producers, Nobody

(* Only consumers wait for an item. *)
LEMMA GettersAre == PlaceTypes => ToSet(getters) \subseteq Consumers
<1> SUFFICES ASSUME PlaceTypes, NEW k \in DOMAIN getters PROVE getters[k] \in Consumers
  BY DEF ToSet
<1> QED
  BY DEF PlaceTypes

(* The one that runs on a worker is on a stack. *)
LEMMA TopRuns ==
  ASSUME PlaceTypes, NEW w \in Workers, stack[w] # <<>>
  PROVE  Last(stack[w]) \in OnWorkers /\ Last(stack[w]) \in Coroutines
<1>1. stack[w] \in Seq(Coroutines)
  BY DEF PlaceTypes
<1>2. Len(stack[w]) \in DOMAIN stack[w] /\ Last(stack[w]) = stack[w][Len(stack[w])]
        /\ Last(stack[w]) \in Coroutines
  BY <1>1, FrontFacts, LenProperties
<1> QED
  BY <1>2 DEF OnWorkers, StackElements, ToSet

(* It leaves the stacks. *)
LEMMA TopLeaves ==
  ASSUME PlaceTypes, Once, NEW w \in Workers, stack[w] # <<>>, Pop(w)
  PROVE  /\ stack' \in [Workers -> Seq(Coroutines)] /\ OnceOnStacks(stack', Workers)
         /\ OnWorkers' = OnWorkers \ {Last(stack[w])}
<1> DEFINE nu == PoppedOff(stack, w)
<1>1. stack \in [Workers -> Seq(Coroutines)] /\ OnceOnStacks(stack, Workers)
  BY DEF PlaceTypes, Once
<1>2. /\ nu \in [Workers -> Seq(Coroutines)] /\ OnceOnStacks(nu, Workers)
      /\ StackElements(nu, Workers) = StackElements(stack, Workers) \ {Last(stack[w])}
  BY <1>1, StackPopped
<1>3. stack' = nu
  BY DEF Pop, PoppedOff
<1> HIDE DEF nu
<1> QED
  BY <1>2, <1>3 DEF OnWorkers

(* Another one gets on top. *)
LEMMA TopEnters ==
  ASSUME PlaceTypes, Once, NEW w \in Workers, NEW c \in Coroutines, c \notin OnWorkers,
         Push(w, c)
  PROVE  /\ stack' \in [Workers -> Seq(Coroutines)] /\ OnceOnStacks(stack', Workers)
         /\ OnWorkers' = OnWorkers \cup {c}
<1> DEFINE nu == PushedOn(stack, w, c)
<1>1. stack \in [Workers -> Seq(Coroutines)] /\ OnceOnStacks(stack, Workers)
        /\ c \notin StackElements(stack, Workers)
  BY DEF PlaceTypes, Once, OnWorkers
<1>2. /\ nu \in [Workers -> Seq(Coroutines)] /\ OnceOnStacks(nu, Workers)
      /\ StackElements(nu, Workers) = StackElements(stack, Workers) \cup {c}
  BY <1>1, StackPushed
<1>3. stack' = nu
  BY DEF Push, PushedOn
<1> HIDE DEF nu
<1> QED
  BY <1>2, <1>3 DEF OnWorkers

(* While its op changes, but not to the last one, a coroutine stays live. *)
LEMMA OpChanges ==
  ASSUME OpTypes, NEW c \in Coroutines, op[c] # "gone", NEW o, o # "gone",
         Then(c, o), UNCHANGED tasks
  PROVE  Live' = Live
BY DEF OpTypes, Then, Live, Scheduled

-----------------------------------------------------------------------------
(* each step moves a coroutine from one place to another *)

(* The mutex is free, or the coroutine that calls waits for it. *)
LEMMA CallMoves ==
  ASSUME PlacedInv, NEW w \in Workers, NEW c \in Coroutines, Call(w, c)
  PROVE  PlaceInv'
<1> USE DEF PlacedInv, PlaceInv
<1>1. /\ stack[w] # <<>> /\ Last(stack[w]) = c /\ holder # c
      /\ UNCHANGED <<tasks, waiters, getters, op>>
  BY DEF Call, RunsFree, Runs, OnTop, coVars
<1>2. c \in OnWorkers
  BY <1>1, TopRuns
<1>3. Live' = Live
  BY <1>1 DEF Live, Scheduled
<1>4. CASE Lock!Acquire(c) /\ UNCHANGED stack
  BY <1>1, <1>2, <1>3, <1>4 DEF Lock!Acquire, PlaceTypes, Once, Apart, Everywhere, OnWorkers
<1>5. CASE Lock!Enqueue(c) /\ Pop(w)
  <2>1. /\ stack' \in [Workers -> Seq(Coroutines)] /\ OnceOnStacks(stack', Workers)
        /\ OnWorkers' = OnWorkers \ {c}
    BY <1>1, <1>5, TopLeaves
  <2>2. parked' = Append(parked, c) /\ holder' = holder /\ c \notin ToSet(parked)
    BY <1>2, <1>5 DEF Lock!Enqueue, Apart
  <2>3. parked' \in Seq(Coroutines) /\ ToSet(parked') = ToSet(parked) \cup {c}
          /\ IsInjective(parked')
    BY <2>2, AppendFacts DEF PlaceTypes, Once
  <2> QED
    BY <1>1, <1>2, <1>3, <2>1, <2>2, <2>3 DEF PlaceTypes, Once, Apart, Everywhere
<1> QED
  BY <1>4, <1>5 DEF Call

(* What only changes the op leaves everybody in place. *)
LEMMA OpMoves ==
  ASSUME PlacedInv, NEW c \in Coroutines, c \in OnWorkers, NEW o, o # "gone", Then(c, o),
         UNCHANGED <<tasks, waiters, parked, getters, stack, holder>>
  PROVE  PlaceInv'
<1>1. op[c] # "gone"
  BY DEF PlacedInv, PlaceInv, Everywhere, Live
<1>2. Live' = Live
  BY <1>1, OpChanges DEF PlacedInv
<1> QED
  BY <1>2 DEF PlacedInv, PlaceInv, PlaceTypes, Once, Apart, Everywhere, OnWorkers

(* The getter that came last gets on top. *)
LEMMA DeliverMoves ==
  ASSUME PlacedInv, NEW w \in Workers, NEW c \in Coroutines, Deliver(w, c)
  PROVE  PlaceInv'
<1> USE DEF PlacedInv, PlaceInv
<1> DEFINE g == Head(getters)
<1>1. /\ getters # <<>> /\ getters' = Tail(getters) /\ Push(w, g)
      /\ Then(g, "yield") \/ Then(g, "end")
      /\ UNCHANGED <<tasks, waiters, holder, parked>>
  BY DEF Deliver, lockVars
<1>2. /\ g \in Consumers /\ getters' \in Seq(Consumers)
      /\ ToSet(getters) = {g} \cup ToSet(getters')
      /\ IsInjective(getters') /\ g \notin ToSet(getters')
  BY <1>1, TailFacts DEF PlaceTypes, Once
<1>3. g \in Coroutines /\ g \notin OnWorkers /\ op[g] # "gone"
  BY <1>2, NumbersFacts DEF Apart
<1> HIDE DEF g
<1>4. /\ stack' \in [Workers -> Seq(Coroutines)] /\ OnceOnStacks(stack', Workers)
      /\ OnWorkers' = OnWorkers \cup {g}
  BY <1>1, <1>3, TopEnters
<1>5. Live' = Live
  BY <1>1, <1>3, OpChanges
<1> QED
  BY <1>1, <1>2, <1>4, <1>5 DEF PlaceTypes, Once, Apart, Everywhere

(* The one that has waited longest for the mutex gets on top. *)
LEMMA LeaveMoves ==
  ASSUME PlacedInv, NEW w \in Workers, NEW c \in Coroutines, Leave(w, c)
  PROVE  PlaceInv'
<1> USE DEF PlacedInv, PlaceInv
<1>1. UNCHANGED <<tasks, waiters, getters, op>>
  BY DEF Leave, coVars
<1>2. Live' = Live
  BY <1>1 DEF Live, Scheduled
<1>3. CASE Lock!Free(c) /\ UNCHANGED stack
  BY <1>1, <1>2, <1>3 DEF Lock!Free, PlaceTypes, Once, Apart, Everywhere, OnWorkers
<1>4. CASE Lock!HandOver(c) /\ Push(w, holder')
  <2> DEFINE h == Head(parked)
  <2>1. parked # <<>> /\ parked' = Tail(parked) /\ holder' = h /\ Push(w, h)
    BY <1>4 DEF Lock!HandOver
  <2>2. /\ h \in Coroutines /\ parked' \in Seq(Coroutines)
        /\ ToSet(parked) = {h} \cup ToSet(parked')
        /\ IsInjective(parked') /\ h \notin ToSet(parked')
    BY <2>1, TailFacts DEF PlaceTypes, Once
  <2>3. h \notin OnWorkers
    BY <2>2 DEF Apart
  <2> HIDE DEF h
  <2>4. /\ stack' \in [Workers -> Seq(Coroutines)] /\ OnceOnStacks(stack', Workers)
        /\ OnWorkers' = OnWorkers \cup {h}
    BY <2>1, <2>2, <2>3, TopEnters
  <2> QED
    BY <1>1, <1>2, <2>1, <2>2, <2>4 DEF PlaceTypes, Once, Apart, Everywhere
<1> QED
  BY <1>3, <1>4 DEF Leave

(* The one that yields goes to the end of the pool's queue. *)
LEMMA YieldMoves ==
  ASSUME PlacedInv, NEW w \in Workers, NEW c \in Coroutines, Yield(w, c)
  PROVE  PlaceInv'
<1> USE DEF PlacedInv, PlaceInv
<1>1. /\ stack[w] # <<>> /\ Last(stack[w]) = c /\ holder # c /\ op[c] = "yield"
      /\ waiters' = Append(waiters, c) /\ Pop(w)
      /\ Then(c, "release") \/ Then(c, "finalize")
      /\ UNCHANGED <<tasks, getters, holder, parked>>
  BY DEF Yield, RunsFree, Runs, OnTop, Enqueue, lockVars
<1>2. c \in OnWorkers /\ c \notin ToSet(waiters)
  BY <1>1, TopRuns DEF Apart
<1>3. /\ stack' \in [Workers -> Seq(Coroutines)] /\ OnceOnStacks(stack', Workers)
      /\ OnWorkers' = OnWorkers \ {c}
  BY <1>1, TopLeaves
<1>4. /\ waiters' \in Seq(Coroutines) /\ ToSet(waiters') = ToSet(waiters) \cup {c}
      /\ IsInjective(waiters')
  BY <1>1, <1>2, AppendFacts DEF PlaceTypes, Once
<1>5. Live' = Live
  BY <1>1, OpChanges
<1> QED
  BY <1>1, <1>2, <1>3, <1>4, <1>5 DEF PlaceTypes, Once, Apart, Everywhere

(* The one that finds no item goes to the front of the getters. *)
LEMMA GetMoves ==
  ASSUME PlacedInv, NEW w \in Workers, NEW c \in Coroutines, Get(w, c)
  PROVE  PlaceInv'
<1> USE DEF PlacedInv, PlaceInv
<1>1. /\ stack[w] # <<>> /\ Last(stack[w]) = c /\ holder # c /\ op[c] = "get"
      /\ UNCHANGED <<tasks, waiters, holder, parked>>
  BY DEF Get, RunsFree, Runs, OnTop, lockVars
<1>2. c \in OnWorkers /\ c \notin ToSet(getters)
  BY <1>1, TopRuns DEF Apart
<1>3. CASE (Then(c, "end") \/ Then(c, "yield")) /\ UNCHANGED <<stack, getters>>
  BY <1>1, <1>2, <1>3, OpMoves
<1>4. CASE getters' = <<c>> \o getters /\ Pop(w) /\ UNCHANGED op
  <2>1. c \in Consumers
    BY <1>1 DEF OpTypes, Coroutines
  <2>2. /\ stack' \in [Workers -> Seq(Coroutines)] /\ OnceOnStacks(stack', Workers)
        /\ OnWorkers' = OnWorkers \ {c}
    BY <1>1, <1>4, TopLeaves
  <2>3. /\ getters' \in Seq(Consumers) /\ ToSet(getters') = {c} \cup ToSet(getters)
        /\ IsInjective(getters')
    BY <1>2, <1>4, <2>1, ConsFacts DEF PlaceTypes, Once
  <2>4. Live' = Live
    BY <1>1, <1>4 DEF Live, Scheduled
  <2> QED
    BY <1>1, <1>2, <2>2, <2>3, <2>4 DEF PlaceTypes, Once, Apart, Everywhere
<1> QED
  BY <1>3, <1>4 DEF Get

(* The one that is through is nowhere. *)
LEMMA EndMoves ==
  ASSUME PlacedInv, NEW w \in Workers, NEW c \in Coroutines, End(w, c)
  PROVE  PlaceInv'
<1> USE DEF PlacedInv, PlaceInv
<1>1. /\ stack[w] # <<>> /\ Last(stack[w]) = c /\ holder # c
      /\ UNCHANGED <<tasks, waiters, getters, holder, parked>>
  BY DEF End, RunsFree, Runs, OnTop, lockVars
<1>2. c \in OnWorkers
  BY <1>1, TopRuns
<1>3. CASE Then(c, "ended") /\ UNCHANGED stack
  BY <1>1, <1>2, <1>3, OpMoves
<1>4. CASE Then(c, "gone") /\ Pop(w)
  <2>1. /\ stack' \in [Workers -> Seq(Coroutines)] /\ OnceOnStacks(stack', Workers)
        /\ OnWorkers' = OnWorkers \ {c}
    BY <1>1, <1>4, TopLeaves
  <2>2. Live' = Live \ {c}
    BY <1>1, <1>4 DEF Live, Scheduled, Then, OpTypes
  <2> QED
    BY <1>1, <1>2, <2>1, <2>2 DEF PlaceTypes, Once, Apart, Everywhere
<1> QED
  BY <1>3, <1>4 DEF End

(* A worker takes the one that has waited longest. *)
LEMMA LoopMoves ==
  ASSUME PlacedInv, NEW w \in Workers, Loop(w) \/ Spurious(w)
  PROVE  PlaceInv'
<1> USE DEF PlacedInv, PlaceInv
<1>1. UNCHANGED <<tasks, getters, holder, parked, op>>
  BY DEF Loop, Spurious, WorkerLoop, CheckStopped, Sleep, SeeStopped, TakeNext,
         SuspendReturns, Resumed,
         SpuriousWakeup, coVars, lockVars
<1>2. Live' = Live
  BY <1>1 DEF Live, Scheduled
<1>3. CASE UNCHANGED <<waiters, stack>>
  BY <1>1, <1>2, <1>3 DEF PlaceTypes, Once, Apart, Everywhere, OnWorkers
<1>4. CASE TakeNext(w)
  <2> DEFINE h == Head(waiters)
  <2>1. waiters # <<>> /\ waiters' = Tail(waiters) /\ Push(w, h)
    BY <1>4 DEF TakeNext
  <2>2. /\ h \in Coroutines /\ waiters' \in Seq(Coroutines)
        /\ ToSet(waiters) = {h} \cup ToSet(waiters')
        /\ IsInjective(waiters') /\ h \notin ToSet(waiters')
    BY <2>1, TailFacts DEF PlaceTypes, Once
  <2>3. h \notin OnWorkers
    BY <2>2 DEF Apart
  <2> HIDE DEF h
  <2>4. /\ stack' \in [Workers -> Seq(Coroutines)] /\ OnceOnStacks(stack', Workers)
        /\ OnWorkers' = OnWorkers \cup {h}
    BY <2>1, <2>2, <2>3, TopEnters
  <2> QED
    BY <1>1, <1>2, <2>1, <2>2, <2>4 DEF PlaceTypes, Once, Apart, Everywhere
<1> QED
  BY <1>3, <1>4 DEF Loop, Spurious, WorkerLoop, CheckStopped, Sleep, SeeStopped,
                    SuspendReturns, Resumed,
                    SpuriousWakeup

(* Main schedules the next one. *)
LEMMA ScheduleMoves ==
  ASSUME PlacedInv, Len(tasks) \in Coroutines, Schedule(Len(tasks)),
         UNCHANGED <<op, getters, holder, parked>>
  PROVE  PlaceInv' /\ TaskInv' /\ ToSet(tasks') = ToSet(tasks) \cup {Len(tasks)}
<1> USE DEF PlacedInv, PlaceInv
<1> DEFINE c == Len(tasks)
<1>1. /\ tasks' = Append(tasks, c) /\ waiters' = Append(waiters, c) /\ UNCHANGED stack
      /\ tasks \in Seq(Coroutines) /\ waiters \in Seq(Coroutines) /\ c \in Coroutines
      /\ UNCHANGED <<op, getters, holder, parked>>
  BY DEF Schedule, Enqueue, PlaceTypes
<1>2. c \notin Scheduled
  BY <1>1, LenProperties DEF TaskInv, Scheduled, ToSet
<1>3. c \notin Everywhere
  BY <1>2 DEF Live
<1>4. op[c] # "gone"
  BY <1>1, <1>2 DEF TaskInv
<1>5. Len(tasks') = c + 1 /\ \A k \in DOMAIN tasks' : tasks'[k] = k - 1
  BY <1>1 DEF TaskInv
<1>6. c + 1 <= NConsumers + NProducers
  BY <1>1, NumbersFacts, AppAssumption
<1> HIDE DEF c
<1>7. /\ tasks' \in Seq(Coroutines) /\ ToSet(tasks') = Scheduled \cup {c}
      /\ waiters' \in Seq(Coroutines) /\ ToSet(waiters') = ToSet(waiters) \cup {c}
      /\ IsInjective(waiters')
  BY <1>1, <1>3, AppendFacts DEF Scheduled, Once, Everywhere
<1>8. Live' = Live \cup {c}
  BY <1>1, <1>4, <1>7 DEF Live, Scheduled
<1>9. PlaceInv'
  BY <1>1, <1>3, <1>7, <1>8 DEF PlaceTypes, Once, Apart, Everywhere, OnWorkers
<1>10. TaskInv'
  BY <1>1, <1>5, <1>6, <1>7 DEF TaskInv, Scheduled
<1> QED
  BY <1>7, <1>9, <1>10 DEF c, Scheduled

-----------------------------------------------------------------------------
(* what a coroutine does after what *)

ProducerSteps ==
  {<<"loop", "reserve">>, <<"reserve", "yield">>, <<"yield", "release">>,
   <<"release", "loop">>, <<"interrupt", "end">>, <<"end", "ended">>, <<"ended", "gone">>}

LastSteps == {<<"loop", "interrupt">>, <<"loop", "end">>}

ConsumerSteps ==
  {<<"get", "yield">>, <<"get", "end">>, <<"yield", "finalize">>, <<"finalize", "get">>,
   <<"end", "ended">>, <<"ended", "gone">>}

(* A step of the coroutines changes the op of one of them at most, and a   *)
(* producer leaves its loop with the counter only.                         *)
LEMMA RunSteps ==
  ASSUME PlacedInv, NEW w \in Workers, NEW c \in Coroutines, Run(w, c)
  PROVE  \/ op' = op /\ ~LastItem(w, c)
         \/ \E x \in OnWorkers \cup ToSet(getters) : \E o :
              /\ op' = [op EXCEPT ![x] = o]
              /\ \/ x \in Producers /\ <<op[x], o>> \in ProducerSteps /\ ~LastItem(w, c)
                 \/ x \in Producers /\ <<op[x], o>> \in LastSteps /\ LastItem(w, c) /\ x = c
                 \/ x \in Consumers /\ <<op[x], o>> \in ConsumerSteps /\ ~LastItem(w, c)
<1> USE DEF PlacedInv, PlaceInv, OpTypes, Then, RunsFree, RunsInside, Runs, OnTop,
            ProducerSteps,
            ConsumerSteps
<1>1. c \in Producers \/ c \in Consumers
  BY DEF Coroutines
<1>2. c \in OnWorkers
  <2>1. stack[w] # <<>> /\ Last(stack[w]) = c
    BY DEF Run, Call, Reserve, Release, Finalize, Interrupt, Deliver, Leave, Yield,
           NextItem, LastItem, Get, End
  <2> QED
    BY <2>1, TopRuns
<1>3. CASE Call(w, c) \/ Leave(w, c)
  <2>1. op' = op
    BY <1>3 DEF Call, Leave, coVars
  <2>2. op'[c] # op[c] \/ ~LastItem(w, c)
    BY <1>1 DEF LastItem
  <2> QED
    BY <2>1, <2>2
<1>4. CASE Reserve(w, c) \/ Release(w, c) \/ Interrupt(w, c) \/ NextItem(w, c)
  <2>1. \E o : op' = [op EXCEPT ![c] = o] /\ <<op[c], o>> \in ProducerSteps
    BY <1>4 DEF Reserve, Release, Interrupt, NextItem
  <2>2. c \in Producers /\ ~LastItem(w, c)
    BY <1>1, <1>4 DEF Reserve, Release, Interrupt, NextItem, LastItem
  <2> QED
    BY <1>2, <2>1, <2>2
<1>5. CASE Finalize(w, c) \/ Get(w, c)
  <2>1. op' = op \/ \E o : op' = [op EXCEPT ![c] = o] /\ <<op[c], o>> \in ConsumerSteps
    BY <1>5 DEF Finalize, Get
  <2>2. c \in Consumers /\ ~LastItem(w, c)
    BY <1>1, <1>5 DEF Finalize, Get, LastItem
  <2> QED
    BY <1>2, <2>1, <2>2
<1>6. CASE Deliver(w, c)
  <2> DEFINE g == Head(getters)
  <2>1. getters # <<>> /\ (Then(g, "yield") \/ Then(g, "end"))
    BY <1>6 DEF Deliver
  <2>2. g \in Consumers /\ g \in ToSet(getters)
    BY <2>1, TailFacts DEF PlaceTypes
  <2>5. op[g] = "get" /\ g \in Coroutines
    BY <2>2, NumbersFacts
  <2>3. ~LastItem(w, c)
    BY <1>6 DEF Deliver, LastItem
  <2> HIDE DEF g
  <2>4. \E o : op' = [op EXCEPT ![g] = o] /\ <<op[g], o>> \in ConsumerSteps
    BY <2>1, <2>2, <2>5
  <2> QED
    BY <2>2, <2>3, <2>4
<1>7. CASE Yield(w, c)
  <2>1. CASE c \in Producers
    <3>1. op' = [op EXCEPT ![c] = "release"] /\ <<op[c], "release">> \in ProducerSteps
      BY <2>1, <1>7 DEF Yield
    <3> QED
      BY <1>2, <3>1, <2>1, <1>7 DEF Yield, LastItem
  <2>2. CASE c \in Consumers
    <3>1. c \notin Producers
      BY <2>2, NumbersFacts
    <3>2. op' = [op EXCEPT ![c] = "finalize"] /\ <<op[c], "finalize">> \in ConsumerSteps
      BY <3>1, <1>7 DEF Yield
    <3> QED
      BY <1>2, <3>2, <2>2, <1>7 DEF Yield, LastItem
  <2> QED
    BY <1>1, <2>1, <2>2
<1>8. CASE LastItem(w, c)
  <2>1. \E o : op' = [op EXCEPT ![c] = o] /\ <<op[c], o>> \in LastSteps
    BY <1>8 DEF LastItem, LastSteps
  <2>2. c \in Producers
    BY <1>1, <1>8 DEF LastItem
  <2> QED
    BY <1>2, <2>1, <2>2, <1>8
<1>9. CASE End(w, c)
  <2>1. \E o : op' = [op EXCEPT ![c] = o] /\ <<op[c], o>> \in ProducerSteps \cap ConsumerSteps
    BY <1>9 DEF End
  <2>2. ~LastItem(w, c)
    BY <1>9 DEF End, LastItem
  <2> QED
    BY <1>1, <1>2, <2>1, <2>2
<1> QED
  BY <1>3, <1>4, <1>5, <1>6, <1>7, <1>8, <1>9 DEF Run

(* Main's steps and those of the loops change no op. *)
LEMMA OtherSteps ==
  ASSUME NEW w \in Workers, Loop(w) \/ Spurious(w) \/ MainStep
  PROVE  op' = op /\ getters' = getters /\ item' = item /\ UNCHANGED queueVars
BY DEF Loop, Spurious, MainStep, AddConsumer, AddProducer, Wait, StopPool, coVars

(* Whoever suspends in get goes on with it. *)
LEMMA GettersKept ==
  ASSUME PlacedInv, NEW w \in Workers, NEW c \in Coroutines, Run(w, c)
  PROVE  \A x \in ToSet(getters') : op'[x] = "get"
<1> USE DEF PlacedInv, PlaceInv
<1>1. CASE Get(w, c) /\ getters' # getters
  <2>1. getters' = <<c>> \o getters /\ op' = op /\ op[c] = "get"
          /\ stack[w] # <<>> /\ Last(stack[w]) = c
    BY <1>1 DEF Get, RunsFree, Runs, OnTop
  <2>2. c \in OnWorkers
    BY <2>1, TopRuns
  <2>3. c \in Consumers /\ c \notin ToSet(getters)
    BY <2>1, <2>2 DEF OpTypes, Coroutines, Apart
  <2>4. ToSet(getters') = {c} \cup ToSet(getters)
    BY <2>1, <2>3, ConsFacts DEF PlaceTypes, Once
  <2> QED
    BY <2>1, <2>4
<1>2. CASE Deliver(w, c)
  <2> DEFINE g == Head(getters)
  <2>1. getters # <<>> /\ getters' = Tail(getters) /\ (Then(g, "yield") \/ Then(g, "end"))
    BY <1>2 DEF Deliver
  <2>2. ToSet(getters) = {g} \cup ToSet(getters') /\ g \notin ToSet(getters')
    BY <2>1, TailFacts DEF PlaceTypes, Once
  <2>4. ToSet(getters) \subseteq Consumers
    BY GettersAre
  <2> HIDE DEF g
  <2>3. \A x \in ToSet(getters') : op'[x] = op[x]
    BY <2>1, <2>2, <2>4, NumbersFacts DEF Then, OpTypes
  <2> QED
    BY <2>2, <2>3
<1>3. CASE getters' = getters /\ ~Deliver(w, c)
  <2>1. stack[w] # <<>> /\ Last(stack[w]) = c /\ \A x \in Coroutines \ {c} : op'[x] = op[x]
    BY <1>3 DEF Run, Call, Reserve, Release, Finalize, Interrupt, Leave, Yield, NextItem,
                LastItem, Get, End, Then, RunsFree, RunsInside, Runs, OnTop, coVars, OpTypes
  <2>2. c \notin ToSet(getters)
    BY <2>1, TopRuns DEF Apart
  <2>3. ToSet(getters) \subseteq Coroutines
    BY GettersAre, NumbersFacts
  <2> QED
    BY <1>3, <2>1, <2>2, <2>3
<1> QED
  BY <1>1, <1>2, <1>3
  DEF Run, Call, Reserve, Release, Finalize, Interrupt, Leave, Yield, NextItem, LastItem,
      End, coVars

(* The places, the ops and the order of scheduling are kept by every step. *)
LEMMA PlacedKept == PlacedInv /\ [Next]_vars => PlacedInv'
<1> SUFFICES ASSUME PlacedInv, [Next]_vars PROVE PlacedInv'
  OBVIOUS
<1>1. ASSUME NEW w \in Workers, NEW c \in Coroutines, Run(w, c) PROVE PlacedInv'
  <2>1. PlaceInv'
    <3>1. CASE Reserve(w, c) \/ Release(w, c) \/ Finalize(w, c) \/ Interrupt(w, c)
               \/ NextItem(w, c) \/ LastItem(w, c)
      <4>1. stack[w] # <<>> /\ Last(stack[w]) = c
        BY <3>1 DEF Reserve, Release, Finalize, Interrupt, NextItem, LastItem, RunsInside,
                    RunsFree, Runs, OnTop
      <4>2. c \in OnWorkers
        BY <4>1, TopRuns DEF PlacedInv, PlaceInv
      <4>3. \E o : o # "gone" /\ Then(c, o)
        BY <3>1 DEF Reserve, Release, Finalize, Interrupt, NextItem, LastItem
      <4>4. UNCHANGED <<tasks, waiters, parked, getters, stack, holder>>
        BY <3>1 DEF Reserve, Release, Finalize, Interrupt, NextItem, LastItem, poolVars,
                    lockVars
      <4> QED
        BY <4>2, <4>3, <4>4, OpMoves
    <3> QED
      BY <1>1, <3>1, CallMoves, DeliverMoves, LeaveMoves, YieldMoves, GetMoves, EndMoves
      DEF Run
  <2>2. tasks' = tasks
    BY <1>1 DEF Run, Call, Reserve, Release, Finalize, Interrupt, Deliver, Leave, Yield,
                NextItem, LastItem, Get, End, poolVars
  <2>3. OpTypes' /\ \A x \in Coroutines \ Scheduled : op'[x] = op[x]
    <3>1. CASE op' = op
      BY <3>1 DEF PlacedInv, OpTypes
    <3>2. ASSUME NEW x \in OnWorkers \cup ToSet(getters), NEW o,
                 op' = [op EXCEPT ![x] = o],
                 \/ x \in Producers /\ <<op[x], o>> \in ProducerSteps \cup LastSteps
                 \/ x \in Consumers /\ <<op[x], o>> \in ConsumerSteps
          PROVE  OpTypes' /\ \A y \in Coroutines \ Scheduled : op'[y] = op[y]
      <4>1. x \in Scheduled
        BY <3>2 DEF PlacedInv, PlaceInv, Everywhere, Live
      <4>2. x \in Coroutines /\ op \in [Coroutines -> LockingOps
                             \cup {"loop", "yield", "get", "end", "ended", "gone"}]
        BY <3>2, NumbersFacts DEF PlacedInv, OpTypes
      <4>3. \A y \in Coroutines : op'[y] = IF y = x THEN o ELSE op[y]
        BY <3>2, <4>2
      <4>4. x \in Producers /\ x \notin Consumers =>
              o \in {"loop", "reserve", "yield", "release", "interrupt", "end", "ended", "gone"}
        BY <3>2, NumbersFacts DEF ProducerSteps, LastSteps
      <4>5. x \in Consumers =>
              o \in {"get", "yield", "finalize", "end", "ended", "gone"}
        BY <3>2, NumbersFacts DEF ConsumerSteps
      <4>6. (x \in Producers /\ x \notin Consumers) \/ (x \in Consumers /\ x \notin Producers)
        BY <3>2, NumbersFacts
      <4>7. OpTypes'
        BY <3>2, <4>2, <4>3, <4>4, <4>5, <4>6, NumbersFacts
        DEF PlacedInv, OpTypes, LockingOps
      <4> QED
        BY <4>1, <4>3, <4>7
    <3> QED
      BY <1>1, <3>1, <3>2, RunSteps
  <2>4. TaskInv'
    BY <2>2, <2>3 DEF PlacedInv, TaskInv, Scheduled
  <2> QED
    BY <1>1, <2>1, <2>3, <2>4, GettersKept DEF PlacedInv
<1>2. ASSUME NEW w \in Workers, Loop(w) \/ Spurious(w) PROVE PlacedInv'
  <2>1. op' = op /\ getters' = getters /\ tasks' = tasks
    BY <1>2 DEF Loop, Spurious, coVars, WorkerLoop, CheckStopped, Sleep, SeeStopped,
                TakeNext, SuspendReturns, Resumed, SpuriousWakeup
  <2> QED
    BY <1>2, <2>1, LoopMoves DEF PlacedInv, TaskInv, OpTypes, Scheduled
<1>3. CASE AddConsumer \/ AddProducer
  <2>1. /\ Len(tasks) \in Coroutines /\ Schedule(Len(tasks))
        /\ UNCHANGED <<op, getters, holder, parked>>
    BY <1>3, NumbersFacts DEF AddConsumer, AddProducer, coVars, lockVars
  <2> QED
    BY <2>1, ScheduleMoves DEF PlacedInv, OpTypes
<1>4. CASE Wait \/ StopPool \/ UNCHANGED vars
  <2>1. UNCHANGED <<tasks, waiters, stack, coVars, lockVars>>
    BY <1>4 DEF Wait, StopPool, SetStopped, NotifyAll, poolVars, vars
  <2> QED
    BY <2>1 DEF PlacedInv, PlaceInv, PlaceTypes, Once, Apart, Everywhere, Live, Scheduled,
                OnWorkers, TaskInv, OpTypes, coVars, lockVars
<1> QED
  BY <1>1, <1>2, <1>3, <1>4 DEF Next, WorkerStep, MainStep, Done

-----------------------------------------------------------------------------
(* what has been done so far *)

(* the producers that have not left their loop *)
Working == {c \in Producers : op[c] \in {"loop", "reserve", "yield", "release"}}

ValueTypes ==
  /\ item \in [Coroutines -> Producers \X (0..NItems) \cup Consumers \X {0}]
  /\ holder \in Coroutines \cup {Nobody}
  /\ status \in [Items -> {"new", "reserved", "served", "finalized"}]
  /\ filled \in SUBSET Items
  /\ interrupted \in BOOLEAN /\ over \in BOOLEAN

(* what producer c has come to with its items, of which n is the current *)
Produced(c, n) ==
  /\ item[c] = <<c, n>>
  /\ \A k \in 1..NItems : k < n => status[<<c, k>>] # "new" /\ <<c, k>> \in filled
  /\ op[c] \in {"reserve", "yield", "release"} => n # 0
  /\ n # 0 /\ op[c] # "reserve" => status[<<c, n>>] # "new"
  /\ n # 0 /\ op[c] \notin {"reserve", "yield", "release"} => <<c, n>> \in filled
  /\ c \notin Working => n = NItems

ItemInv ==
  /\ \A c \in Producers : \E n \in 0..NItems : Produced(c, n)
  /\ \A c \in Consumers : op[c] \in {"yield", "finalize"} => item[c] \in Items

(* nobody interrupts before the last producer has left its loop *)
CountInv ==
  /\ producers = IF Len(tasks) > NConsumers THEN Cardinality(Working) ELSE 0
  /\ interrupted \/ (\E c \in Producers : op[c] = "interrupt") => Working = {}

(* a consumer ends when nothing is pending or to come *)
OverInv ==
  /\ over => interrupted /\ \A i \in Items : status[i] \notin {"reserved", "served"}
  /\ \A c \in Consumers : op[c] \in {"end", "ended", "gone"} => over

ValueInv == ValueTypes /\ ItemInv /\ CountInv /\ OverInv

(* A step changes the op and the item of the coroutine that runs, or of a  *)
(* consumer that it resumes.                                               *)
LEMMA OthersKept ==
  ASSUME PlacedInv, ValueTypes, NEW w \in Workers, NEW c \in Coroutines, Run(w, c),
         NEW p \in Producers, p # c
  PROVE  op'[p] = op[p] /\ item'[p] = item[p]
<1>1. p \in Coroutines /\ p \notin Consumers
  BY NumbersFacts
<1>2. CASE Deliver(w, c)
  <2> DEFINE g == Head(getters)
  <2>1. /\ getters # <<>> /\ (Then(g, "yield") \/ Then(g, "end"))
        /\ item' = item \/ \E i \in Items : item' = [item EXCEPT ![g] = i]
    BY <1>2 DEF Deliver
  <2>2. g \in Consumers
    BY <2>1, TailFacts DEF PlacedInv, PlaceInv, PlaceTypes
  <2> HIDE DEF g
  <2> QED
    BY <1>1, <2>1, <2>2 DEF Then, PlacedInv, OpTypes, ValueTypes
<1>3. CASE ~Deliver(w, c)
  <2>1. op' = op \/ \E o : op' = [op EXCEPT ![c] = o]
    BY <1>3 DEF Run, Call, Reserve, Release, Finalize, Interrupt, Leave, Yield, NextItem,
                LastItem, Get, End, Then, coVars
  <2>2. item' = item \/ (\E i : item' = [item EXCEPT ![c] = i])
          \/ \E n : item' = [item EXCEPT ![c][2] = n]
    BY <1>3 DEF Run, Call, Reserve, Release, Finalize, Interrupt, Leave, Yield, NextItem,
                LastItem, Get, End, coVars
  <2> QED
    BY <1>1, <2>1, <2>2 DEF PlacedInv, OpTypes, ValueTypes
<1> QED
  BY <1>2, <1>3

(* Items only come forward. *)
LEMMA ItemsAdvance ==
  ASSUME PlacedInv, ValueInv, NEW w \in Workers, NEW c \in Coroutines, Run(w, c)
  PROVE  /\ status' \in [Items -> {"new", "reserved", "served", "finalized"}]
         /\ \A i \in Items : status[i] # "new" => status'[i] # "new"
         /\ filled' \in SUBSET Items /\ filled \subseteq filled'
<1> USE DEF ValueInv, ValueTypes
<1>1. CASE Reserve(w, c)
  BY <1>1 DEF Reserve, Queue!Reserve, Queue!Move
<1>2. CASE Release(w, c)
  <2>1. op[c] = "release" /\ status' = status /\ filled' = filled \cup {item[c]}
    BY <1>2 DEF Release, RunsInside, Runs, OnTop, Queue!Populate
  <2>2. c \in Producers
    BY <2>1 DEF PlacedInv, OpTypes, Coroutines
  <2>3. item[c] \in Items
    <3>1. PICK n \in 0..NItems : Produced(c, n)
      BY <2>2 DEF ItemInv
    <3>2. item[c] = <<c, n>> /\ n # 0
      BY <2>1, <3>1 DEF Produced
    <3>3. n \in 1..NItems
      BY <3>2, AppAssumption
    <3> QED
      BY <2>2, <3>2, <3>3 DEF Items
  <2> QED
    BY <2>1, <2>3
<1>3. CASE Finalize(w, c)
  BY <1>3 DEF Finalize, Queue!Finalize, Queue!Move
<1>4. CASE Deliver(w, c)
  BY <1>4 DEF Deliver, Queue!Serve, Queue!Move, queueVars
<1>5. CASE Get(w, c)
  BY <1>5 DEF Get, Queue!Serve, Queue!Move, queueVars
<1>6. CASE UNCHANGED <<status, filled>>
  BY <1>6
<1> QED
  BY <1>1, <1>2, <1>3, <1>4, <1>5, <1>6
  DEF Run, Call, Interrupt, Leave, Yield, NextItem, LastItem, End, queueVars,
      Queue!Interrupt

(* A producer goes through its items one by one: it has reserved, and then *)
(* released, those that it has left behind.                                *)
LEMMA ProducedKept ==
  ASSUME PlacedInv, ValueInv, NEW w \in Workers, NEW c \in Coroutines, Run(w, c),
         NEW p \in Producers
  PROVE  \E n \in 0..NItems : Produced(p, n)'
<1>1. PICK n \in 0..NItems : Produced(p, n)
  BY DEF ValueInv, ItemInv
<1>2. n \in Nat /\ n <= NItems /\ NItems \in Nat /\ p \in Coroutines
  BY AppAssumption, NumbersFacts
<1>3. /\ \A i \in Items : status[i] # "new" => status'[i] # "new"
      /\ filled \subseteq filled'
  BY ItemsAdvance
<1>4. \A k \in 1..NItems : <<p, k>> \in Items
  BY DEF Items
<1>5. op \in [Coroutines -> LockingOps
                          \cup {"loop", "yield", "get", "end", "ended", "gone"}]
        /\ op[p] \in {"loop", "reserve", "yield", "release", "interrupt", "end", "ended",
                      "gone"}
  BY DEF PlacedInv, OpTypes
<1>6. p \in Working <=> op[p] \in {"loop", "reserve", "yield", "release"}
  BY DEF Working
<1>7. CASE op'[p] = op[p] /\ item'[p] = item[p]
  <2>1. p \in Working' <=> p \in Working
    BY <1>7 DEF Working
  <2> QED
    BY <1>1, <1>2, <1>3, <1>4, <1>7, <2>1 DEF Produced
<1>8. CASE p = c /\ NextItem(w, c)
  <2>1. op[p] = "loop" /\ op'[p] = "reserve" /\ n < NItems
    BY <1>1, <1>2, <1>5, <1>8 DEF NextItem, RunsFree, Runs, OnTop, Then, Produced
  <2>2. item'[p] = <<p, n + 1>>
    <3>1. item' = [item EXCEPT ![p][2] = @ + 1]
      BY <1>8 DEF NextItem
    <3>2. item'[p] = [item[p] EXCEPT ![2] = @ + 1]
      BY <1>2, <3>1 DEF ValueInv, ValueTypes
    <3>3. item[p] = <<p, n>>
      BY <1>1 DEF Produced
    <3> QED
      BY <3>2, <3>3
  <2>3. \A k \in 1..NItems : k < n + 1 => status'[<<p, k>>] # "new" /\ <<p, k>> \in filled'
    <3>1. SUFFICES ASSUME NEW k \in 1..NItems, k < n + 1
                   PROVE  status[<<p, k>>] # "new" /\ <<p, k>> \in filled
      BY <1>3, <1>4
    <3>2. k < n \/ (k = n /\ n # 0)
      BY <1>2, <3>1
    <3> QED
      BY <1>1, <2>1, <3>2 DEF Produced
  <2>4. p \in Working'
    BY <2>1 DEF Working
  <2>5. n + 1 \in 0..NItems /\ n + 1 # 0
    BY <1>2, <2>1
  <2>6. Produced(p, n + 1)'
    BY <2>1, <2>2, <2>3, <2>4, <2>5 DEF Produced
  <2> QED
    BY <2>5, <2>6
<1>9. CASE p = c /\ ~NextItem(w, c)
  <2>1. p \notin Consumers
    BY NumbersFacts
  <2>2. item'[p] = item[p]
    <3>1. CASE Deliver(w, c)
      <4>1. getters # <<>> => Head(getters) \in Consumers
        BY TailFacts DEF PlacedInv, PlaceInv, PlaceTypes
      <4> QED
        BY <1>2, <2>1, <3>1, <4>1 DEF Deliver, ValueInv, ValueTypes
    <3>2. CASE Get(w, c)
      BY <1>5, <1>9, <3>2 DEF Get, RunsFree, Runs, OnTop
    <3>3. CASE item' = item
      BY <3>3
    <3> QED
      BY <1>9, <3>1, <3>2, <3>3 DEF Run, Call, Reserve, Release, Finalize, Interrupt, Leave,
                                    Yield, LastItem, End, coVars
  <2>3. item'[p] = <<p, n>>
    BY <1>1, <2>2 DEF Produced
  <2>4. CASE Reserve(w, c)
    <3>1. op[p] = "reserve" /\ op'[p] = "yield"
      BY <1>2, <1>5, <1>9, <2>4 DEF Reserve, RunsInside, Runs, OnTop, Then
    <3>2. n # 0 /\ <<p, n>> \in Items
      BY <1>1, <1>2, <1>4, <3>1 DEF Produced
    <3>3. status' = [status EXCEPT ![<<p, n>>] = "reserved"]
      BY <1>1, <1>9, <2>4 DEF Reserve, Queue!Reserve, Queue!Move, Produced
    <3>4. status'[<<p, n>>] # "new" /\ p \in Working'
      BY <3>1, <3>2, <3>3 DEF ValueInv, ValueTypes, Working
    <3>5. \A k \in 1..NItems : k < n => status'[<<p, k>>] # "new" /\ <<p, k>> \in filled'
      BY <1>1, <1>3, <1>4 DEF Produced
    <3> QED
      BY <2>3, <3>1, <3>2, <3>4, <3>5 DEF Produced
  <2>5. CASE Release(w, c)
    <3>1. op[p] = "release" /\ op'[p] = "loop"
      BY <1>2, <1>5, <1>9, <2>5 DEF Release, RunsInside, Runs, OnTop, Then
    <3>2. n # 0 /\ <<p, n>> \in Items /\ status[<<p, n>>] # "new"
      BY <1>1, <1>2, <1>4, <3>1 DEF Produced
    <3>3. filled' = filled \cup {<<p, n>>}
      BY <1>1, <1>9, <2>5 DEF Release, Queue!Populate, Produced
    <3>4. status'[<<p, n>>] # "new" /\ p \in Working'
      BY <1>3, <3>1, <3>2 DEF Working
    <3>5. \A k \in 1..NItems : k < n => status'[<<p, k>>] # "new" /\ <<p, k>> \in filled'
      BY <1>1, <1>3, <1>4 DEF Produced
    <3> QED
      BY <2>3, <3>1, <3>2, <3>3, <3>4, <3>5 DEF Produced
  <2>6. CASE Yield(w, c)
    <3>1. op[p] = "yield" /\ op'[p] = "release"
      BY <1>2, <1>5, <1>9, <2>6 DEF Yield, RunsFree, Runs, OnTop, Then
    <3>2. p \in Working /\ p \in Working'
      BY <3>1 DEF Working
    <3> QED
      BY <1>1, <1>2, <1>3, <1>4, <2>3, <3>1, <3>2 DEF Produced
  <2>7. CASE LastItem(w, c)
    <3>1. op[p] = "loop" /\ op'[p] \in {"interrupt", "end"} /\ item[p][2] = NItems
      BY <1>2, <1>5, <1>9, <2>7 DEF LastItem, RunsFree, Runs, OnTop, Then
    <3>2. n = NItems
      BY <1>1, <3>1 DEF Produced
    <3> QED
      BY <1>1, <1>2, <1>3, <1>4, <2>3, <3>1, <3>2 DEF Produced
  <2>8. CASE Interrupt(w, c) \/ End(w, c)
    <3>1. op[p] \in {"interrupt", "end", "ended"} /\ op'[p] \in {"end", "ended", "gone"}
      BY <1>2, <1>5, <1>9, <2>8 DEF Interrupt, End, RunsInside, RunsFree, Runs, OnTop, Then
    <3>2. p \notin Working
      BY <3>1 DEF Working
    <3> QED
      BY <1>1, <1>2, <1>3, <1>4, <2>3, <3>1, <3>2 DEF Produced
  <2>9. CASE Call(w, c) \/ Leave(w, c) \/ Deliver(w, c)
    <3>1. op'[p] = op[p]
      <4>1. getters # <<>> => Head(getters) \in Consumers
        BY TailFacts DEF PlacedInv, PlaceInv, PlaceTypes
      <4> QED
        BY <1>2, <1>5, <2>1, <2>9, <4>1 DEF Call, Leave, Deliver, Then, coVars
    <3> QED
      BY <2>2, <3>1, <1>7
  <2>10. ~Get(w, c) /\ ~Finalize(w, c)
    BY <1>5, <1>9 DEF Get, Finalize, RunsInside, RunsFree, Runs, OnTop
  <2> QED
    BY <1>9, <2>4, <2>5, <2>6, <2>7, <2>8, <2>9, <2>10 DEF Run
<1> QED
  BY <1>7, <1>8, <1>9, OthersKept DEF ValueInv

(* A consumer holds an item from the get that returns it to its finalize.  *)
LEMMA ConsumedKept ==
  ASSUME PlacedInv, ValueInv, NEW w \in Workers, NEW c \in Coroutines, Run(w, c)
  PROVE  /\ item' \in [Coroutines -> Producers \X (0..NItems) \cup Consumers \X {0}]
         /\ \A x \in Consumers : op'[x] \in {"yield", "finalize"} => item'[x] \in Items
<1> DEFINE Values == Producers \X (0..NItems) \cup Consumers \X {0}
<1>1. /\ Items \subseteq Values /\ item \in [Coroutines -> Values]
      /\ Consumers \subseteq Coroutines /\ Consumers \cap Producers = {}
  BY NumbersFacts, AppAssumption DEF ValueInv, ValueTypes, Items
<1>2. /\ \A x \in Consumers : op[x] \in {"yield", "finalize"} => item[x] \in Items
      /\ op \in [Coroutines -> LockingOps
                          \cup {"loop", "yield", "get", "end", "ended", "gone"}]
      /\ \A x \in Consumers : op[x] \in {"get", "yield", "finalize", "end", "ended", "gone"}
  BY DEF ValueInv, ItemInv, PlacedInv, OpTypes
<1>3. ASSUME NEW x \in Coroutines, NEW i \in Items, item' = [item EXCEPT ![x] = i],
             Then(x, "yield")
      PROVE  item' \in [Coroutines -> Values]
               /\ \A y \in Consumers : op'[y] \in {"yield", "finalize"} => item'[y] \in Items
  <2> HIDE DEF Values
  <2> QED
    BY <1>1, <1>2, <1>3 DEF Then
<1>4. ASSUME NEW x \in Coroutines, item' = item, NEW o, Then(x, o),
             o \notin {"yield", "finalize"} \/ x \in Producers \/ op[x] = "yield"
      PROVE  item' \in [Coroutines -> Values]
               /\ \A y \in Consumers : op'[y] \in {"yield", "finalize"} => item'[y] \in Items
  <2> HIDE DEF Values
  <2> QED
    BY <1>1, <1>2, <1>4 DEF Then
<1>5. CASE Call(w, c) \/ Leave(w, c)
  BY <1>1, <1>2, <1>5 DEF Call, Leave, coVars
<1>6. CASE Reserve(w, c)
  <2>1. c \in Producers
    BY <1>6 DEF Reserve, RunsInside, Runs, OnTop, PlacedInv, OpTypes, Coroutines
  <2> QED
    BY <1>4, <1>6, <2>1 DEF Reserve
<1>7. CASE Release(w, c) \/ Finalize(w, c) \/ Interrupt(w, c) \/ End(w, c)
  <2>1. item' = item /\ \E o : Then(c, o) /\ o \notin {"yield", "finalize"}
    BY <1>7 DEF Release, Finalize, Interrupt, End
  <2> QED
    BY <1>4, <2>1
<1>8. CASE LastItem(w, c)
  <2>1. item' = item /\ \E o : Then(c, o) /\ o \notin {"yield", "finalize"}
    BY <1>8 DEF LastItem
  <2> QED
    BY <1>4, <2>1
<1>9. CASE Yield(w, c)
  <2>1. item' = item /\ op[c] = "yield" /\ \E o : Then(c, o)
    BY <1>9 DEF Yield, RunsFree, Runs, OnTop
  <2> QED
    BY <1>4, <2>1
<1>10. CASE NextItem(w, c)
  <2>1. c \in Producers
    BY <1>10 DEF NextItem, RunsFree, Runs, OnTop, PlacedInv, OpTypes, Coroutines
  <2>2. PICK v : item' = [item EXCEPT ![c] = v]
    BY <1>10 DEF NextItem
  <2>3. item'[c] \in Producers \X (0..NItems)
    <3>1. PICK n \in 0..NItems : Produced(c, n)'
      BY <2>1, ProducedKept
    <3>2. item'[c] = <<c, n>>
      BY <3>1 DEF Produced
    <3> QED
      BY <2>1, <3>2
  <2>4. item'[c] \in Values
    BY <2>3
  <2>5. op' = [op EXCEPT ![c] = "reserve"]
    BY <1>10 DEF NextItem, Then
  <2> HIDE DEF Values
  <2>6. item' \in [Coroutines -> Values]
    BY <1>1, <2>2, <2>4
  <2>7. \A x \in Consumers : op'[x] \in {"yield", "finalize"} => item'[x] \in Items
    BY <1>1, <1>2, <2>1, <2>2, <2>5
  <2> QED
    BY <2>6, <2>7 DEF Values
<1>11. CASE Deliver(w, c)
  <2> DEFINE g == Head(getters)
  <2>1. /\ getters # <<>>
        /\ \/ \E i \in Items : item' = [item EXCEPT ![g] = i] /\ Then(g, "yield")
           \/ Then(g, "end") /\ item' = item
    BY <1>11 DEF Deliver
  <2>2. g \in Coroutines
    BY <2>1, <1>1, TailFacts DEF PlacedInv, PlaceInv, PlaceTypes
  <2> HIDE DEF g
  <2> QED
    BY <1>3, <1>4, <2>1, <2>2
<1>12. CASE Get(w, c)
  <2>1. \/ \E i \in Items : item' = [item EXCEPT ![c] = i] /\ Then(c, "yield")
        \/ Then(c, "end") /\ item' = item
        \/ op' = op /\ item' = item
    BY <1>12 DEF Get
  <2>2. CASE \E i \in Items : item' = [item EXCEPT ![c] = i] /\ Then(c, "yield")
    BY <1>3, <2>2
  <2>3. CASE Then(c, "end") /\ item' = item
    BY <1>4, <2>3
  <2>4. CASE op' = op /\ item' = item
    BY <1>1, <1>2, <2>4
  <2> QED
    BY <2>1, <2>2, <2>3, <2>4
<1> QED
  BY <1>5, <1>6, <1>7, <1>8, <1>9, <1>10, <1>11, <1>12 DEF Run

(* The producers that are at work, and how many they are. *)
LEMMA WorkingCount ==
  /\ IsFiniteSet(Working) /\ Cardinality(Working) \in 0..NProducers
  /\ Cardinality(Working) = 0 <=> Working = {}
  /\ \A c \in Working : Cardinality(Working \ {c}) = Cardinality(Working) - 1
  /\ Cardinality(Producers) = NProducers
<1>1. IsFiniteSet(Producers) /\ Cardinality(Producers) = NProducers
  <2>1. NConsumers \in Int /\ NConsumers + NProducers - 1 \in Int
    BY AppAssumption
  <2>2. IsFiniteSet(NConsumers..NConsumers + NProducers - 1)
    BY <2>1, FS_Interval
  <2>3. Cardinality(NConsumers..NConsumers + NProducers - 1)
          = IF NConsumers > NConsumers + NProducers - 1 THEN 0
            ELSE (NConsumers + NProducers - 1) - NConsumers + 1
    BY <2>1, FS_Interval
  <2> QED
    BY <2>2, <2>3, AppAssumption DEF Producers
<1>2. Working \subseteq Producers
  BY DEF Working
<1>3. IsFiniteSet(Working) /\ Cardinality(Working) <= NProducers
  BY <1>1, <1>2, FS_Subset
<1>4. Cardinality(Working) \in Nat
  BY <1>3, FS_CardinalityType
<1>5. Cardinality(Working) \in 0..NProducers
  BY <1>3, <1>4, AppAssumption
<1>6. Cardinality(Working) = 0 <=> Working = {}
  BY <1>3, FS_EmptySet
<1>7. \A c \in Working : Cardinality(Working \ {c}) = Cardinality(Working) - 1
  BY <1>3, FS_RemoveElement
<1> QED
  BY <1>1, <1>3, <1>5, <1>6, <1>7

(* The counter is that of the producers at work, once they are counted; an *)
(* interrupt finds none of them.                                           *)
LEMMA CountKept ==
  ASSUME PlacedInv, ValueInv, NEW w \in Workers, NEW c \in Coroutines, Run(w, c)
  PROVE  CountInv'
<1>1. tasks' = tasks
  BY DEF Run, Call, Reserve, Release, Finalize, Interrupt, Deliver, Leave, Yield, NextItem,
         LastItem, Get, End, poolVars
<1>2. op \in [Coroutines -> LockingOps
                          \cup {"loop", "yield", "get", "end", "ended", "gone"}]
        /\ Consumers \cap Producers = {} /\ Producers \subseteq Coroutines
  BY NumbersFacts DEF PlacedInv, OpTypes
<1>3. interrupted' => interrupted \/ \E x \in Producers : op[x] = "interrupt"
  <2>1. CASE Interrupt(w, c)
    BY <2>1 DEF Interrupt, RunsInside, Runs, OnTop, PlacedInv, OpTypes, Coroutines
  <2>2. CASE ~Interrupt(w, c)
    BY <2>2 DEF Run, Call, Reserve, Release, Finalize, Deliver, Leave, Yield, NextItem,
         LastItem, Get, End, queueVars, Queue!Reserve, Queue!Populate, Queue!Finalize,
         Queue!Serve
  <2> QED
    BY <2>1, <2>2
<1>4. CASE ~LastItem(w, c)
  <2>1. producers' = producers
    BY <1>4 DEF Run, Call, Reserve, Release, Finalize, Interrupt, Deliver, Leave, Yield,
         NextItem, Get, End, coVars
  <2>2. \A x \in Producers : /\ x \in Working' <=> x \in Working
                             /\ op'[x] = "interrupt" => op[x] = "interrupt"
    <3>1. CASE op' = op
      BY <3>1 DEF Working
    <3>2. ASSUME NEW y \in OnWorkers \cup ToSet(getters), NEW o,
                 op' = [op EXCEPT ![y] = o],
                 \/ y \in Producers /\ <<op[y], o>> \in ProducerSteps
                 \/ y \in Consumers
          PROVE  \A x \in Producers : /\ x \in Working' <=> x \in Working
                                      /\ op'[x] = "interrupt" => op[x] = "interrupt"
      BY <1>2, <3>2 DEF Working, ProducerSteps
    <3> QED
      BY <1>4, <3>1, <3>2, RunSteps
  <2>3. Working' = Working
    BY <2>2 DEF Working
  <2> QED
    BY <1>1, <1>3, <2>1, <2>2, <2>3 DEF ValueInv, CountInv
<1>5. CASE LastItem(w, c)
  <2>1. /\ op[c] = "loop" /\ producers' = producers - 1 /\ interrupted' = interrupted
        /\ op' = [op EXCEPT ![c] = IF producers' = 0 THEN "interrupt" ELSE "end"]
        /\ stack[w] # <<>> /\ Last(stack[w]) = c
    BY <1>5 DEF LastItem, RunsFree, Runs, OnTop, Then, queueVars
  <2>2. c \in Producers /\ c \in Working
    BY <2>1 DEF PlacedInv, OpTypes, Coroutines, Working
  <2>3. Len(tasks) > NConsumers
    <3>1. c \in Scheduled
      BY <2>1, TopRuns DEF PlacedInv, PlaceInv, Everywhere, Live
    <3>2. PICK k \in DOMAIN tasks : tasks[k] = c
      BY <3>1 DEF Scheduled, ToSet
    <3>3. c = k - 1 /\ k \in Nat /\ k <= Len(tasks) /\ Len(tasks) \in Nat
      BY <3>2, LenProperties DEF PlacedInv, TaskInv, PlaceInv, PlaceTypes
    <3> QED
      BY <2>2, <3>3, AppAssumption DEF Producers
  <2>4. Working' = Working \ {c}
    BY <1>2, <2>1 DEF Working
  <2>5. producers' = Cardinality(Working')
    BY <2>1, <2>2, <2>3, <2>4, WorkingCount DEF ValueInv, CountInv
  <2>6. Working' = {} <=> producers' = 0
    BY <2>4, <2>5, WorkingCount, FS_EmptySet, FS_RemoveElement
  <2>7. ~interrupted /\ \A x \in Producers : op[x] # "interrupt"
    BY <2>2 DEF ValueInv, CountInv
  <2>8. (\E x \in Producers : op'[x] = "interrupt") => producers' = 0
    BY <1>2, <2>1, <2>2, <2>7
  <2> QED
    BY <1>1, <2>1, <2>3, <2>5, <2>6, <2>7, <2>8 DEF CountInv
<1> QED
  BY <1>4, <1>5

(* The consumers are told to stop after the interrupt and with the last    *)
(* item finalized, and none of them ends before.                           *)
LEMMA OverKept ==
  ASSUME PlacedInv, ValueInv, NEW w \in Workers, NEW c \in Coroutines, Run(w, c)
  PROVE  OverInv' /\ interrupted' \in BOOLEAN /\ over' \in BOOLEAN
<1>1. /\ over => interrupted /\ \A i \in Items : status[i] \notin {"reserved", "served"}
      /\ interrupted \in BOOLEAN /\ over \in BOOLEAN
      /\ status \in [Items -> {"new", "reserved", "served", "finalized"}]
  BY DEF ValueInv, OverInv, ValueTypes
<1>2. /\ over' => interrupted' /\ \A i \in Items : status'[i] \notin {"reserved", "served"}
      /\ interrupted' \in BOOLEAN /\ over' \in BOOLEAN /\ (over => over')
  <2>1. CASE Reserve(w, c)
    BY <1>1, <2>1 DEF Reserve, Queue!Reserve
  <2>2. CASE Release(w, c)
    BY <1>1, <2>2 DEF Release, Queue!Populate
  <2>3. CASE Finalize(w, c)
    <3>1. item[c] \in Items
      BY <2>3 DEF Finalize, RunsInside, Runs, OnTop, PlacedInv, OpTypes, Coroutines,
                  ValueInv, ItemInv
    <3>2. /\ interrupted' = interrupted /\ status[item[c]] = "served"
          /\ status' = [status EXCEPT ![item[c]] = "finalized"]
          /\ over' = (over \/ (interrupted /\ Pending = {item[c]}))
      BY <2>3 DEF Finalize, Queue!Finalize, Queue!Move
    <3>3. Pending = {i \in Items : status[i] \in {"reserved", "served"}}
      BY DEF Pending, Queue!Pending
    <3> QED
      BY <1>1, <3>1, <3>2, <3>3
  <2>4. CASE Interrupt(w, c)
    <3>1. interrupted' = TRUE /\ status' = status /\ over' = (Pending = {})
      BY <2>4 DEF Interrupt, Queue!Interrupt
    <3>2. Pending = {i \in Items : status[i] \in {"reserved", "served"}}
      BY DEF Pending, Queue!Pending
    <3> QED
      BY <1>1, <3>1, <3>2
  <2>5. CASE (\E i \in Items : Queue!Serve(i)) \/ UNCHANGED queueVars
    BY <1>1, <2>5 DEF Queue!Serve, Queue!Move, queueVars
  <2> QED
    BY <2>1, <2>2, <2>3, <2>4, <2>5 DEF Run, Call, Deliver, Leave, Yield, NextItem, LastItem,
                                        Get, End
<1>3. \A x \in Consumers : op'[x] \in {"end", "ended", "gone"} => over'
  <2>1. \A x \in Consumers : op[x] \in {"end", "ended", "gone"} => over
    BY DEF ValueInv, OverInv
  <2>2. op \in [Coroutines -> LockingOps
                          \cup {"loop", "yield", "get", "end", "ended", "gone"}]
          /\ Consumers \cap Producers = {} /\ Consumers \subseteq Coroutines
    BY NumbersFacts DEF PlacedInv, OpTypes
  <2>3. CASE Get(w, c) \/ Deliver(w, c)
    <3>1. over \/ op' = op \/ \E x : op' = [op EXCEPT ![x] = "yield"]
      BY <2>3 DEF Get, Deliver, Then
    <3> QED
      BY <1>2, <2>1, <2>2, <3>1
  <2>4. CASE ~Get(w, c) /\ ~Deliver(w, c)
    <3>1. op' = op \/ \E o : /\ op' = [op EXCEPT ![c] = o]
                             /\ \/ o \notin {"end", "ended", "gone"} \/ c \in Producers
                                \/ op[c] \in {"end", "ended"}
      BY <2>4 DEF Run, Call, Reserve, Release, Finalize, Interrupt, Leave, Yield, NextItem,
                  LastItem, End, coVars, Then, RunsInside, RunsFree, Runs, OnTop, PlacedInv,
                  OpTypes,
                  Coroutines
    <3> QED
      BY <1>2, <2>1, <2>2, <3>1
  <2> QED
    BY <2>3, <2>4
<1> QED
  BY <1>2, <1>3 DEF OverInv

(* What has been done is kept by every step. *)
LEMMA ValuesKept == PlacedInv /\ ValueInv /\ [Next]_vars => ValueInv'
<1> SUFFICES ASSUME PlacedInv, ValueInv, [Next]_vars PROVE ValueInv'
  OBVIOUS
<1>1. ASSUME NEW w \in Workers, NEW c \in Coroutines, Run(w, c) PROVE ValueInv'
  <2>1. holder' \in Coroutines \cup {Nobody}
    <3>1. CASE Call(w, c)
      BY <3>1 DEF Call, Lock!Acquire, Lock!Enqueue, ValueInv, ValueTypes
    <3>2. CASE Leave(w, c)
      <4>1. parked # <<>> => Head(parked) \in Coroutines
        BY TailFacts DEF PlacedInv, PlaceInv, PlaceTypes
      <4> QED
        BY <3>2, <4>1 DEF Leave, Lock!Free, Lock!HandOver
    <3>3. CASE holder' = holder
      BY <3>3 DEF ValueInv, ValueTypes
    <3> QED
      BY <1>1, <3>1, <3>2, <3>3 DEF Run, Reserve, Release, Finalize, Interrupt, Deliver,
                                    Yield, NextItem, LastItem, Get, End, lockVars
  <2>2. ValueTypes'
    BY <1>1, <2>1, ItemsAdvance, ConsumedKept, OverKept DEF ValueTypes
  <2>3. ItemInv'
    BY <1>1, ProducedKept, ConsumedKept DEF ItemInv
  <2>4. CountInv' /\ OverInv'
    BY <1>1, CountKept, OverKept
  <2> QED
    BY <2>2, <2>3, <2>4 DEF ValueInv
<1>2. CASE AddConsumer \/ AddProducer
  <2>1. UNCHANGED <<op, item, holder, queueVars>> /\ Len(tasks') = Len(tasks) + 1
    BY <1>2 DEF AddConsumer, AddProducer, coVars, lockVars, Schedule, PlacedInv, PlaceInv,
                PlaceTypes
  <2>2. ValueTypes' /\ ItemInv' /\ OverInv' /\ Working' = Working
    BY <2>1 DEF ValueInv, ValueTypes, ItemInv, Produced, OverInv, Working, queueVars
  <2>3. CountInv'
    <3>1. Len(tasks) \in Nat
      BY LenProperties DEF PlacedInv, PlaceInv, PlaceTypes
    <3>2. CASE AddConsumer
      BY <2>1, <2>2, <3>1, <3>2, AppAssumption
      DEF AddConsumer, coVars, queueVars, Consumers, ValueInv, CountInv
    <3>3. CASE AddProducer /\ Len(tasks) # NConsumers
      BY <2>1, <2>2, <3>1, <3>3, AppAssumption
      DEF AddProducer, queueVars, Producers, ValueInv, CountInv
    <3>4. CASE AddProducer /\ Len(tasks) = NConsumers
      <4>1. \A c \in Producers : c \notin Scheduled
        <5>1. SUFFICES ASSUME NEW k \in DOMAIN tasks PROVE tasks[k] \notin Producers
          BY DEF Scheduled, ToSet
        <5>2. tasks[k] = k - 1 /\ k \in Nat /\ k <= NConsumers
          BY <3>1, <3>4, LenProperties DEF PlacedInv, PlaceInv, PlaceTypes, TaskInv
        <5> QED
          BY <5>2, AppAssumption DEF Producers
      <4>2. Working = Producers
        BY <4>1, NumbersFacts DEF Working, PlacedInv, TaskInv
      <4>3. producers' = Cardinality(Working)
        BY <3>4, <4>2, WorkingCount DEF AddProducer
      <4> QED
        BY <2>1, <2>2, <3>1, <3>4, <4>3, AppAssumption DEF queueVars, ValueInv, CountInv
    <3> QED
      BY <1>2, <3>2, <3>3, <3>4
  <2> QED
    BY <2>2, <2>3 DEF ValueInv
<1>3. CASE UNCHANGED <<tasks, coVars, lockVars, queueVars>>
  BY <1>3 DEF coVars, lockVars, queueVars, ValueInv, ValueTypes, ItemInv, Produced, OverInv,
              CountInv, Working
<1>4. CASE (\E w \in Workers : Loop(w) \/ Spurious(w)) \/ Wait \/ StopPool \/ UNCHANGED vars
  BY <1>3, <1>4 DEF Loop, Spurious, WorkerLoop, CheckStopped, Sleep, SeeStopped, TakeNext,
              SuspendReturns, Resumed, SpuriousWakeup, Wait, StopPool, SetStopped, NotifyAll,
              poolVars, vars
<1> QED
  BY <1>1, <1>2, <1>4 DEF Next, WorkerStep, MainStep, Done

-----------------------------------------------------------------------------
(* the workers and main *)

RestInv ==
  /\ main \in {"schedule", "stop", "notify", "join", "returned"}
  /\ stopped \in BOOLEAN /\ worker \in [Workers -> Points]
  /\ \A w \in Workers : stack[w] # <<>> => worker[w] \in {"running", "suspending"}
  /\ main = "returned" => Joined
  /\ \A c \in ToSet(waiters) : op[c] \notin {"end", "ended", "gone"}
  /\ main # "schedule" => Ended = Coroutines
  /\ stopped => main # "schedule"

AppInv == PlacedInv /\ ValueInv /\ RestInv

(* A coroutine that comes into the queue of the pool wakes a worker that   *)
(* is asleep, or none.                                                     *)
LEMMA WakesOne ==
  ASSUME NEW c, NEW at, Enqueue(c, at)
  PROVE  worker' = at \/ \E w \in Asleep : worker' = [at EXCEPT ![w] = "enter"]
BY DEF Enqueue, NotifyOne

(* The coroutines that wait for a worker are not through with their work,  *)
(* and one that has ended stays so.                                        *)
LEMMA EndedKept ==
  ASSUME PlacedInv, NEW w \in Workers, NEW c \in Coroutines, Run(w, c)
  PROVE  /\ \A x \in Ended : op'[x] \in {"ended", "gone"}
         /\ \A x \in ToSet(waiters) : op'[x] = op[x]
<1>1. op \in [Coroutines -> LockingOps
                          \cup {"loop", "yield", "get", "end", "ended", "gone"}]
        /\ ToSet(waiters) \cap OnWorkers = {} /\ ToSet(waiters) \cap ToSet(getters) = {}
        /\ ToSet(waiters) \subseteq Coroutines
  <2>1. ToSet(waiters) \subseteq Coroutines
    <3>1. SUFFICES ASSUME NEW k \in DOMAIN waiters PROVE waiters[k] \in Coroutines
      BY DEF ToSet
    <3> QED
      BY DEF PlacedInv, PlaceInv, PlaceTypes
  <2> QED
    BY <2>1 DEF PlacedInv, PlaceInv, OpTypes, Apart
<1>2. ASSUME NEW x \in OnWorkers \cup ToSet(getters), NEW o, op' = [op EXCEPT ![x] = o],
             <<op[x], o>> \in ProducerSteps \cup LastSteps \cup ConsumerSteps
      PROVE  /\ \A y \in Ended : op'[y] \in {"ended", "gone"}
             /\ \A y \in ToSet(waiters) : op'[y] = op[y]
  BY <1>1, <1>2 DEF Ended, ProducerSteps, LastSteps, ConsumerSteps
<1>3. CASE op' = op
  BY <1>3 DEF Ended
<1> QED
  BY <1>2, <1>3, RunSteps

(* What the pool and main rely on is kept by the coroutines. *)
LEMMA RunRests ==
  ASSUME AppInv, NEW w \in Workers, NEW c \in Coroutines, Run(w, c)
  PROVE  RestInv'
<1>1. /\ main \in {"schedule", "stop", "notify", "join", "returned"}
      /\ stopped \in BOOLEAN /\ worker \in [Workers -> Points]
      /\ \A v \in Workers : stack[v] # <<>> => worker[v] \in {"running", "suspending"}
      /\ main = "returned" => Joined
      /\ \A x \in ToSet(waiters) : op[x] \notin {"end", "ended", "gone"}
      /\ main # "schedule" => Ended = Coroutines
      /\ stopped => main # "schedule"
      /\ stack \in [Workers -> Seq(Coroutines)] /\ waiters \in Seq(Coroutines)
      /\ op \in [Coroutines -> LockingOps
                             \cup {"loop", "yield", "get", "end", "ended", "gone"}]
  BY DEF AppInv, RestInv, PlacedInv, PlaceInv, PlaceTypes, OpTypes
<1>2. UNCHANGED <<main, stopped>>
  BY DEF Run, Call, Reserve, Release, Finalize, Interrupt, Deliver, Leave, Yield, NextItem,
         LastItem, Get, End, poolVars
<1>3. stack[w] # <<>> /\ worker[w] = "running"
  BY DEF Run, Call, Reserve, Release, Finalize, Interrupt, Deliver, Leave, Yield, NextItem,
         LastItem, Get, End, RunsInside, RunsFree, Runs, OnTop
<1>4. main # "returned"
  BY <1>1, <1>3 DEF Joined
<1>5. /\ \A x \in Ended : op'[x] \in {"ended", "gone"}
      /\ \A x \in ToSet(waiters) : op'[x] = op[x]
  BY EndedKept DEF AppInv
<1>6. main' # "schedule" => Ended' = Coroutines
  BY <1>1, <1>2, <1>5 DEF Ended
<1>7. CASE Yield(w, c)
  <2>1. /\ op' = [op EXCEPT ![c] = IF c \in Producers THEN "release" ELSE "finalize"]
        /\ waiters' = Append(waiters, c) /\ Enqueue(c, Moved(w, "suspending"))
        /\ stack' = [stack EXCEPT ![w] = Front(stack[w])]
    BY <1>7 DEF Yield, Then, Pop, Enqueue
  <2>2. \A x \in ToSet(waiters') : op'[x] \notin {"end", "ended", "gone"}
    <3>1. ToSet(waiters') = ToSet(waiters) \cup {c}
      BY <1>1, <2>1, AppendFacts
    <3>2. op'[c] \notin {"end", "ended", "gone"}
      BY <1>1, <2>1
    <3> QED
      BY <1>1, <1>5, <3>1, <3>2
  <2>3. \A v \in Workers : stack'[v] # <<>> => stack[v] # <<>>
    BY <1>1, <1>3, <2>1
  <2>4. /\ worker' \in [Workers -> Points]
        /\ \A v \in Workers : worker[v] \in {"running", "suspending"} =>
                                worker'[v] \in {"running", "suspending"}
    <3> DEFINE at == Moved(w, "suspending")
    <3>1. /\ at \in [Workers -> Points]
          /\ \A v \in Workers : at[v] = IF v = w THEN "suspending" ELSE worker[v]
      BY <1>1 DEF Moved, Points
    <3>2. worker' = at \/ \E v \in Asleep : worker' = [at EXCEPT ![v] = "enter"]
      BY <2>1, WakesOne
    <3> HIDE DEF at
    <3>3. CASE worker' = at
      BY <1>1, <1>3, <3>1, <3>3
    <3>4. ASSUME NEW x \in Workers, worker[x] = "asleep",
                 worker' = [at EXCEPT ![x] = "enter"]
          PROVE  /\ worker' \in [Workers -> Points]
                 /\ \A v \in Workers : worker[v] \in {"running", "suspending"} =>
                                         worker'[v] \in {"running", "suspending"}
      BY <1>1, <1>3, <3>1, <3>4 DEF Points
    <3> QED
      BY <3>2, <3>3, <3>4 DEF Asleep
  <2> QED
    BY <1>1, <1>2, <1>4, <1>6, <2>2, <2>3, <2>4 DEF RestInv
<1>8. CASE ~Yield(w, c)
  <2>1. UNCHANGED <<waiters, worker>>
          /\ (stack' = stack \/ \E s : stack' = [stack EXCEPT ![w] = s])
    BY <1>8 DEF Run, Call, Reserve, Release, Finalize, Interrupt, Deliver, Leave, NextItem,
                LastItem, Get, End, poolVars, Push, Pop
  <2>2. \A v \in Workers : stack'[v] # <<>> => worker'[v] \in {"running", "suspending"}
    BY <1>1, <1>3, <2>1
  <2> QED
    BY <1>1, <1>2, <1>4, <1>5, <1>6, <2>1, <2>2 DEF RestInv
<1> QED
  BY <1>7, <1>8

(* ... by the workers' loops ... *)
LEMMA LoopRests ==
  ASSUME AppInv, NEW w \in Workers, Loop(w) \/ Spurious(w)
  PROVE  RestInv'
<1>1. /\ stopped \in BOOLEAN /\ worker \in [Workers -> Points]
      /\ \A v \in Workers : stack[v] # <<>> => worker[v] \in {"running", "suspending"}
      /\ main = "returned" => Joined
      /\ stack \in [Workers -> Seq(Coroutines)] /\ waiters \in Seq(Coroutines)
      /\ \A x \in ToSet(waiters) : op[x] \notin {"end", "ended", "gone"}
  BY DEF AppInv, RestInv, PlacedInv, PlaceInv, PlaceTypes
<1>2. UNCHANGED <<main, op, stopped>>
  BY DEF Loop, Spurious, coVars, WorkerLoop, CheckStopped, Sleep, SeeStopped, TakeNext,
         SuspendReturns, Resumed,
         SpuriousWakeup
<1>3. worker[w] # "left" /\ \E p \in Points : worker' = [worker EXCEPT ![w] = p]
  BY DEF Loop, Spurious, WorkerLoop, CheckStopped, Sleep, SeeStopped, TakeNext,
         SuspendReturns, Resumed,
         SpuriousWakeup, Goto, Moved, Points
<1>4. \A v \in Workers : stack'[v] # <<>> => worker'[v] \in {"running", "suspending"}
  <2>1. CASE TakeNext(w)
    <3>1. worker' = [worker EXCEPT ![w] = "running"]
            /\ stack' = [stack EXCEPT ![w] = Append(@, Head(waiters))]
      BY <2>1 DEF TakeNext, Goto, Moved, Push
    <3> QED
      BY <1>1, <3>1
  <2>3. CASE SuspendReturns(w)
    <3>1. worker' = [worker EXCEPT ![w] = "running"] /\ stack' = stack
      BY <2>3 DEF SuspendReturns, Goto, Moved
    <3> QED
      BY <1>1, <3>1
  <2>2. CASE ~TakeNext(w) /\ ~SuspendReturns(w)
    <3>1. /\ stack' = stack
          /\ worker[w] \notin {"running", "suspending"} \/ stack[w] = <<>>
      BY <2>2 DEF Loop, Spurious, WorkerLoop, CheckStopped, Sleep, SeeStopped, Resumed,
                  SpuriousWakeup
    <3> QED
      BY <1>1, <1>3, <3>1
  <2> QED
    BY <2>1, <2>2, <2>3
<1>5. \A x \in ToSet(waiters') : x \in ToSet(waiters)
  <2>1. waiters' = waiters \/ (waiters # <<>> /\ waiters' = Tail(waiters))
    BY DEF Loop, Spurious, WorkerLoop, CheckStopped, Sleep, SeeStopped, TakeNext,
           SuspendReturns, Resumed,
           SpuriousWakeup
  <2> QED
    BY <1>1, <2>1, TailFacts
<1>6. main # "returned"
  BY <1>1, <1>3 DEF Joined
<1> QED
  BY <1>1, <1>2, <1>3, <1>4, <1>5, <1>6 DEF AppInv, RestInv, Ended

(* ... and by main, which stops the pool when all have ended. *)
LEMMA MainRests ==
  ASSUME AppInv, MainStep
  PROVE  RestInv'
<1>1. /\ main \in {"schedule", "stop", "notify", "join", "returned"}
      /\ stopped \in BOOLEAN /\ worker \in [Workers -> Points]
      /\ \A v \in Workers : stack[v] # <<>> => worker[v] \in {"running", "suspending"}
      /\ \A x \in ToSet(waiters) : op[x] \notin {"end", "ended", "gone"}
      /\ main # "schedule" => Ended = Coroutines
      /\ stopped => main # "schedule"
      /\ waiters \in Seq(Coroutines)
  BY DEF AppInv, RestInv, PlacedInv, PlaceInv, PlaceTypes
<1>2. CASE AddConsumer \/ AddProducer
  <2>1. /\ main = "schedule" /\ main' = main /\ Len(tasks) \in Coroutines
        /\ Enqueue(Len(tasks), worker) /\ UNCHANGED <<op, stopped, stack>>
    BY <1>2, NumbersFacts DEF AddConsumer, AddProducer, Schedule, coVars
  <2>2. /\ worker' \in [Workers -> Points]
        /\ \A v \in Workers : worker[v] \in {"running", "suspending"} =>
                                worker'[v] \in {"running", "suspending"}
    BY <1>1, <2>1, WakesOne DEF Asleep, Points
  <2>3. ToSet(waiters') = ToSet(waiters) \cup {Len(tasks)}
    <3>1. waiters' = Append(waiters, Len(tasks))
      BY <2>1 DEF Enqueue
    <3> QED
      BY <1>1, <2>1, <3>1, AppendFacts
  <2>4. op[Len(tasks)] \notin {"end", "ended", "gone"}
    <3>1. Len(tasks) \notin Scheduled
      <4>1. SUFFICES ASSUME NEW k \in DOMAIN tasks PROVE tasks[k] # Len(tasks)
        BY DEF Scheduled, ToSet
      <4>2. tasks[k] = k - 1 /\ k \in Nat /\ k <= Len(tasks) /\ Len(tasks) \in Nat
        BY LenProperties DEF AppInv, PlacedInv, PlaceInv, PlaceTypes, TaskInv
      <4> QED
        BY <4>2
    <3> QED
      BY <2>1, <3>1 DEF AppInv, PlacedInv, TaskInv
  <2> QED
    BY <1>1, <2>1, <2>2, <2>3, <2>4 DEF RestInv
<1>3. CASE Wait
  <2>1. /\ main' = "stop" /\ UNCHANGED <<tasks, waiters, stopped, worker, stack, op>>
        /\ Len(tasks) = NConsumers + NProducers /\ ToSet(tasks) \subseteq Ended
    BY <1>3 DEF Wait, MainGoto, poolVars, coVars
  <2>2. Coroutines \subseteq ToSet(tasks)
    <3>1. SUFFICES ASSUME NEW c \in Coroutines PROVE c \in ToSet(tasks)
      OBVIOUS
    <3>2. c + 1 \in DOMAIN tasks
      BY <2>1, NumbersFacts, AppAssumption, LenProperties DEF AppInv, PlacedInv, PlaceInv,
         PlaceTypes
    <3>3. tasks[c + 1] = c
      BY <3>2, NumbersFacts, AppAssumption DEF AppInv, PlacedInv, TaskInv
    <3> QED
      BY <3>2, <3>3 DEF ToSet
  <2>3. Ended' = Coroutines
    BY <2>1, <2>2 DEF Ended
  <2> QED
    BY <1>1, <2>1, <2>3 DEF RestInv
<1>4. CASE StopPool
  <2>1. UNCHANGED <<tasks, waiters, stack, op>> /\ main # "schedule" /\ main' # "schedule"
          /\ main' \in {"schedule", "stop", "notify", "join", "returned"}
    BY <1>4 DEF StopPool, MainGoto, SetStopped, NotifyAll, poolVars, coVars
  <2>2. stopped' \in BOOLEAN
    BY <1>1, <1>4 DEF StopPool, SetStopped, NotifyAll, poolVars
  <2>3. /\ worker' \in [Workers -> Points]
        /\ \A v \in Workers : worker[v] \in {"running", "suspending"} =>
                                worker'[v] \in {"running", "suspending"}
    BY <1>1, <1>4 DEF StopPool, SetStopped, NotifyAll, poolVars, Asleep, Points
  <2>4. main' = "returned" => Joined'
    BY <1>4 DEF StopPool, MainGoto, poolVars, Joined
  <2>5. Ended' = Coroutines
    BY <1>1, <2>1 DEF Ended
  <2> QED
    BY <1>1, <2>1, <2>2, <2>3, <2>4, <2>5 DEF RestInv
<1> QED
  BY <1>2, <1>3, <1>4 DEF MainStep

(* The invariant holds when main begins. *)
LEMMA AppInvInit == Init => AppInv
<1> SUFFICES ASSUME Init PROVE AppInv
  OBVIOUS
<1>1. /\ tasks = <<>> /\ waiters = <<>> /\ parked = <<>> /\ getters = <<>>
      /\ stopped = FALSE /\ worker = [w \in Workers |-> "check"]
      /\ stack = [w \in Workers |-> <<>>] /\ holder = Nobody /\ main = "schedule"
      /\ producers = 0 /\ interrupted = FALSE /\ over = FALSE /\ filled = {}
      /\ op = [c \in Coroutines |-> IF c \in Producers THEN "loop" ELSE "get"]
      /\ item = [c \in Coroutines |-> <<c, 0>>]
      /\ status = [i \in Items |-> "new"]
  BY DEF Init, PoolInit, Lock!Init, Queue!Init
<1>2. ToSet(tasks) = {} /\ ToSet(waiters) = {} /\ ToSet(parked) = {} /\ ToSet(getters) = {}
        /\ OnWorkers = {}
  BY <1>1 DEF ToSet, OnWorkers, StackElements
<1>3. Once
  BY <1>1 DEF Once, IsInjective, OnceOnStacks
<1>4. PlaceInv
  BY <1>1, <1>2, <1>3 DEF PlaceInv, PlaceTypes, Apart, Everywhere, Live, Scheduled
<1>5. OpTypes
  BY <1>1, NumbersFacts DEF OpTypes, LockingOps
<1>6. TaskInv
  BY <1>1, AppAssumption DEF TaskInv
<1>7. PlacedInv
  BY <1>2, <1>4, <1>5, <1>6 DEF PlacedInv
<1>8. ItemInv
  <2>1. ASSUME NEW c \in Producers PROVE Produced(c, 0)
    BY <1>1, NumbersFacts, AppAssumption DEF Produced, Working
  <2> QED
    BY <1>1, <2>1, NumbersFacts, AppAssumption DEF ItemInv
<1>9. ValueTypes
  <2>1. \A c \in Coroutines : <<c, 0>> \in Producers \X (0..NItems) \cup Consumers \X {0}
    BY AppAssumption DEF Coroutines
  <2> QED
    BY <1>1, <2>1 DEF ValueTypes
<1>10. CountInv /\ OverInv
  <2>1. \A c \in Producers : op[c] = "loop"
    BY <1>1, NumbersFacts
  <2>2. \A c \in Consumers : op[c] = "get"
    BY <1>1, NumbersFacts
  <2>3. ~(Len(tasks) > NConsumers)
    BY <1>1, AppAssumption
  <2>4. CountInv
    BY <1>1, <2>1, <2>3 DEF CountInv
  <2> QED
    BY <1>1, <2>2, <2>4 DEF OverInv
<1>11. RestInv
  BY <1>1, <1>2 DEF RestInv, Points
<1> QED
  BY <1>7, <1>8, <1>9, <1>10, <1>11 DEF AppInv, ValueInv

(* The invariant. *)
LEMMA AppInvariant == Spec => []AppInv
<1>1. AppInv /\ [Next]_vars => AppInv'
  <2> SUFFICES ASSUME AppInv, [Next]_vars PROVE AppInv'
    OBVIOUS
  <2>1. PlacedInv' /\ ValueInv'
    BY PlacedKept, ValuesKept DEF AppInv
  <2>2. RestInv'
    <3>1. CASE UNCHANGED vars
      BY <3>1 DEF vars, poolVars, coVars, AppInv, RestInv, Joined, Ended
    <3> QED
      BY <3>1, RunRests, LoopRests, MainRests DEF Next, WorkerStep, Done
  <2> QED
    BY <2>1, <2>2 DEF AppInv
<1> QED
  BY <1>1, AppInvInit, PTL DEF Spec

-----------------------------------------------------------------------------
(* what the run checks *)

(* The positions of an element in a sequence, of which there is one. *)
LEMMA CountIs ==
  ASSUME NEW S, NEW s \in Seq(S), IsInjective(s), NEW c
  PROVE  Count(s, c) = IF c \in ToSet(s) THEN 1 ELSE 0
<1> DEFINE at == {k \in DOMAIN s : s[k] = c}
<1>1. CASE c \in ToSet(s)
  <2>1. PICK k \in DOMAIN s : s[k] = c
    BY <1>1 DEF ToSet
  <2>2. at = {k}
    BY <2>1 DEF IsInjective
  <2> HIDE DEF at
  <2>3. Cardinality(at) = 1
    BY <2>2, FS_Singleton
  <2> USE DEF at
  <2> QED
    BY <1>1, <2>3 DEF Count
<1>2. CASE c \notin ToSet(s)
  <2>1. at = {}
    BY <1>2 DEF ToSet
  <2> HIDE DEF at
  <2>2. Cardinality(at) = 0
    BY <2>1, FS_EmptySet
  <2> USE DEF at
  <2> QED
    BY <1>2, <2>2 DEF Count
<1> QED
  BY <1>1, <1>2

(* ... and on the stacks of the workers. *)
LEMMA OnStacksIs ==
  ASSUME stack \in [Workers -> Seq(Coroutines)], OnceOnStacks(stack, Workers), NEW c
  PROVE  OnStacks(c) = IF c \in OnWorkers THEN 1 ELSE 0
<1> DEFINE at == UNION {{w} \X {k \in DOMAIN stack[w] : stack[w][k] = c} : w \in Workers}
<1>1. \A w, k : <<w, k>> \in at <=> w \in Workers /\ k \in DOMAIN stack[w] /\ stack[w][k] = c
  OBVIOUS
<1>2. \A x \in at : \E w, k : x = <<w, k>>
  OBVIOUS
<1>3. CASE c \in OnWorkers
  <2>1. PICK w \in Workers : c \in ToSet(stack[w])
    BY <1>3 DEF OnWorkers, StackElements
  <2>2. PICK k \in DOMAIN stack[w] : stack[w][k] = c
    BY <2>1 DEF ToSet
  <2> HIDE DEF at
  <2>3. <<w, k>> \in at
    BY <1>1, <2>2
  <2>4. ASSUME NEW x \in at PROVE x = <<w, k>>
    <3>1. PICK v, l : x = <<v, l>>
      BY <1>2
    <3>2. v \in Workers /\ l \in DOMAIN stack[v] /\ stack[v][l] = c
      BY <1>1, <3>1
    <3>3. v = w /\ l = k
      BY <2>2, <3>2 DEF OnceOnStacks
    <3> QED
      BY <3>1, <3>3
  <2>5. at = {<<w, k>>}
    BY <2>3, <2>4
  <2>6. Cardinality(at) = 1
    BY <2>5, FS_Singleton
  <2> USE DEF at
  <2> QED
    BY <1>3, <2>6 DEF OnStacks
<1>4. CASE c \notin OnWorkers
  <2>1. at = {}
    BY <1>4 DEF OnWorkers, StackElements, ToSet
  <2> HIDE DEF at
  <2>2. Cardinality(at) = 0
    BY <2>1, FS_EmptySet
  <2> USE DEF at
  <2> QED
    BY <1>4, <2>2 DEF OnStacks
<1> QED
  BY <1>3, <1>4

(* For any number of workers, producers, consumers and items the variables *)
(* of the application have their types (app.cpp, pool.hpp).                *)
THEOREM AppTypes == Spec => []TypeOK
<1>1. AppInv => TypeOK
  <2> SUFFICES ASSUME AppInv PROVE TypeOK
    OBVIOUS
  <2>1. producers \in 0..NProducers
    BY WorkingCount, AppAssumption DEF AppInv, ValueInv, CountInv
  <2> QED
    BY <2>1 DEF AppInv, PlacedInv, PlaceInv, PlaceTypes, OpTypes, ValueInv, ValueTypes, RestInv,
                TypeOK
<1> QED
  BY <1>1, AppInvariant, PTL

(* A coroutine that has been scheduled and is not through is in one place, *)
(* and there once; the one that holds the mutex is on a stack.  It is      *)
(* resumed once for each time that it is suspended (pool.cpp:9-26, 41-44). *)
THEOREM AppOnePlace == Spec => []OnePlace
<1>1. AppInv => OnePlace
  <2> SUFFICES ASSUME AppInv, NEW c \in Coroutines
               PROVE  /\ Count(waiters, c) + Count(parked, c) + Count(getters, c) + OnStacks(c)
                           = IF c \in ToSet(tasks) /\ op[c] # "gone" THEN 1 ELSE 0
                      /\ c = holder => OnStacks(c) = 1
    BY DEF OnePlace
  <2> USE DEF AppInv, PlacedInv, PlaceInv
  <2>1. Count(waiters, c) = IF c \in ToSet(waiters) THEN 1 ELSE 0
    BY CountIs DEF PlaceTypes, Once
  <2>2. Count(parked, c) = IF c \in ToSet(parked) THEN 1 ELSE 0
    BY CountIs DEF PlaceTypes, Once
  <2>3. Count(getters, c) = IF c \in ToSet(getters) THEN 1 ELSE 0
    BY CountIs DEF PlaceTypes, Once
  <2>4. OnStacks(c) = IF c \in OnWorkers THEN 1 ELSE 0
    BY OnStacksIs DEF PlaceTypes, Once
  <2>5. c \in Live <=> c \in ToSet(tasks) /\ op[c] # "gone"
    BY DEF Live, Scheduled
  <2>6. c = holder => c \in OnWorkers
    BY NumbersFacts
  <2> QED
    BY <2>1, <2>2, <2>3, <2>4, <2>5, <2>6 DEF Apart, Everywhere
<1> QED
  BY <1>1, AppInvariant, PTL

(* An interrupt finds all the items reserved and released. *)
LEMMA AllReleased == AppInv => NobodyRefused
<1> SUFFICES ASSUME AppInv, interrupted, NEW p \in Producers, NEW k \in 1..NItems
             PROVE  status[<<p, k>>] # "new" /\ <<p, k>> \in filled
  BY DEF NobodyRefused, Items
<1>1. Working = {}
  BY DEF AppInv, ValueInv, CountInv
<1>2. PICK n \in 0..NItems : Produced(p, n)
  BY DEF AppInv, ValueInv, ItemInv
<1>3. n = NItems /\ op[p] \notin {"loop", "reserve", "yield", "release"}
  BY <1>1, <1>2 DEF Produced, Working
<1>4. k < n \/ (k = n /\ n # 0)
  BY <1>3, AppAssumption
<1> QED
  BY <1>2, <1>3, <1>4 DEF Produced

(* When the forque is interrupted every producer has reserved and released *)
(* all of its items, so that none is refused: the counter that the         *)
(* producers bring to zero counts all of them before the first can run     *)
(* (app.cpp:52, 106-108, 148-152).                                         *)
THEOREM AppNobodyRefused == Spec => []NobodyRefused
BY AllReleased, AppInvariant, PTL

(* The pool is stopped when nothing waits in it, all have ended and every  *)
(* item is finalized; main returns when no worker is inside of a coroutine *)
(* (pool.cpp:63-75, app.cpp:163-165).                                      *)
THEOREM AppCleanExit == Spec => []CleanExit
<1>1. AppInv => CleanExit
  <2> SUFFICES ASSUME AppInv PROVE CleanExit
    OBVIOUS
  <2> USE DEF AppInv, RestInv
  <2>1. ASSUME stopped PROVE waiters = <<>>
    <3>1. SUFFICES ASSUME waiters # <<>> PROVE FALSE
      OBVIOUS
    <3>2. Head(waiters) \in ToSet(waiters) /\ Head(waiters) \in Coroutines
      BY <3>1, TailFacts DEF PlacedInv, PlaceInv, PlaceTypes
    <3> QED
      BY <2>1, <3>2 DEF Ended
  <2>2. ASSUME stopped, NEW i \in Items PROVE status[i] = "finalized"
    <3>1. 0 \in Consumers
      BY AppAssumption DEF Consumers
    <3>2. op[0] \in {"ended", "gone"}
      BY <2>2, <3>1, NumbersFacts DEF Ended
    <3>3. over /\ interrupted /\ status[i] \notin {"reserved", "served"}
      BY <3>1, <3>2 DEF ValueInv, OverInv
    <3>4. status[i] # "new"
      BY <3>3, AllReleased DEF NobodyRefused
    <3> QED
      BY <3>3, <3>4 DEF ValueInv, ValueTypes
  <2>3. ASSUME main = "returned", NEW w \in Workers
        PROVE  stack[w] = <<>> /\ worker[w] # "suspending"
    BY <2>3 DEF Joined
  <2> QED
    BY <2>1, <2>2, <2>3 DEF CleanExit
<1> QED
  BY <1>1, AppInvariant, PTL

-----------------------------------------------------------------------------
(* the pool wakes a worker for what waits in it *)

(* of the types only those of the queue and of the workers are needed *)
PoolTypes ==
  /\ waiters \in Seq(Coroutines)
  /\ worker \in [Workers -> Points]

PoolInv == PoolTypes /\ NoSleeper

(* A coroutine that comes into an empty queue wakes a worker, unless all   *)
(* of them are awake; into another queue it comes behind one for which a   *)
(* worker is awake already (run_queue::enqueue).  The worker that has put  *)
(* it there may move, but does not fall asleep.                            *)
LEMMA EnqueueWakes ==
  ASSUME PoolInv, NEW c \in Coroutines, NEW at \in [Workers -> Points],
         \A w \in Workers : at[w] = "asleep" => worker[w] = "asleep",
         Enqueue(c, at), UNCHANGED stopped
  PROVE  PoolInv'
<1>1. waiters' \in Seq(Coroutines) /\ (waiters # <<>> => Len(waiters') # 1)
  BY DEF PoolInv, PoolTypes, Enqueue
<1>2. CASE Len(waiters') # 1
  <2>1. waiters # <<>> /\ worker' = at
    BY <1>2 DEF PoolInv, PoolTypes, Enqueue
  <2> QED
    BY <1>1, <2>1 DEF PoolInv, PoolTypes, NoSleeper
<1>3. CASE Len(waiters') = 1
  <2>1. NotifyOne(at)
    BY <1>3 DEF Enqueue
  <2>2. CASE Asleep = {}
    BY <1>1, <2>1, <2>2, WorkersAssumption
    DEF PoolInv, PoolTypes, NotifyOne, NoSleeper, Asleep
  <2>3. CASE Asleep # {}
    <3>1. PICK w \in Workers : worker' = [at EXCEPT ![w] = "enter"]
      BY <2>1, <2>3 DEF NotifyOne, Asleep
    <3> QED  BY <1>1, <3>1 DEF PoolInv, PoolTypes, NoSleeper, Points
  <2> QED  BY <2>2, <2>3
<1> QED  BY <1>2, <1>3

(* A worker goes to sleep only with the queue empty (run_next).            *)
LEMMA LoopKeeps ==
  ASSUME PoolInv, NEW w \in Workers, WorkerLoop(w) \/ SpuriousWakeup(w)
  PROVE  PoolInv'
<1>1. CASE CheckStopped(w)
  BY <1>1 DEF PoolInv, PoolTypes, NoSleeper, CheckStopped, Goto, Moved, Points
<1>2. CASE Sleep(w)
  BY <1>2 DEF PoolInv, PoolTypes, NoSleeper, Sleep, Goto, Moved, Points
<1>3. CASE SpuriousWakeup(w)
  BY <1>3 DEF PoolInv, PoolTypes, NoSleeper, SpuriousWakeup, Goto, Moved, Points
<1>4. CASE SeeStopped(w)
  BY <1>4 DEF PoolInv, PoolTypes, NoSleeper, SeeStopped, Goto, Moved, Points
<1>5. CASE TakeNext(w)
  <2>1. waiters' \in Seq(Coroutines)
    BY <1>5 DEF PoolInv, PoolTypes, TakeNext
  <2> QED
    BY <1>5, <2>1 DEF PoolInv, PoolTypes, NoSleeper, TakeNext, Goto, Moved, Points
<1>6. CASE SuspendReturns(w) \/ Resumed(w)
  BY <1>6 DEF PoolInv, PoolTypes, NoSleeper, SuspendReturns, Resumed, Goto, Moved, Points
<1> QED  BY <1>1, <1>2, <1>3, <1>4, <1>5, <1>6 DEF WorkerLoop

(* What a coroutine does besides pool::yield leaves the queue and the      *)
(* workers alone.                                                          *)
LEMMA RunKeeps ==
  ASSUME PoolInv, NEW w \in Workers, NEW c \in Coroutines, Run(w, c)
  PROVE  PoolInv'
<1>1. CASE Yield(w, c)
  <2>1. /\ Moved(w, "suspending") \in [Workers -> Points]
        /\ \A v \in Workers : Moved(w, "suspending")[v] = "asleep" => worker[v] = "asleep"
    BY DEF PoolInv, PoolTypes, Moved, Points
  <2> QED
    BY <1>1, <2>1, EnqueueWakes DEF Yield
<1>2. CASE ~Yield(w, c)
  <2>1. UNCHANGED <<waiters, stopped, worker>>
    BY <1>2 DEF Run, Call, Reserve, Release, Finalize, Interrupt, Deliver, Leave,
                NextItem, LastItem, Get, End, poolVars
  <2> QED  BY <2>1 DEF PoolInv, PoolTypes, NoSleeper
<1> QED  BY <1>1, <1>2

(* Main schedules like yield, and sets the flag before it wakes the rest.  *)
LEMMA MainKeeps ==
  ASSUME PoolInv, MainStep
  PROVE  PoolInv'
<1>1. CASE AddConsumer
  BY <1>1, EnqueueWakes DEF AddConsumer, Schedule, Coroutines, PoolInv, PoolTypes
<1>2. CASE AddProducer
  BY <1>2, EnqueueWakes DEF AddProducer, Schedule, Coroutines, PoolInv, PoolTypes
<1>3. CASE Wait
  BY <1>3 DEF Wait, poolVars, PoolInv, PoolTypes, NoSleeper
<1>4. CASE StopPool
  <2>1. CASE SetStopped
    BY <2>1 DEF SetStopped, PoolInv, PoolTypes, NoSleeper
  <2>2. CASE NotifyAll
    BY <2>2, WorkersAssumption
    DEF NotifyAll, PoolInv, PoolTypes, NoSleeper, Asleep, Points
  <2>3. CASE UNCHANGED poolVars
    BY <2>3 DEF poolVars, PoolInv, PoolTypes, NoSleeper
  <2> QED  BY <1>4, <2>1, <2>2, <2>3 DEF StopPool
<1> QED  BY <1>1, <1>2, <1>3, <1>4 DEF MainStep

(* For any pool that has a worker: no coroutine waits to be resumed with   *)
(* all the workers asleep (pool.cpp:9-30).                                 *)
THEOREM NobodySleepsOn == Spec => []NoSleeper
<1>1. Init => PoolInv
  BY DEF Init, PoolInit, PoolInv, PoolTypes, NoSleeper, Points
<1>2. PoolInv /\ [Next]_vars => PoolInv'
  <2> SUFFICES ASSUME PoolInv, [Next]_vars
               PROVE  PoolInv'
    OBVIOUS
  <2>1. CASE \E w \in Workers : Loop(w) \/ Spurious(w)
    BY <2>1, LoopKeeps DEF Loop, Spurious
  <2>2. CASE \E w \in Workers, c \in Coroutines : Run(w, c)
    BY <2>2, RunKeeps
  <2>3. CASE MainStep
    BY <2>3, MainKeeps
  <2>4. CASE UNCHANGED vars
    BY <2>4 DEF vars, poolVars, PoolInv, PoolTypes, NoSleeper
  <2> QED  BY <2>1, <2>2, <2>3, <2>4 DEF Next, WorkerStep, Done
<1>3. PoolInv => NoSleeper
  BY DEF PoolInv
<1> QED  BY <1>1, <1>2, <1>3, PTL DEF Spec
=============================================================================
