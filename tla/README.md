# Forque in TLA+

A model of the [forque library](../src/README.md): modules that describe the
coroutine mutex, the run queue, the tree of chains, the way a tag finds its
place in it, tasks, and the sample application on its thread pool; TLC
configurations that check them on small instances, and proofs of the properties
that can be carried over to every instance.

Paths like `forque.hpp:415` are lines of `src/inc/forque.hpp` of the
repository; `mutex.cpp` is in `src/`, `pool.*` and `app.cpp` are in `sample/`,
`README.md` is the repository's.

## 1. The system

A *forque* schedules items for processing by hierarchical tags: two items are
related if the tag of one is a prefix of the other's, and related items are
processed one at a time, in the order of their reservations.

| Component | State | Operations | Talks to |
| --- | --- | --- | --- |
| `mutex` (`mutex.hpp`, `mutex.cpp`) | `state_`: free, taken, or the top of a stack of waiting coroutines; `waiters_`: those already taken over; `next_` in each entry | `lock`, `try_lock`, `unlock`, `mutex_guard` | resumes the next coroutine on the releaser's stack |
| `forque`, `chain` (`forque.hpp`) | tree of chains; per chain a mutex, a list of segments (items, children, version, active), the interrupted flag of the root | `reserve`, `release`, `get`, `finalize`, `interrupt`; inside: `activate_*`, `next_segment`, `clean_parent`, `remove_child` | calls the run queue; client coroutines |
| `runque`, coroutine model (`runque.hpp`) | items (fifo, lifo or priority), list of suspended getters, interrupted flag, a mutex | `get`, `put`, `interrupt` | resumes getters on the caller's stack |
| `runque`, single-thread model | items, interrupted flag | `get`, `put`, `interrupt` | nobody |
| tags and views (`tag.hpp`) | immutable values, a level per view | `key`, `sub`, `next`, `last`, `tag_traits` | `chain::reserve` |
| `task` (`task.hpp`) | result, continuation, `done_` | awaiting, completion, destruction | the awaiting coroutine |
| `sync_wait` (`sync_wait.hpp`) | result, a `std::promise` | `execute`, `wait` | a blocked thread |
| sample pool (`sample/pool.*`) | queue of coroutines, condition variable, workers, `stopped_` | `schedule`, `yield`, `wait`, `stop` | workers |
| sample application (`sample/app.cpp`) | producers left | `produce`, `consume`, `main` | forque and pool |
| `tag_stream.hpp`, `utility.hpp`, build files, tests | none | | |

What is hard about it:

* **Lock-free hand-over.** Pushes race a release that empties, exchanges and
  reverses the stack; entries are reused (ABA); nothing may be lost, run twice,
  or overtake.
* **A tree locked by hand.** A reservation couples locks downwards; an
  activation holds a whole path and goes down; `finalize` and `remove_child`
  take a parent and then a child; every one of them can be between two locks
  while the others run.
* **State read under a lock and used after it.** `clean_parent` reads a
  version, drops its locks, and calls the parent with it; the parent itself is
  held by nothing.
* **Two ways to offer an item**: the `release` of a reservation, and the
  activation of its segment. Exactly one of them must.
* **Suspended getters.** They are unlinked under the mutex and resumed outside
  of it, by a put or by an interrupt.
* **Ending.** `interrupt` stops the consumers either at once or leaves it to
  the last `finalize`. In the sample the last producer interrupts, `main` waits
  for every coroutine and then stops the pool, which drops what is queued.
* **Waking.** The pool notifies one worker, and only when its queue becomes
  non-empty; a coroutine that yields can be resumed by another worker before
  its own worker is back from `await_suspend`.

What makes each component correct:

* mutex: one holder, every suspended coroutine linked exactly once, first come
  first served, nobody forgotten;
* forque: related items offered one at a time in order, each once, none
  forgotten; activation consistent along the tree; empty chains go away, chains
  in use do not; every item and every interrupt gets through;
* run queue: no getter asleep beside an item or past an interrupt, one resumer
  for each, no item lost;
* tags: a view stays within its tag, a chain is found again under its own tag,
  related tags meet in related chains, unrelated ones do not;
* task, sync_wait: one resumption per await, no frame used after its
  destruction, no continuation and no exception lost;
* pool and application: no coroutine left in the queue while all the workers
  sleep, each in one place at a time, nobody refused by the interrupt, nothing
  dropped by `stop`, `main` returns.

The hazards, at their lines and with the properties that watch them, are in
`PROJECT.json`.

## 2. Modules

| Module | What it is |
| --- | --- |
| `FairLock` | what the mutex promises: a holder and a fifo queue |
| `Mutex` | `mximpl` step by step, one action per access to `state_`; `MutexProofs` proves exclusion and that it is a `FairLock` |
| `RelatedQueue` | what a forque promises its clients; `MCRelatedQueue` is an instance of it, `PromiseProofs` proves what follows from it |
| `Forque` | the tree of chains; `MCForque` gives it items and tags; `ForqueProofs` proves its inductive invariant and what follows at once, `PromiseProofs` the other invariants, what can destroy a chain in use, and that it is a `RelatedQueue` and uses an `OfferQueue` |
| `Placement` | the views and compile-time choices by which a tag comes to its chain; `PlacementProofs` proves that views stay within their tags and that related tags meet |
| `OfferQueue` | what a run queue is to the chains and the consumers |
| `Task` | tasks awaiting each other on several threads, under `sync_wait`; `MCTask` gives it a tree of four, `TaskProofs` proves its invariants for every tree |
| `Runque` | the run queue with its suspended getters, and without them (single-thread model); `RunqueProofs` proves who resumes them and that it is an `OfferQueue` |
| `Pool` | the sample's thread pool: its queue, workers and `stop`; actions for `App` to use |
| `App` | the sample: producers, consumers and `main` on `Pool`, over the forque of `RelatedQueue` and the mutex of `FairLock`; `MCApp` gives it tags, `AppProofs` proves its invariants and the pool's |
| `SequenceLemmas` | what the proofs need about sequences, queues and stacks |

How they fit together:

    RelatedQueue  <--implemented by--  Forque  --locks as in-->  FairLock  <--implemented by--  Mutex
                                         |  \
                                         |   tags placed as in Placement
                                         ready, stopped as in
                                         OfferQueue  <--implemented by--  Runque
                                         (`UsesOfferQueue`)

    App  --extends-->   Pool
         --instances--> RelatedQueue (its forque), FairLock (its mutex)

    Task: what awaiting, suspending and resuming are in all of them

Definitions whose comment begins with "faulty variant" are not part of the
specifications: each is a plausible mistake in the definition that follows it,
kept to show that a property notices it.

### Mutex

`state`, `waiters` and `next` are the variables of `mximpl` and of the entries;
`expected`, `head` and `cur` the local variables of `lock` and `release`; `pc`
says where each coroutine is. `CasSucceeds`/`CasFails` are the two outcomes of
the compare-and-swap of `lock`; `Release`, `ReleaseCas`, `Exchange`,
`ReverseOne` and `Resume` the steps of `release`. A compare-and-swap compares
the word, not what it leads to, so the ABA case (an entry popped, resumed and
pushed again between the load and the swap) is in the model. An entry belongs
to the awaitable its coroutine is suspended on, so it is named by the
coroutine. A spurious failure of the weak compare-and-swap only repeats the
loop with the same values and is a stuttering step. A `try_lock` that fails
changes nothing and has no step. The holder can keep the mutex for as long as
it likes.

### Forque

`chain` is a sequence of all chains ever created; a child is an index, so a
chain created again under the same key is a different chain, as it is in
memory. Index 1 is `root_`; `Meta` stands for `meta_`, of which only the mutex
is used. A segment is a record of `siblings_`, `children_`, `version_` and
`active_`. An erased chain has no segments. `tag` of an item is the *placed*
tag: the keys under which its chain is found (see `Placement`).

Every item has two coroutines: one reserves it (with a value, or releasing it
later), one gets and finalizes it. `frames` is the stack of the mutexes a
coroutine holds, each with the children it still has to activate; `call` the
arguments of the `remove_child` it is in.

| Code | Actions |
| --- | --- |
| `forque::reserve`, `chain::reserve`, `reserve_child`, `add_sibling` | `Reserve`, `Reject`, `Descend` (one per lock), ending in `AddSibling` |
| `reservation::release` | `Populate` |
| `forque::get` | `Get` |
| `retainment::finalize` | `Finalize` (lock of the parent), `PopItem` (lock of the chain, to the next lock) |
| `activate_children`, `activate_segment` | `Activate`, once per child locked or level left |
| `clean_parent`, `remove_child`, `next_segment` | `RemoveChild` (lock of the grandparent), `FindChild` (lock of the parent), `EraseChild` (lock of the child) |
| `forque::interrupt` | `Interrupt` |

**Why one step reaches from one lock to the next.** All that the code between
two `co_await lock()` reads and writes belongs to chains whose mutex it holds,
or is a call of the run queue. Acquisitions commute to the right of other
coroutines' steps, releases to the left; of the run-queue calls there is at
most one in such a stretch, and `Runque` shows that it takes effect at a
single point. So each stretch can be taken as one step (Lipton's reduction).
The order in which waiters get a mutex is left open, which allows more than
`FairLock` does. A getter resumed by a `put` on the putting coroutine's stack
is a `Get` that comes right after; the model also allows it to come later.

**Destroyed chains.** Erasing a chain destroys its subtree. A coroutine whose
next step would use a destroyed chain, or a handle to an item of one, takes no
further step (`Sound`), as nothing can be said of what the code does then.
`Intact` says that no such thing has happened. It can happen (findings 1 and
2), and every property that a destruction would spoil is stated up to that
point: `Intact => ...`. `DestroysOnlyOnReuse` closes the gap from the other
side: the step that ends `Intact` is always an `erase` whose version has been
used twice, or whose child is still the target of another removal. Everything
else the tree does keeps what it needs.

### Placement

Several reservations go down from the root. `kind` chooses static or dynamic
tags for all of them, as the tag type of a forque does. `Reserve` is the chain
of `if constexpr` of `chain::reserve`; `IsRoot`, `IsLast`, `Key`, `Sub` and
`NextLevel` are the traits and the views' members. A chain is named by the keys
looked up on the way, and `chainTag` is the tag it was created with, under
which `remove_child` looks it up later. A dynamic tag may be empty: its
`size() - 1` wraps around (`Word`), the view takes no level for the last, and
the descent reads a value that is not there (`ReadPastEnd`, and `progress` is
"astray").

### Runque

`get`, `put` and `interrupt` are one step each for their critical section, and
one more for each getter they resume outside of it. `interrupt` reads the next
waiter before it resumes one (`ResumeException`), so the rest of its list is
known although the awaitable is gone by then. `kind` is drawn at the
start among the three queues and the two thread models; in the single-thread
model `get` returns nothing where it would suspend (`GetNothing`). Getters call
`get` again after an item, and stop after an exception, as the consumers of the
sample do.

### Task

A thread is its native stack: the sequence of coroutines resumed on it. `at`
says where each of them is, `child` which task it awaits. `Await` resumes the
child on top of the parent, inside `await_suspend`; when that call has
returned, because the child was suspended or is through, `Link` and `Swap` are
the two halves of `set_continuation`; `Finish` and `Wake` those of
`final_awaiter`. A parent resumed by `Wake` runs on top of the child that has
ended, whose frame it destroys (`Collect`) before that call returns (`Unwind`).
`Park` and `Unpark` stand for everything else a coroutine is suspended on: it
is resumed by an idle worker or from the code of another coroutine, as a mutex
or a run queue does. `Complete` and `SyncWait` are the two sides of
`sync_wait`; `std::promise::set_value` is one step. A coroutine ends with a
value or an exception; `Collect` rethrows the exception in the awaiting code,
which catches it (`caught`) or ends with it, and `sync_wait` throws what
reaches it. A task may also be started and left alone (`Start`), until its owner,
having seen it end, destroys it (`Drop`). Once it has ended it may be awaited
too (`AwaitEnded`): `await_ready` is true then, nothing is resumed, and the
awaiting coroutine goes on with the value or the exception at once, as in the
second `sync_wait` of `wait_completed` (test/sync_wait_tests.cpp:73-84). The
outer coroutine (`make_sync_wait`) awaits one task and catches nothing.

`NoDangling` says of each activation, and of what resumes a parked coroutine,
that no frame it will use is destroyed. A `resumed` one is through: it is the
call of `resume()` in `Wake`, which returns through a frame that its parent has
destroyed and touches nothing of it (task.hpp:88-90).

### Pool and App

`waiters`, `stopped` and `tasks` are the members of `run_queue` and `pool`;
`worker` says where each thread is in its loop, and `stack`, as in `Task`, which
coroutines are resumed on it. A worker takes `lock_` for the length of one
action: checking the predicate and going to sleep are one step, as a condition
variable makes them, and `stop` is two, the flag and the notification. A wait
may return without a notification. A coroutine that yields is in the queue
before its worker is back from `await_suspend` ("suspending", until
`SuspendReturns`): meanwhile another worker may run it, to its end even.

| Code | Actions |
| --- | --- |
| `run_queue::enqueue` | `Enqueue`, in `Schedule` and `Yield` |
| worker loop, `run_next` | `CheckStopped`, `Sleep`, `SpuriousWakeup`, `SeeStopped`, `TakeNext`, `Resumed` |
| `yield_awaitable::await_suspend` | `Yield`, `SuspendReturns` |
| `pool::wait`, `stop` | `Wait`, `SetStopped`, `NotifyAll`, `Joined` (in `StopPool`) |
| `produce` | `NextItem`, `Reserve`, `Yield`, `Release`, `LastItem`, `Interrupt`, `End` |
| `consume` | `Get`, `Yield`, `Finalize`, `End` |
| `main` | `AddConsumer`, `AddProducer`, `Wait`, `StopPool` |

A coroutine of `App` is a task with the `sync_waited` around it. Every operation
that locks asks for the one mutex (`Call`) and is suspended if it is taken; it
then does its work (`Reserve`, `Release`, `Finalize`, `Interrupt`), resumes
the getters that get an item or are interrupted (`Deliver`) on its own stack,
with the mutex held, and unlocks (`Leave`), which resumes the next holder on
the same stack. One mutex stands for all those of the tree, and the forque does
what `RelatedQueue` says: `Forque` and `Mutex` are checked against both
separately. That composition is exact as far as `Intact` holds; what a
destroyed chain would do to the sample is not in `App`. `end`, `ended` and
`gone` tell a coroutine that has set its promise from one that has also left
the worker's stack. `App`'s exceptions are the run queue's `interrupted`.

### Abstract specifications

`FairLock`, `RelatedQueue` and `OfferQueue` are stated for their users;
`ImplementsFairLock`, `ImplementsRelatedQueue` and `ImplementsOfferQueue` are
checked as refinements. The waiters of the mutex are reconstructed from the
linked lists (`Queue` in `Mutex`), also while a release is reversing them. The
status of an item follows from where its two coroutines are (`Status`).
`OfferQueue` is checked from both sides: `Runque` is one (`ImplementsOfferQueue`),
and what `Forque` does with its own is what one allows (`UsesOfferQueue`). A put
of an item that has been taken is no step of it, nor is one that comes together
with the stop; a put of an item that is there is ruled out by `OfferedOnce`.
A put into a stopped queue throws and changes nothing (runque.hpp:358); that
`finalize` never meets that is `ImplementsRelatedQueue`, which has the queue
stopped with nothing pending only.

## 3. Runs

| Run | Configuration | Bounds | Distinct states |
| --- | --- | --- | --- |
| `mutex` | `Mutex.cfg` | 4 coroutines, each locking any number of times | 77 thousand |
| `forque_tree` | `MCForque.cfg` | 4 items, tags `a` and `a/a`, symmetric items | 164 thousand |
| `forque_promise` | `MCForquePromise.cfg` | 3 items, tags none, `a`, `b`, `a/b`, `a/b/a`, symmetric items | 183 thousand |
| `forque_liveness` | `MCForqueLive.cfg` | 3 items, tags `a` and `a/a`, with fairness | 66 thousand |
| `forque_related_serial` | `MCForqueSerial.cfg` | 4 items of one tag (finding 1) | up to the violation |
| `forque_removal_target` | `MCForqueRemoval.cfg` | 3 items, tags `a` and `a/a` (finding 2) | up to the violation |
| `related_queue` | `MCRelatedQueue.cfg` | 3 items, 4 tags | 24 thousand |
| `placement` | `Placement.cfg` | 2 reservations, 2 keys, up to 3 values, `Word` 256 | 7 thousand |
| `placement_dynamic` | `PlacementDynamic.cfg` | the same (finding 3) | up to the violation |
| `runque` | `Runque.cfg` | 3 getters, 3 items, 3 orders, 2 thread models | 12 thousand |
| `task` | `MCTask.cfg` | `sync_wait` around a task that awaits two others, one task only started, 3 threads, each suspended at most once | 467 thousand |
| `sample_app` | `MCApp.cfg` | 2 workers, 2 consumers, 2 producers of 1 item each, 2 unrelated tags, with fairness | 117 thousand |

Why the bounds are enough for the cases that matter:

* *mutex*: a holder, a waiter in `waiters_`, one in the stack and one about to
  push are four coroutines; the ABA case needs three.
* *forque, four items and two nested tags*: with `a`, `a/a`, `a` a chain gets a
  second segment; the fourth item re-creates an erased chain while an old
  removal is pending. Three items cannot show a removal that hits a live item
  of a re-created chain and a further reservation next to it.
* *forque, three items and the deeper tags*: an activation that goes down two
  levels, two subtrees activated one after the other, a removal that climbs
  from `a/b/a` to the root, and items in the root itself (a dynamic tag of one
  value).
* *task*: a parent that awaits twice and is itself awaited, and a thread each
  for the waiter, a child that ends and a parent that links itself.
* *sample_app*: one worker asleep while the other enqueues, both asleep, and one
  between the predicate and its sleep when `stop` comes; two producers, so that
  one can end before the other has begun; two items under one tag, of which the
  second waits, and under two tags, which are processed at once; two consumers
  suspended when the interrupt comes. `NItems` and the number of coroutines are
  the code's 100 and 4 + 4 cut down. Three workers (2 million states) and three
  consumers (271 thousand) showed nothing else.
* *placement*: empty dynamic tags, tags of one value, and tags that share none,
  one or two of their first keys. `Word` only has to exceed the sizes, as 2^32
  does.
* *runque*: two getters suspended and one about to, two puts delivering at the
  same time as an interrupt.

Every item is reserved once, so the counters `version_` stay below the number
of items times the depth; they are 64 bits wide in the code and their wrap is
not modelled. Deadlock is checked in all runs of the system: `Done` is enabled
only where everything has returned, or a chain in use was destroyed.

What the properties say (each is commented at its definition):

* `Mutex`: `MutualExclusion`; `WaitersLinked` (linked exactly once, nothing
  stale); `ImplementsFairLock`; `WaiterServed`.
* `Forque`: `RelatedOrder`, `SerialWhileIntact`, `OfferedOnce`, `NothingForgotten`,
  `InterruptHeard`, `NoLeak`, `ActiveShape`, the action property
  `DestroysOnlyOnReuse`, the refinements `ImplementsRelatedQueue` and
  `UsesOfferQueue`, and the liveness properties `Served` and `InterruptCompletes`.
* `RelatedQueue`: `Serial` (`InOrder` and `NothingLeft`, close to its guards, are
  only proved).
* `Placement`: `KeysWithin`, `FoundAgain`, `RelatedMeet`, `StaticExact`.
* `Runque`: `NoIdleGetter`, `ResumedOnce`, `UnlinkedResumed`,
  `ImplementsOfferQueue`.
* `Task`: `OneRunner`, `NoDangling`, `SuspendedLinked`, `ErrorHeard`,
  `Completes`.
* `Pool`, `App`: `NoSleeper`, `OnePlace`, `NobodyRefused`, `CleanExit`,
  `Returns`.

### Fairness

Only steps that the code takes without being asked are fair, and weakly:

* `Mutex`: a thread inside `lock` or `release` runs on; a holder releases in
  the end, as every lock of the library sits under a `mutex_guard`. Nobody has
  to call `lock`.
* `Forque`: a coroutine inside `reserve` or `finalize` goes on when the mutex it
  waits for is free (weak fairness is enough here since a finite number of
  items ends all contention; `WaiterServed` is the general argument). A client
  that has reserved releases, one that has got an item finalizes, and consumers
  ask for items that are available: that is the client's side of the contract
  in README.md:20-38. Nobody has to reserve or interrupt.
* `Runque`: a `put` or `interrupt` that has unlinked a getter resumes it.
* `Task`: threads run on, whatever a coroutine is suspended on resumes it, and
  the owner of a started task destroys it in the end.
* `App`: `main` and each worker run on when they can (threads are scheduled);
  nothing relies on a spurious wake-up, and which sleeper `notify_one` wakes is
  the system's choice. That the mutex is handed over in order is in its model.

## 4. Findings

1. **A stale version destroys a chain in use** (`forque_related_serial`). Item
   1 of tag `a` is finalized; chain `a` is empty, its version 1 is read, the
   mutexes are dropped. Item 2 comes into the same chain (version 2), is
   finalized, and its removal erases the chain. Item 3 is reserved: a new chain
   `a`, version 1, active, and the item is offered. Now the removal of item 1
   compares 1 with 1 and erases the new chain. Item 4 is reserved into yet
   another chain `a` and offered: items 3 and 4, of the same tag, are processed
   at once, and finalizing item 3 uses a destroyed chain. README.md:3 excludes
   it.
2. **A removal is called on a destroyed parent** (`forque_removal_target`).
   Items 1 and 2 of tag `a/a`, one after the other, each leave the chain `a/a`
   empty and go on to `remove_child` on chain `a`. Item 2's call erases `a/a`,
   finds `a` empty and has the root erase it. Item 1's call still has to lock
   the mutex of `a`, which is gone.
3. **Dynamic tags are placed one level off** (`placement_dynamic`).
   `tag_traits` of a `dtag` is not `is_root`, so the root chain takes level 0
   for its own: the first value of a dynamic tag is never a key. Related tags
   stay related, so the order promised is kept, but unrelated items wait for
   each other. Tags of one value go into the root and hold up everything. The
   sample application uses dynamic tags.

Also seen, without a run: the constructor of `mxstate` from a pointer asserts
`& ~3` where `operator=` has `& 3` (mutex.hpp:27, 44); only the latter is used.

## 5. Proofs

Checked by TLAPS, for every value of the constants. Each inductive invariant was
first checked by TLC on the instance of the corresponding run.

**`MutexProofs`**

* `MutexTypes`, `MutexExclusion`: `Spec => []TypeOK`, `Spec => []MutualExclusion`.
  `MutualExclusion` is not inductive, since the release hands over to whatever
  `head` points to. The inductive invariant `MutexInv` adds `LoopPointers`:
  after the first swap of `release` has failed `state_` is an entry, in the loop
  `cur` is one, and at the hand-over `head` is one. The swap of `lock` makes an
  owner only from the free word, so there was no holder; only the holder takes
  the steps of `release` (`HolderTaken`), so there is still one at the end.
* `MutexWaiters`: `Spec => []WaitersLinked`. `ListInv` says that every list (from
  the word, from `waiters_`, and the two halves that a release in its loop has)
  is a sequence of entries, each linked to the one after it and the last to
  nothing (`ListsLinked`), that an entry about to be pushed is already linked to
  what its swap expects (`LocalsClear`), and that one list at a time is taken
  over (`OneList`). That following the links ends is shown by a least
  counterexample on the number of hops.
* `MutexIsFairLock`: `Spec => ImplementsFairLock`. The queue of `FairLock` is
  what was taken over followed by the stack reversed. A push appends to it
  (`PushQueue`), one turn of the loop moves an entry from the one part to the
  other without changing it, and a hand-over takes the head.

**`RunqueProofs`**

* `NobodyIdle`, `EachResumedOnce`. The inductive invariant adds that `rest`, the
  list interrupt runs through, is empty before the interrupt, so that at most
  one of the two lists is not empty; then both are one list without repetitions
  (`LinkedOnce`).
* `RunqueTypes`, `RunqueIsOfferQueue`: with what is known of the items (queued
  once, and neither queued nor taken before their put has got that far), every
  step is one of `OfferQueue`, or invisible to it.

**`PlacementProofs`**

* `ViewsStayWithin`, `ChainsFoundAgain`. `KeysWithin` is not inductive: a view
  inside its tag could still have passed the level it takes for the last.
  `WithinLast` says it has not; and that level is one of the tag's even if its
  size did not fit into `size_type` (`ModBounds`).
* `RelatedTagsMeet`, `StaticTagsExact`: the path of a reservation is at each
  level a slice of its values (`Descent`), which starts at the first for static
  tags and at the second for dynamic ones; prefixes of values have slices that
  are prefixes.

**`TaskProofs`**: `TaskTypes`, `TaskRunsOnce`, `TaskFramesLive`,
`TaskNobodyForgotten` and `TaskErrorsHeard`, for any tree of tasks and any
threads. None of the five is inductive. The invariant says, for each place
where a coroutine can be, what is known of the coroutine, of the child it
awaits and of the parent that awaits it: a child that is `starting` under its
parent, linked to it, or on its way to wake it (`AwaitInv`, `ChildInv`,
`EndInv`), one owner for each frame (`OwnInv`, `LiveInv`), and the way of an
exception (`ErrorHeard`). A step replaces the top of one stack, so it is enough
to say which activation goes and which one comes (`Replaced`, `Pushed`,
`Popped`, `Switched`).

**`AppProofs`**

* `AppOnePlace`: the queue of the pool, the mutex's, the getters' and the
  stacks have no repetitions and share no coroutine, and together they are
  those that are scheduled and not through. Each step takes a coroutine
  off one of them and puts it on another.
* `AppNobodyRefused`: the counter is the number of producers in their loop, once
  they are counted, and with an interrupt in sight there is none (`CountInv`);
  a producer has released all items below its current one, and the current one
  as well if it is back at the top of its loop (`Produced`).
* `AppCleanExit`: consumers end with nothing pending and after the interrupt
  only (`OverInv`), nobody who waits in the pool has ended, and a coroutine is
  on a worker's stack only while the worker runs or is inside of
  `await_suspend` (`RestInv`). `main` returns with all the workers through with
  their loops, so none is inside of a yield of a coroutine whose frame goes
  with the pool's tasks.
* `AppTypes`; `NobodySleepsOn`: with the types of `waiters` and `worker`,
  `NoSleeper` is inductive. The case that matters is an enqueue into a queue
  that is not empty: nobody is notified, but the invariant says that a worker
  is awake already, and an awake worker goes to sleep only with the queue empty.

**`ForqueProofs`** (the first three theorems below) and **`PromiseProofs`** (the
others): whatever the tags and the number of items, `release` and
activation never both offer an item (`ForqueOfferedOnce`), and the types are
kept (`ForqueTypes`). Up to the first destruction of a chain in use (`Intact`,
findings 1 and 2), an item is not offered before all related items reserved
ahead of it are finalized (`ForqueRelatedOrder`), and with nobody inside it has
been offered then (`ForqueNothingForgotten`); no chain is left behind empty
(`ForqueNoLeak`) or active out of turn (`ForqueActiveShape`); an interrupt
stops the run queue (`ForqueInterruptHeard`); and every step is one of
`RelatedQueue` or invisible to the clients (`ForqueIsRelatedQueue`). What it does
to its run queue is what an `OfferQueue` allows (`ForqueUsesOfferQueue`).
`ForqueDestroysOnlyOnReuse` says what that first destruction can be.
`ForqueSerial` puts it in the words of README.md:3 (`SerialWhileIntact`): as long as
`Intact`, two related items are never processed at once. Without `Intact` that is what the run
`forque_related_serial` violates (finding 1).

* None is inductive. That a reservation and an activation agree on who
  offers depends on which segment is active, on where the item is, and on what
  the coroutine in between still means to do. The proofs do not follow the
  nested records; they read the tree through three relations, `At` (item `i` is
  the `n`-th of segment `k` of chain `p`), `Kid` (chain `d` is a child of
  segment `k` of `p`) and `On` (segment `k` of `p` is active), and describe each
  way the code changes a tree by what it does to them: a version counted
  (`Touched`), a chain activated (`Marked`), an item popped (`Popped`) or added
  (`Sown`), a chain created (`Grown`), a child erased (`Cut`), and the segment
  with it (`Moved`).
* `Inv` has seven parts: `Types`, `IsTree` (each chain is a child in one place,
  each item is in one place, only a first segment is active, and only under an
  active one that has no items), `Tokens` (an item is ready or taken once, and
  only when it is populated), `Places` (an item is where its tag says; one that
  has been offered is the first of an active segment), `Apart` (a mutex has one
  holder), `Fits` (what a coroutine has read before it waited for a lock, that
  is its `frames`, still fits the tree) and `Order`.
* `Order` is what `RelatedOrder` follows from. It says of an item and one it has
  to wait for: at every chain that the ways of both through the tree come to, the
  one to wait for is in front, in an earlier segment, or in the same as an earlier
  sibling or as a sibling while the other is below a child. A reservation on its
  way down counts as being at the back of the chain it has come to, so that what
  has locked the root after it cannot overtake it. A new item comes last in a
  last segment (`OrderArrives`); everything else only takes items and segments
  from the front of chains (`Slid`), which leaves the order of the rest alone
  (`OrderKept`). Two related items, neither below an erased chain, have ways that
  meet at the shorter tag at the latest (`RelatedPrefixes`, `Parting`), and what
  has something in front of it there is not the first of an active segment: so it
  is not offered.
* A step keeps `Fits` for the coroutine that takes it by what it has just read,
  and for the others because it changes only chains whose mutex it holds:
  `Eased` says what a change leaves to them. A client at a chain that has been
  erased (findings 1 and 2) takes no step, so `Alive` (the chain and all those
  above it have their segments) is known where it is needed, and nothing is
  assumed of the rest: the first two theorems hold without `Intact`.
* What a step does is then told once more, in full and by the same relations:
  `PopsFrom`, `GoesDown`, `GoesUp`, `Removes`. `Whole` is `Intact` in these
  terms. Every step is `Gentle`: it destroys at most the chains it is told to,
  which are none except for a removal, and what a removal erases nobody refers
  to if it is not `Reused`: so `ForqueDestroysOnlyOnReuse`. What has been
  destroyed does not come back (`NoRegain`), so that an invariant that is
  claimed while `Whole` holds has to be shown only for steps from a state in
  which it held.
* `Watched`: a chain that has become empty has a reservation that heads for it
  or a finalization on its way to remove it. A removal that is refused because
  of the version has been overtaken by a reservation that will remove the chain
  in its turn. With nobody inside there is no one, so no chain is empty, and the
  youngest one below any chain has an item (`Deepest`, `Inhabited`).
* `Upheld`: a chain with segments is below chains with segments only. It is what
  `ActiveShape`, which looks at every chain, needs beyond `IsTree`, which speaks
  of those alive.
* `Silent`: the run queue is stopped if the interrupt has come and the root has
  neither items nor children, and not earlier. `interrupt`, the pop of the last
  item and the removal of the last child each look for it under the root's lock.
* The refinement maps a release, a get and a finalize to the steps of
  `RelatedQueue` of the same name, the rest to no step. A get takes an item in
  its turn because of `Order`, and the run queue is stopped in its turn because
  of `Silent` (`Rightly`).
* `ForqueNothingForgotten` takes three invariants more. `Called`: an item that
  is the first of an active segment has been offered, once it is populated,
  whether by its release or by the step that made it the first or the segment
  active. `Reached`: under an active segment without items the children are
  active, or some coroutine has them left in `todo`. `Lined`: of two related
  items that are pending one waits for the other. Of an item that waits for
  nobody, nothing related is in front (`FirstInLine`); so it is the first of the
  first segment of its chain (`FirstInChain`), and it is below the first
  segments, without items, of the chains above (`FirstOnTheWay`); from the
  root downwards these are active, as nobody has any left to activate
  (`WayActive`).
* `ForqueUsesOfferQueue` needs no destruction to be ruled out. Each step is
  described by the items it puts (`PutsOne`) or takes (`GetTakes`); that the one
  put was neither ready nor taken is what `Tokens` says of the state *after* the
  step.
* `QueueSerial`, `QueueInOrder`, `QueueNothingLeft`: any `RelatedQueue` gives its
  clients what they rely on. The invariant: of two related items that are both
  pending, one is in `before` of the other.

Assumptions: `Null` and the words `"free"`, `"taken"` are not coroutines, and
the coroutines of a mutex are finite in number (a list in memory is);
`NoGetter` is not a getter; items of the run queue are numbers (their
priority); a pool has at least one worker, and the sample at least one producer
and one consumer (else there is no interrupt, or nobody to finalize); the tags
of a forque are sequences of keys, and there is one at least; what
`Task` says of its tree; `MaxSize` and `Word` are numbers, `Word` not zero. TLC
evaluates them in the runs.

Only model-checked: all liveness (`WaiterServed`, `Served`,
`InterruptCompletes` and their like in the other modules), since liveness under
fairness and `ENABLED` are out of this prover's reach. So are the induction
theorems of the library; where a proof needs induction it takes a least
counterexample (`LeastNatural`). Every invariant and action property of the
passing runs is stated by a theorem (`Serial` of `RelatedQueue` in `QueueSerial`,
as `Queue!Serial`).

## 6. Not modelled

* Weak memory orders: the atomics are sequentially consistent. The push of
  `lock` has no release ordering (mutex.cpp:8-11).
* Exceptions of allocation, values of items, and the depth of the native stack
  when coroutines resume each other inside `release` and `put`.
* Tag conversions and hashing, tag output: no state, and covered by the tests.
* A task that is started with `start()` and awaited or destroyed before it is
  through with its last step on another thread (task.hpp:199, 219): a second
  `resume()` of it, or a frame destroyed under `final_awaiter`. Nothing in the
  repository does that; a started task is awaited after its end only
  (test/sync_wait_tests.cpp:73-84), which is `AwaitEnded`. Awaiting a task that
  has been moved from (`!handle_` in `await_ready`) is left out too.
* In `Task`, what `std::promise::set_value` still does with the promise after
  the waiting thread has woken and may destroy it (sync_wait.hpp:50): the
  standard library's part. In `App` it is a step of its own (`ended`, `gone`),
  and `CleanExit` says that the sample destroys no promise before it.
* What the sample prints, and its random tags and values.

## 7. Plan

Every component with state of its own is modelled, and every invariant and
action property is proved. What is left, in this order:

1. `Served` and `InterruptCompletes` rest on fair mutexes and on clients that go
   on; their safety part, that an activation always has somebody to carry it on,
   is `Reached` in `PromiseProofs`. The liveness itself stays with TLC.
2. Hazards that no property covers: an allocation that throws halfway through a
   reservation, and the weak memory order of the push of `lock`.
3. The value of an item and the capacity of the native stack, if a property of
   the code comes to depend on them.
