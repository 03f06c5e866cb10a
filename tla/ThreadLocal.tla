---------------------------- MODULE ThreadLocal ----------------------------
(***************************************************************************)
(* Thread local storage: ThreadLocal::InstanceImpl with its slots, the     *)
(* main thread, the workers, and the queues of posted callbacks of their   *)
(* dispatchers.                                                            *)
(*                                                                         *)
(* The main thread changes slots and posts to the workers; the workers run *)
(* their callbacks in between.  A callback of a slot holds a weak          *)
(* reference to it, so it may find the slot gone, or be the last one to    *)
(* hold it and destroy it on the worker.  An operation of the main thread  *)
(* is one step: what a worker does between two of its posts commutes with  *)
(* the second one, which goes to another queue.                            *)
(***************************************************************************)
EXTENDS Integers, Sequences, FiniteSets

CONSTANTS
  Concurrency,  \* number of workers
  Slots,        \* SlotImpl objects, one for each allocation
  Shared,       \* slots whose references are handed to workers too
  Confirmed,    \* slots whose updates have a completion callback
  None,
  MaxSets,      \* bound on set() per slot
  MaxUpdates,   \* bound on runOnAllThreads() over all slots
  MaxPending    \* bound on the queue of a worker the main thread adds to

Main == 0                    \* the main thread
Workers == 1..Concurrency    \* the workers, in the order they are created in
Threads == Workers \cup {Main}

\* Callbacks posted to a worker.  `slot' is the weak reference of a callback, or None; a
\* keep callback has a strong one.
SetCalls == [kind : {"set"}, slot : Slots, index : Nat, version : Nat]
UpdateCalls == [kind : {"update"}, slot : Slots, index : Nat, update : Nat, guarded : BOOLEAN]
ClearCalls == [kind : {"clear"}, slot : {None}, index : Nat]
KeepCalls == [kind : {"keep"}, slot : Slots]
WorkerCalls == SetCalls \cup UpdateCalls \cup ClearCalls \cup KeepCalls
\* Callbacks posted to the main thread
MainCalls == [kind : {"remove"}, index : Nat] \cup [kind : {"complete"}, update : Nat]
\* What a worker is in: a callback of a slot, or the destructor of a slot it let go of
Runs ==
  [call : SetCalls \cup UpdateCalls \cup [kind : {"drop"}, slot : Slots, index : Nat],
   locked : BOOLEAN, done : BOOLEAN]
\* The objects the initialize callbacks make, with the updates applied to them
Objects == [slot : Slots, version : Nat, updates : SUBSET Nat]

ASSUME ThreadLocalAssumption ==
  /\ IsFiniteSet(Slots) /\ Shared \cup Confirmed \subseteq Slots
  /\ None \notin Slots \cup Objects \cup Runs
  /\ {Concurrency, MaxSets, MaxUpdates, MaxPending} \subseteq Nat

VARIABLES
  slotAt,       \* slots_: the slot at each index, None once it is reset
  free,         \* free_slot_indexes_
  index,        \* index_ of a slot, 0 before its allocation (indexes start at 1 here)
  version,      \* initialize_cb_ of a slot: number of the last set(), 0 is nullptr
  registered,   \* registered_threads_
  shutdown,     \* shutdown_
  data,         \* thread_local_data_.data_ of every thread
  queue,        \* post_callbacks_ of every dispatcher
  running,      \* the callback a worker is in, or None
  owner,        \* slots referenced by their owner on the main thread
  kept,         \* slots referenced by objects of a worker
  stopped,      \* workers that left their dispatch loop, and Main at the end
  updates,      \* history: number of runOnAllThreads() so far
  joined,       \* history: the number of updates when a worker was registered
  awaited,      \* history: updates with a completion callback
  completed     \* history: updates whose completion callback ran

slotVars == <<slotAt, free, index, version>>
threadVars == <<registered, shutdown, stopped>>
historyVars == <<updates, joined, awaited, completed>>
vars == <<slotVars, threadVars, data, queue, running, owner, kept, historyVars>>

-----------------------------------------------------------------------------
(* Posted callbacks *)

SetCallback(s) == [kind |-> "set", slot |-> s, index |-> index[s], version |-> version'[s]]
UpdateCallback(s, u, guarded) ==
  [kind |-> "update", slot |-> s, index |-> index[s], update |-> u, guarded |-> guarded]
ClearCallback(i) == [kind |-> "clear", slot |-> None, index |-> i]
KeepCallback(s) == [kind |-> "keep", slot |-> s]
RemoveCallback(i) == [kind |-> "remove", index |-> i]
CompleteCallback(u) == [kind |-> "complete", update |-> u]

\* The SlotImpl has a strong reference, or a callback in progress locked its weak one.
Referenced(s, own, keep, run, q) ==
  \/ s \in own
  \/ \E w \in Workers : s \in keep[w]
  \/ \E w \in Workers : run[w] # None /\ run[w].call.slot = s /\ run[w].locked
  \/ \E w \in Workers : \E i \in DOMAIN q[w] : q[w][i].kind = "keep" /\ q[w][i].slot = s
Alive(s) == Referenced(s, owner, kept, running, queue)

\* The update of a callback is still with some worker: cb_guard has a reference left.
Guarded(u, run, q) ==
  LET is(c) == c.kind = "update" /\ c.guarded /\ c.update = u
  IN \E w \in Workers : \/ run[w] # None /\ is(run[w].call)
                        \/ \E i \in DOMAIN q[w] : is(q[w][i])

\* The bound MaxPending
Room == \A w \in registered : Len(queue[w]) < MaxPending

PostToAll(q, c) == [t \in Threads |-> IF t \in registered THEN Append(q[t], c) ELSE q[t]]

-----------------------------------------------------------------------------
(* Data of one thread *)

\* The object made by the initialize callback
Object(s, v) == [slot |-> s, version |-> v, updates |-> {}]

\* Mutant: the vector grows by one element too many.
SetThreadLocalGrowingMore(d, i, object) ==
  [j \in 1..(IF Len(d) <= i THEN i + 1 ELSE Len(d)) |->
     IF j = i THEN object ELSE IF j <= Len(d) THEN d[j] ELSE None]

\* InstanceImpl::setThreadLocal
SetThreadLocal(d, i, object) ==
  [j \in 1..(IF Len(d) < i THEN i ELSE Len(d)) |->
     IF j = i THEN object ELSE IF j <= Len(d) THEN d[j] ELSE None]

\* What a callback does to the data of the thread that runs it
Apply(d, c) ==
  CASE c.kind = "set" -> SetThreadLocal(d, c.index, Object(c.slot, c.version))
    [] c.kind = "update" /\ c.index <= Len(d) /\ d[c.index] # None ->
         [d EXCEPT ![c.index].updates = @ \cup {c.update}]
    [] c.kind = "clear" /\ c.index <= Len(d) -> [d EXCEPT ![c.index] = None]
    [] OTHER -> d

-----------------------------------------------------------------------------
(* The main thread *)

\* InstanceImpl::allocateSlot
AllocateSlot(s) ==
  /\ ~shutdown
  /\ index[s] = 0
  /\ owner' = owner \cup {s}
  /\ IF free = <<>>
     THEN /\ slotAt' = Append(slotAt, s)
          /\ index' = [index EXCEPT ![s] = Len(slotAt) + 1]
          /\ UNCHANGED free
     ELSE /\ slotAt' = [slotAt EXCEPT ![free[Len(free)]] = s]
          /\ index' = [index EXCEPT ![s] = free[Len(free)]]
          /\ free' = SubSeq(free, 1, Len(free) - 1)
  /\ UNCHANGED <<version, threadVars, data, queue, running, kept, historyVars>>

\* SlotImpl::set
Set(s) ==
  /\ ~shutdown /\ Room
  /\ s \in owner
  /\ version[s] < MaxSets
  /\ version' = [version EXCEPT ![s] = @ + 1]
  /\ queue' = PostToAll(queue, SetCallback(s))
  /\ data' = [data EXCEPT ![Main] = Apply(@, SetCallback(s))]
  /\ UNCHANGED <<slotAt, free, index, threadVars, running, owner, kept, historyVars>>

\* Mutant: only the copies posted to the workers hold the completion callback.
RunOnAllThreadsForWorkers(s) ==
  /\ ~shutdown /\ Room
  /\ s \in owner
  /\ version[s] > 0
  /\ updates < MaxUpdates
  /\ LET c == UpdateCallback(s, updates + 1, s \in Confirmed)
     IN /\ updates' = updates + 1
        /\ awaited' = IF s \in Confirmed THEN awaited \cup {updates + 1} ELSE awaited
        /\ data' = [data EXCEPT ![Main] = Apply(@, c)]
        /\ queue' = PostToAll(queue, c)
  /\ UNCHANGED <<slotVars, threadVars, running, owner, kept, joined, completed>>

\* SlotImpl::runOnAllThreads, both overloads.  A completion callback is posted to the main
\* thread once every copy of the callback is gone, at once if there are no workers.
RunOnAllThreads(s) ==
  /\ ~shutdown /\ Room
  /\ s \in owner
  /\ version[s] > 0
  /\ updates < MaxUpdates
  /\ LET guarded == s \in Confirmed
         c == UpdateCallback(s, updates + 1, guarded)
         q == PostToAll(queue, c)
     IN /\ updates' = updates + 1
        /\ awaited' = IF guarded THEN awaited \cup {updates + 1} ELSE awaited
        /\ data' = [data EXCEPT ![Main] = Apply(@, c)]
        /\ queue' = IF guarded /\ registered = {}
                    THEN [q EXCEPT ![Main] = Append(@, CompleteCallback(updates + 1))]
                    ELSE q
  /\ UNCHANGED <<slotVars, threadVars, running, owner, kept, joined, completed>>

\* Mutant: a new worker does not get what the slots were set to before.
RegisterThreadWithoutData(w) ==
  /\ ~shutdown
  /\ w \notin registered /\ 1..(w - 1) \subseteq registered
  /\ registered' = registered \cup {w}
  /\ joined' = [joined EXCEPT ![w] = updates]
  /\ UNCHANGED <<slotVars, shutdown, stopped, data, queue, running, owner, kept, updates,
                 awaited, completed>>

\* InstanceImpl::registerThread for a worker.  The slots are gone through by index.
RegisterThread(w) ==
  /\ ~shutdown
  /\ w \notin registered /\ 1..(w - 1) \subseteq registered
  /\ registered' = registered \cup {w}
  /\ joined' = [joined EXCEPT ![w] = updates]
  /\ UNCHANGED version
  /\ LET live == {i \in DOMAIN slotAt :
                    slotAt[i] # None /\ Alive(slotAt[i]) /\ version[slotAt[i]] > 0}
     IN \E n \in 0..Len(slotAt) : \E order \in [1..n -> live] :
          /\ \A j, k \in 1..n : j < k => order[j] < order[k]
          /\ \A i \in live : \E j \in 1..n : order[j] = i
          /\ queue' = [queue EXCEPT ![w] = @ \o [j \in 1..n |-> SetCallback(slotAt[order[j]])]]
  /\ UNCHANGED <<slotAt, free, index, shutdown, stopped, data, running, owner, kept, updates,
                 awaited, completed>>

\* A reference to the slot goes to a worker in a callback posted there.
Share(s, w) ==
  /\ ~shutdown /\ Room
  /\ s \in owner \cap Shared /\ version[s] > 0
  /\ w \in registered
  /\ ~\E i \in DOMAIN queue[w] : queue[w][i] = KeepCallback(s)
  /\ s \notin kept[w]
  /\ queue' = [queue EXCEPT ![w] = Append(@, KeepCallback(s))]
  /\ UNCHANGED <<slotVars, threadVars, data, running, owner, kept, historyVars>>

\* Mutant: only the main thread forgets the data.
RemoveSlotOnMain(i, q) ==
  IF shutdown
  THEN /\ queue' = q
       /\ UNCHANGED <<slotAt, free, data>>
  ELSE /\ slotAt' = [slotAt EXCEPT ![i] = None]
       /\ free' = Append(free, i)
       /\ queue' = q
       /\ data' = [data EXCEPT ![Main] = Apply(@, ClearCallback(i))]

\* InstanceImpl::removeSlot
RemoveSlot(i, q) ==
  IF shutdown
  THEN /\ queue' = q
       /\ UNCHANGED <<slotAt, free, data>>
  ELSE /\ slotAt' = [slotAt EXCEPT ![i] = None]
       /\ free' = Append(free, i)
       /\ queue' = PostToAll(q, ClearCallback(i))
       /\ data' = [data EXCEPT ![Main] = Apply(@, ClearCallback(i))]

\* Mutant: the owner removes the slot although a worker still refers to it.
ReleaseForAll(s) ==
  /\ s \in owner
  /\ shutdown => registered \subseteq stopped
  /\ owner' = owner \ {s}
  /\ RemoveSlot(index[s], queue)
  /\ UNCHANGED <<index, version, threadVars, running, kept, historyVars>>

\* The owner on the main thread lets go of the slot, with ~SlotImpl if it was the last.
\* From the shutdown on, the main thread first waits for the workers.
Release(s) ==
  /\ s \in owner
  /\ shutdown => registered \subseteq stopped
  /\ owner' = owner \ {s}
  /\ IF Referenced(s, owner', kept, running, queue)
     THEN UNCHANGED <<slotAt, free, queue, data>>
     ELSE RemoveSlot(index[s], queue)
  /\ UNCHANGED <<index, version, threadVars, running, kept, historyVars>>

\* A callback posted to the main thread runs; terminate() comes after its dispatch loop.
RunOnMain ==
  /\ ~shutdown
  /\ queue[Main] # <<>>
  /\ LET c == Head(queue[Main])
         q == [queue EXCEPT ![Main] = Tail(@)]
     IN \/ /\ c.kind = "remove"
           /\ RemoveSlot(c.index, q)
           /\ UNCHANGED completed
        \/ /\ c.kind = "complete"
           /\ completed' = completed \cup {c.update}
           /\ queue' = q
           /\ UNCHANGED <<slotAt, free, data>>
  /\ UNCHANGED <<index, version, threadVars, running, owner, kept, updates, joined, awaited>>

\* InstanceImpl::shutdownGlobalThreading, called by InstanceBase::terminate
ShutdownGlobalThreading ==
  /\ ~shutdown
  /\ shutdown' = TRUE
  /\ UNCHANGED <<slotVars, registered, stopped, data, queue, running, owner, kept, historyVars>>

\* InstanceImpl::shutdownThread on the main thread, when the workers have been joined
ShutdownMain ==
  /\ shutdown
  /\ registered \subseteq stopped /\ Main \notin stopped
  /\ stopped' = stopped \cup {Main}
  /\ data' = [data EXCEPT ![Main] = <<>>]
  /\ UNCHANGED <<slotVars, registered, shutdown, queue, running, owner, kept, historyVars>>

-----------------------------------------------------------------------------
(* The workers *)

\* runPostCallbacks runs a callback that does not lock a slot.
RunPlainCallback(w) ==
  /\ w \in registered \ stopped
  /\ running[w] = None
  /\ queue[w] # <<>>
  /\ LET c == Head(queue[w])
     IN \/ /\ c.kind = "keep"
           /\ kept' = [kept EXCEPT ![w] = @ \cup {c.slot}]
           /\ UNCHANGED data
        \/ /\ c.kind = "clear"
           /\ data' = [data EXCEPT ![w] = Apply(@, c)]
           /\ UNCHANGED kept
  /\ queue' = [queue EXCEPT ![w] = Tail(@)]
  /\ UNCHANGED <<slotVars, threadVars, running, owner, historyVars>>

\* runPostCallbacks enters a callback of a slot, whose wrapper locks the weak reference.
BeginCallback(w) ==
  /\ w \in registered \ stopped
  /\ running[w] = None
  /\ queue[w] # <<>>
  /\ LET c == Head(queue[w])
     IN /\ c.kind \in {"set", "update"}
        /\ running' = [running EXCEPT ![w] = [call |-> c, locked |-> Alive(c.slot), done |-> FALSE]]
  /\ queue' = [queue EXCEPT ![w] = Tail(@)]
  /\ UNCHANGED <<slotVars, threadVars, data, owner, kept, historyVars>>

\* Mutant: the first copy of the callback to go posts the completion.
ReleaseGuardAtFirst(c, run, q) ==
  IF c.kind = "update" /\ c.guarded
  THEN [q EXCEPT ![Main] = Append(@, CompleteCallback(c.update))]
  ELSE q

\* The deleter of cb_guard runs with the last copy of the callback.
ReleaseGuard(c, run, q) ==
  IF c.kind = "update" /\ c.guarded /\ ~Guarded(c.update, run, q)
  THEN [q EXCEPT ![Main] = Append(@, CompleteCallback(c.update))]
  ELSE q

\* The callback runs and is destroyed.  ~SlotImpl runs here if it held the last reference;
\* it looks at shutdown_ before it posts the removal.
FinishCallback(w) ==
  /\ running[w] # None /\ ~running[w].done
  /\ LET c == running[w].call
         locked == running[w].locked
         unlocked == [running EXCEPT ![w] = [call |-> c, locked |-> FALSE, done |-> TRUE]]
         last == locked /\ ~Referenced(c.slot, owner, kept, unlocked, queue)
     IN /\ data' = [data EXCEPT ![w] = IF locked THEN Apply(@, c) ELSE @]
        /\ IF last /\ ~shutdown
           THEN /\ running' = unlocked
                /\ UNCHANGED queue
           ELSE /\ running' = [running EXCEPT ![w] = None]
                /\ queue' = ReleaseGuard(c, running', queue)
  /\ UNCHANGED <<slotVars, threadVars, owner, kept, historyVars>>

\* ~SlotImpl on a worker posts the removal to the main thread.
PostRemoval(w) ==
  /\ running[w] # None /\ running[w].done
  /\ LET c == running[w].call
         q == [queue EXCEPT ![Main] = Append(@, RemoveCallback(c.index))]
     IN /\ running' = [running EXCEPT ![w] = None]
        /\ queue' = ReleaseGuard(c, running', q)
  /\ UNCHANGED <<slotVars, threadVars, data, owner, kept, historyVars>>

\* An object of the worker lets go of a slot, with ~SlotImpl if it was the last.
Drop(w, s) ==
  /\ w \notin stopped
  /\ running[w] = None
  /\ s \in kept[w]
  /\ kept' = [kept EXCEPT ![w] = @ \ {s}]
  /\ IF Referenced(s, owner, kept', running, queue) \/ shutdown
     THEN UNCHANGED running
     ELSE running' = [running EXCEPT ![w] =
            [call |-> [kind |-> "drop", slot |-> s, index |-> index[s]],
             locked |-> FALSE, done |-> TRUE]]
  /\ UNCHANGED <<slotVars, threadVars, data, queue, owner, historyVars>>

\* WorkerImpl::threadRoutine after the dispatch loop, with InstanceImpl::shutdownThread
StopWorker(w) ==
  /\ shutdown
  /\ w \in registered \ stopped
  /\ running[w] = None
  /\ stopped' = stopped \cup {w}
  /\ data' = [data EXCEPT ![w] = <<>>]
  /\ kept' = [kept EXCEPT ![w] = {}]
  /\ UNCHANGED <<slotVars, registered, shutdown, queue, running, owner, historyVars>>

-----------------------------------------------------------------------------
Init ==
  /\ slotAt = <<>> /\ free = <<>>
  /\ index = [s \in Slots |-> 0]
  /\ version = [s \in Slots |-> 0]
  /\ registered = {} /\ shutdown = FALSE /\ stopped = {}
  /\ data = [t \in Threads |-> <<>>]
  /\ queue = [t \in Threads |-> <<>>]
  /\ running = [w \in Workers |-> None]
  /\ owner = {}
  /\ kept = [w \in Workers |-> {}]
  /\ updates = 0
  /\ joined = [w \in Workers |-> 0]
  /\ awaited = {} /\ completed = {}

WorkerStep(w) ==
  RunPlainCallback(w) \/ BeginCallback(w) \/ FinishCallback(w) \/ PostRemoval(w)

Next ==
  \/ \E s \in Slots : AllocateSlot(s) \/ Set(s) \/ RunOnAllThreads(s) \/ Release(s)
  \/ \E s \in Slots, w \in Workers : Share(s, w) \/ Drop(w, s)
  \/ \E w \in Workers : RegisterThread(w) \/ WorkerStep(w) \/ StopWorker(w)
  \/ RunOnMain \/ ShutdownGlobalThreading \/ ShutdownMain

Spec == Init /\ [][Next]_vars

\* The dispatch loops of the workers and of the main thread go on running callbacks.
FairSpec == Spec /\ WF_vars(RunOnMain) /\ \A w \in Workers : WF_vars(WorkerStep(w))

-----------------------------------------------------------------------------
(* Properties *)

\* Every variable has its type.
TypeOK ==
  /\ slotAt \in Seq(Slots \cup {None})
  /\ free \in Seq(1..Len(slotAt))
  /\ index \in [Slots -> 0..Len(slotAt)]
  /\ version \in [Slots -> 0..MaxSets]
  /\ registered \subseteq Workers /\ stopped \subseteq Threads
  /\ owner \subseteq Slots /\ kept \in [Workers -> SUBSET Slots]
  /\ running \in [Workers -> Runs \cup {None}]
  /\ \A w \in Workers : queue[w] \in Seq(WorkerCalls)
  /\ queue[Main] \in Seq(MainCalls)
  /\ \A t \in Threads : data[t] \in Seq(Objects \cup {None}) /\ Len(data[t]) <= Len(slotAt)

\* Who has index i: a live slot, a place among the free ones, a removal on its way to the
\* main thread, or a worker that is about to post one
Holders(i) ==
  {<<"slot", s>> : s \in {s \in Slots : index[s] = i /\ Alive(s)}}
  \cup {<<"free", k>> : k \in {k \in DOMAIN free : free[k] = i}}
  \cup {<<"removal", k>> : k \in {k \in DOMAIN queue[Main] :
          queue[Main][k].kind = "remove" /\ queue[Main][k].index = i}}
  \cup {<<"worker", w>> : w \in {w \in Workers :
          running[w] # None /\ running[w].done /\ running[w].call.index = i}}

\* Until shutdown every index belongs to one live slot, or is free once, or has one
\* removal on its way from the thread that destroyed its slot: no index is used twice,
\* freed twice ("slot index already in free slot set") or lost.
EveryIndexIsAccounted ==
  ~shutdown => \A i \in 1..Len(slotAt) : \E h \in Holders(i) : Holders(i) = {h}

\* Worker w runs an update of slot s.
Updating(w, s) ==
  /\ running[w] # None
  /\ running[w].call.kind = "update" /\ running[w].locked
  /\ running[w].call.slot = s

\* A worker that holds a slot, or runs an update of it, finds the slot's own data, never
\* nothing and never what a former slot of the same index left ("Callers can assume that
\* the passed-in OptRef has a value if they have called set()").
SlotDataIsItsOwn ==
  \A w \in Workers \ stopped, s \in Slots :
    (s \in kept[w] \/ Updating(w, s)) =>
      /\ index[s] <= Len(data[w])
      /\ data[w][index[s]] # None
      /\ data[w][index[s]].slot = s

\* What a worker's data will be when its queue is done
Replay(w) ==
  LET effective(c) == c.kind = "clear" \/ (c.kind \in {"set", "update"} /\ Alive(c.slot))
      now == IF running[w] = None \/ running[w].done THEN <<>> ELSE <<running[w].call>>
      todo == SelectSeq(now \o queue[w], effective)
      after[n \in 0..Len(todo)] == IF n = 0 THEN data[w] ELSE Apply(after[n - 1], todo[n])
  IN after[Len(todo)]

\* Every worker is on its way to what the main thread has: the last value set, with the
\* updates made since, as far as the worker was registered at the time.
WorkersConverge ==
  ~shutdown => \A w \in registered, s \in Slots : Alive(s) /\ version[s] > 0 =>
    LET main == data[Main][index[s]] IN
      /\ index[s] <= Len(Replay(w))
      /\ Replay(w)[index[s]] =
           [main EXCEPT !.updates = {u \in @ : u > joined[w]}]

\* An index without a value on the main thread is about to be empty on every worker: a
\* slot that reuses it does not start with the data of the slot that had it before.
FreedIndexIsCleared ==
  ~shutdown => \A w \in registered, i \in 1..Len(slotAt) :
    (slotAt[i] = None \/ version[slotAt[i]] = 0) /\ i <= Len(Replay(w)) =>
      Replay(w)[i] = None

\* The completion callback is posted once, when no worker has the update ahead any more.
CompletionIsLast ==
  \A u \in 1..updates :
    LET posted == {i \in DOMAIN queue[Main] :
                     queue[Main][i].kind = "complete" /\ queue[Main][i].update = u}
    IN /\ \A i, j \in posted : i = j
       /\ u \in completed => posted = {}
       /\ posted # {} \/ u \in completed => ~Guarded(u, running, queue)

\* Every completion callback runs, unless the server shuts down first.
CompletionRuns ==
  \A u \in 1..MaxUpdates : u \in awaited ~> u \in completed \/ shutdown

=============================================================================
