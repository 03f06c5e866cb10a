---------------------------- MODULE InitManager ----------------------------
(***************************************************************************)
(* Initialisation of the server: Init::ManagerImpl with its targets        *)
(* (TargetImpl, SharedTargetImpl) and watchers, composed the way           *)
(* ListenerImpl and RdsRouteConfigSubscription nest them.  A target of an  *)
(* outer manager may start an inner manager, whose watcher signals the     *)
(* target in turn.                                                         *)
(*                                                                         *)
(* Everything runs on the main thread, but every object may call back into *)
(* user code, and user code may add and signal targets, start managers and *)
(* destroy objects from there.  `stack' is the C++ call stack: the frame   *)
(* in front runs next, and a "user" frame in front means that control is   *)
(* in a callback of a user.                                                *)
(***************************************************************************)
EXTENDS Integers, Sequences, FiniteSets, FiniteSetsExt, SequencesExt

CONSTANTS
  Managers,        \* Init::ManagerImpl objects
  PlainTargets,    \* Init::TargetImpl objects
  SharedTargets,   \* Init::SharedTargetImpl objects
  Watchers,        \* Init::WatcherImpl objects that belong to users
  WatchersOf,      \* [Managers -> the watchers users give to it]
  Owners,          \* objects with init targets and managers as members
  None,
  Inner,           \* [targets -> the manager the target's callback starts, or None]
  Members,         \* [Owners -> targets, managers and watchers destroyed with the owner]
  Signals,         \* [Owners -> the target the owner's destructor signals, or None]
  Constructed,     \* <<m, t>>: t is added to m by the constructor of their owner
  Registrations,   \* [<<m, t>> -> how many times users add t to m at most]
  AddsReadyTarget  \* users may add a target that is already ready to a running manager

Targets == PlainTargets \cup SharedTargets
Objects == Managers \cup Targets \cup Watchers
InnerManagers == {Inner[t] : t \in Targets} \ {None}

ASSUME InitManagerAssumption ==
  /\ IsFiniteSet(Objects)
  /\ None \notin Objects
  /\ PlainTargets \cap SharedTargets = {}
  /\ Inner \in [Targets -> Managers \cup {None}]
  /\ \A t, u \in Targets : Inner[t] = Inner[u] /\ Inner[t] # None => t = u
  /\ WatchersOf \in [Managers -> SUBSET Watchers]
  /\ \A m \in InnerManagers : WatchersOf[m] = {}
  /\ Members \in [Owners -> SUBSET Objects]
  /\ Signals \in [Owners -> PlainTargets \cup {None}]
  /\ Constructed \subseteq Managers \X PlainTargets
  /\ Registrations \in [Managers \X Targets -> Nat]
  /\ \A t \in PlainTargets, m, n \in Managers :  \* a TargetImpl has one manager
        Registrations[m, t] > 0 =>
          /\ Registrations[m, t] = 1
          /\ <<n, t>> \notin Constructed
          /\ Registrations[n, t] > 0 => m = n
  /\ AddsReadyTarget \in BOOLEAN

VARIABLES
  alive,          \* objects not destroyed
  state,          \* state_ of a manager
  count,          \* count_
  names,          \* target_names_count_
  targetHandles,  \* target_handles_
  watcherHandle,  \* watcher_handle_: a watcher, or the target whose owner has the watcher
  callable,       \* targets whose fn_ is set
  held,           \* watcher_handle_ / watcher_handles_ of a target: managers to notify
  initialized,    \* shared targets with initialized_
  once,           \* shared targets whose once_flag_ is used
  added,          \* <<m, t>> -> number of calls of add
  notified,       \* number of times a watcher was called
  lost,           \* registrations of a manager whose target was destroyed in progress
  stack           \* the calls in progress, innermost first

managerVars == <<state, count, names, targetHandles, watcherHandle>>
targetVars == <<callable, held, initialized, once>>
historyVars == <<added, notified, lost>>
vars == <<alive, managerVars, targetVars, historyVars, stack>>

-----------------------------------------------------------------------------
(* The call stack *)

Top == Head(stack)
Rest == Tail(stack)
Running(kind) == stack # <<>> /\ Top.kind = kind
Push(frame) == stack' = <<frame>> \o stack
Become(frames) == stack' = frames \o Rest
UserMayCall == stack # <<>> => Top.kind = "user"

User == [kind |-> "user"]
InitializeCall(m, w) == [kind |-> "initialize", m |-> m, w |-> w]
Loop(m, i) == [kind |-> "loop", m |-> m, i |-> i]
Callback(t, m) == [kind |-> "callback", t |-> t, m |-> m]
ReadyCall(t) == [kind |-> "ready", t |-> t]
Notify(t, ms) == [kind |-> "notify", t |-> t, ms |-> ms]
WatcherCall(m) == [kind |-> "watcher", m |-> m]
Destructor(o) == [kind |-> "destructor", o |-> o]

-----------------------------------------------------------------------------
(* ManagerImpl *)

\* Mutant: the state is not set when the last target is ready.
OnTargetReadyKeepingState(m, t, frames) ==
  /\ names' = [names EXCEPT ![m][t] = @ - 1]
  /\ count' = [count EXCEPT ![m] = @ - 1]
  /\ Become((IF count[m] = 1 THEN <<WatcherCall(m)>> ELSE <<>>) \o frames)
  /\ UNCHANGED state

\* Mutant: the manager is ready with one target to go.
OnTargetReadyEarly(m, t, frames) ==
  /\ names' = [names EXCEPT ![m][t] = @ - 1]
  /\ count' = [count EXCEPT ![m] = @ - 1]
  /\ IF count[m] <= 2
     THEN /\ state' = [state EXCEPT ![m] = "Initialized"]
          /\ Become(<<WatcherCall(m)>> \o frames)
     ELSE /\ Become(frames)
          /\ UNCHANGED state

\* ManagerImpl::onTargetReady(t) with ready(); the calling frame becomes `frames'.
OnTargetReady(m, t, frames) ==
  /\ names' = [names EXCEPT ![m][t] = @ - 1]
  /\ count' = [count EXCEPT ![m] = @ - 1]
  /\ IF count[m] = 1
     THEN /\ state' = [state EXCEPT ![m] = "Initialized"]
          /\ Become(<<WatcherCall(m)>> \o frames)
     ELSE /\ Become(frames)
          /\ UNCHANGED state

\* WatcherHandleImpl::ready() on a handle of m's watcher_, a weak reference.
SignalManager(m, t, frames) ==
  IF m \in alive
  THEN OnTargetReady(m, t, frames)
  ELSE /\ Become(frames)
       /\ UNCHANGED <<state, count, names>>

\* ManagerImpl::add
Add(m, t) ==
  /\ UserMayCall
  /\ {m, t} \subseteq alive
  /\ added[m, t] < Registrations[m, t]
  /\ state[m] # "Initialized"
  /\ state[m] = "Initializing" => t \in callable \/ AddsReadyTarget
  /\ count' = [count EXCEPT ![m] = @ + 1]
  /\ names' = [names EXCEPT ![m][t] = @ + 1]
  /\ added' = [added EXCEPT ![m, t] = @ + 1]
  /\ CASE state[m] = "Uninitialized" ->
            /\ targetHandles' = [targetHandles EXCEPT ![m] = Append(@, t)]
            /\ UNCHANGED stack
       [] state[m] = "Initializing" /\ t \in callable ->
            /\ Push(Callback(t, m))
            /\ UNCHANGED targetHandles
       [] OTHER -> UNCHANGED <<targetHandles, stack>>
  /\ UNCHANGED <<alive, state, watcherHandle, targetVars, notified, lost>>

\* The owner of an outermost manager starts it; inner ones are started by their target.
StartManager(m, w) ==
  /\ UserMayCall
  /\ {m, w} \subseteq alive
  /\ state[m] = "Uninitialized"
  /\ Push(InitializeCall(m, w))
  /\ UNCHANGED <<alive, managerVars, targetVars, historyVars>>

\* ManagerImpl::initialize up to its loop
Initialize ==
  /\ Running("initialize")
  /\ LET m == Top.m IN
     /\ watcherHandle' = [watcherHandle EXCEPT ![m] = Top.w]
     /\ IF count[m] = 0
        THEN /\ state' = [state EXCEPT ![m] = "Initialized"]
             /\ Become(<<WatcherCall(m)>>)
        ELSE /\ state' = [state EXCEPT ![m] = "Initializing"]
             /\ Become(<<Loop(m, 1)>>)
  /\ UNCHANGED <<alive, count, names, targetHandles, targetVars, historyVars>>

\* Mutant: nobody looks at the result of TargetHandleImpl::initialize.
LoopRoundIgnoringResult ==
  /\ Running("loop")
  /\ LET m == Top.m
         i == Top.i
     IN IF i > Len(targetHandles[m])
        THEN Become(<<>>)
        ELSE LET t == targetHandles[m][i]
             IN Become((IF t \in callable THEN <<Callback(t, m)>> ELSE <<>>) \o <<Loop(m, i + 1)>>)
  /\ UNCHANGED <<alive, managerVars, targetVars, historyVars>>

\* One round of the loop in ManagerImpl::initialize, with TargetHandleImpl::initialize
LoopRound ==
  /\ Running("loop")
  /\ LET m == Top.m
         i == Top.i
     IN IF i > Len(targetHandles[m])
        THEN /\ Become(<<>>)
             /\ UNCHANGED <<state, count, names>>
        ELSE LET t == targetHandles[m][i] IN
             IF t \in callable
             THEN /\ Become(<<Callback(t, m), Loop(m, i + 1)>>)
                  /\ UNCHANGED <<state, count, names>>
             ELSE OnTargetReady(m, t, <<Loop(m, i + 1)>>)
  /\ UNCHANGED <<alive, targetHandles, watcherHandle, targetVars, historyVars>>

\* ManagerImpl::updateWatcher
UpdateWatcher(m, w) ==
  /\ UserMayCall
  /\ {m, w} \subseteq alive
  /\ state[m] # "Initialized"
  /\ watcherHandle[m] # w
  /\ watcherHandle' = [watcherHandle EXCEPT ![m] = w]
  /\ UNCHANGED <<alive, state, count, names, targetHandles, targetVars, historyVars, stack>>

\* watcher_handle_->ready() in ManagerImpl::ready: a user's watcher, or the
\* local_init_watcher_ of an owner, which signals the owner's target
CallWatcher ==
  /\ Running("watcher")
  /\ LET w == watcherHandle[Top.m] IN
     CASE w \notin alive  -> Become(<<>>) /\ UNCHANGED notified
       [] w \in alive \cap Targets -> Become(<<ReadyCall(w)>>) /\ UNCHANGED notified
       [] w \in alive \cap Watchers ->
            /\ Become(<<User>>)
            /\ notified' = [notified EXCEPT ![w] = @ + 1]
  /\ UNCHANGED <<alive, managerVars, targetVars, added, lost>>

-----------------------------------------------------------------------------
(* TargetImpl and SharedTargetImpl *)

\* What the InitializeFn given to the target does
InitializeFn(t) ==
  IF Inner[t] = None THEN <<User>> ELSE <<InitializeCall(Inner[t], t)>>

\* The lambda of the TargetImpl constructor
CallPlainTarget ==
  /\ Running("callback") /\ Top.t \in PlainTargets
  /\ held' = [held EXCEPT ![Top.t] = <<Top.m>>]
  /\ Become(InitializeFn(Top.t))
  /\ UNCHANGED <<alive, managerVars, callable, initialized, once, historyVars>>

\* Mutant: the callback runs for every manager that initialises the target.
CallSharedTargetAgain ==
  /\ Running("callback") /\ Top.t \in SharedTargets
  /\ LET t == Top.t IN
     IF t \in initialized
     THEN /\ SignalManager(Top.m, t, <<>>)
          /\ UNCHANGED <<held, once>>
     ELSE /\ held' = [held EXCEPT ![t] = Append(@, Top.m)]
          /\ once' = once \cup {t}
          /\ Become(InitializeFn(t))
          /\ UNCHANGED <<state, count, names>>
  /\ UNCHANGED <<alive, targetHandles, watcherHandle, callable, initialized, historyVars>>

\* The lambda of the SharedTargetImpl constructor
CallSharedTarget ==
  /\ Running("callback") /\ Top.t \in SharedTargets
  /\ LET t == Top.t IN
     IF t \in initialized
     THEN /\ SignalManager(Top.m, t, <<>>)
          /\ UNCHANGED <<held, once>>
     ELSE /\ held' = [held EXCEPT ![t] = Append(@, Top.m)]
          /\ once' = once \cup {t}
          /\ Become(IF t \in once THEN <<>> ELSE InitializeFn(t))
          /\ UNCHANGED <<state, count, names>>
  /\ UNCHANGED <<alive, targetHandles, watcherHandle, callable, initialized, historyVars>>

\* A user signals a target that it drives itself.  Calls without effect are left out.
SignalTarget(t) ==
  /\ UserMayCall
  /\ t \in alive
  /\ Inner[t] = None
  /\ IF t \in SharedTargets THEN t \notin initialized ELSE held[t] # <<>> \/ t \in callable
  /\ Push(ReadyCall(t))
  /\ UNCHANGED <<alive, managerVars, targetVars, historyVars>>

\* Mutant: the watcher handle is not reset once it was signalled.
PlainTargetReadyKeepingHandle ==
  /\ Running("ready") /\ Top.t \in PlainTargets
  /\ LET t == Top.t IN
     IF held[t] # <<>>
     THEN /\ SignalManager(Head(held[t]), t, <<>>)
          /\ UNCHANGED callable
     ELSE /\ callable' = callable \ {t}
          /\ Become(<<>>)
          /\ UNCHANGED <<state, count, names>>
  /\ UNCHANGED <<alive, targetHandles, watcherHandle, held, initialized, once, historyVars>>

\* TargetImpl::ready
PlainTargetReady ==
  /\ Running("ready") /\ Top.t \in PlainTargets
  /\ LET t == Top.t IN
     IF held[t] # <<>>
     THEN /\ held' = [held EXCEPT ![t] = <<>>]
          /\ SignalManager(Head(held[t]), t, <<>>)
          /\ UNCHANGED callable
     ELSE /\ callable' = callable \ {t}
          /\ Become(<<>>)
          /\ UNCHANGED <<held, state, count, names>>
  /\ UNCHANGED <<alive, targetHandles, watcherHandle, initialized, once, historyVars>>

\* SharedTargetImpl::ready up to its loop
SharedTargetReady ==
  /\ Running("ready") /\ Top.t \in SharedTargets
  /\ initialized' = initialized \cup {Top.t}
  /\ held' = [held EXCEPT ![Top.t] = <<>>]
  /\ Become(<<Notify(Top.t, held[Top.t])>>)
  /\ UNCHANGED <<alive, managerVars, callable, once, historyVars>>

\* One round of the loop in SharedTargetImpl::ready
NotifyRound ==
  /\ Running("notify")
  /\ IF Top.ms = <<>>
     THEN /\ Become(<<>>)
          /\ UNCHANGED <<state, count, names>>
     ELSE SignalManager(Head(Top.ms), Top.t, <<Notify(Top.t, Tail(Top.ms))>>)
  /\ UNCHANGED <<alive, targetHandles, watcherHandle, targetVars, historyVars>>

-----------------------------------------------------------------------------
(* Owners and users *)

Held(t, m) == Cardinality({i \in DOMAIN held[t] : held[t][i] = m})
OnStack(kind) == {i \in DOMAIN stack : stack[i].kind = kind}
InInitialize(m) == \E i \in OnStack("initialize") \cup OnStack("loop") : stack[i].m = m
InDestructor(o) == \E i \in OnStack("destructor") : stack[i].o = o

\* The destructor of an owner: ~ListenerImpl and ~RdsRouteConfigSubscription signal a
\* target first, so that nobody waits for it.  No user of a starting server destroys a
\* manager from inside its initialize().
Destroy(o) ==
  /\ UserMayCall
  /\ Members[o] \subseteq alive
  /\ ~InDestructor(o)
  /\ \A m \in Members[o] \cap Managers : ~InInitialize(m)
  /\ stack' = (IF Signals[o] = None THEN <<>> ELSE <<ReadyCall(Signals[o])>>)
              \o <<Destructor(o)>> \o stack
  /\ UNCHANGED <<alive, managerVars, targetVars, historyVars>>

\* The members of the owner are destroyed.
DestroyMembers ==
  /\ Running("destructor")
  /\ LET gone == Members[Top.o] IN
     /\ alive' = alive \ gone
     /\ callable' = callable \ gone
     /\ held' = [t \in Targets |-> IF t \in gone THEN <<>> ELSE held[t]]
     /\ lost' = [m \in Managers |->
                   lost[m] + MapThenSumSet(LAMBDA t : Held(t, m), gone \cap Targets)]
  /\ Become(<<>>)
  /\ UNCHANGED <<managerVars, initialized, once, added, notified>>

\* A callback of a user returns.
Return ==
  /\ Running("user")
  /\ Become(<<>>)
  /\ UNCHANGED <<alive, managerVars, targetVars, historyVars>>

-----------------------------------------------------------------------------
Init ==
  /\ alive = Objects
  /\ state = [m \in Managers |-> "Uninitialized"]
  /\ targetHandles = [m \in Managers |-> SetToSeq({t \in Targets : <<m, t>> \in Constructed})]
  /\ count = [m \in Managers |-> Len(targetHandles[m])]
  /\ names = [m \in Managers |-> [t \in Targets |-> IF <<m, t>> \in Constructed THEN 1 ELSE 0]]
  /\ watcherHandle = [m \in Managers |-> None]
  /\ callable = Targets
  /\ held = [t \in Targets |-> <<>>]
  /\ initialized = {} /\ once = {}
  /\ added = [p \in Managers \X Targets |-> 0]
  /\ notified = [w \in Watchers |-> 0]
  /\ lost = [m \in Managers |-> 0]
  /\ stack = <<>>

LibraryStep ==
  \/ Initialize \/ LoopRound \/ CallWatcher
  \/ CallPlainTarget \/ CallSharedTarget
  \/ PlainTargetReady \/ SharedTargetReady \/ NotifyRound
  \/ DestroyMembers

UserStep ==
  \/ \E m \in Managers, t \in Targets : Add(m, t)
  \/ \E m \in Managers : \E w \in WatchersOf[m] : StartManager(m, w) \/ UpdateWatcher(m, w)
  \/ \E t \in Targets : SignalTarget(t)
  \/ \E o \in Owners : Destroy(o)
  \/ Return

Next == LibraryStep \/ UserStep

Spec == Init /\ [][Next]_vars

\* A call returns in the end, and whoever drives a target signals it once the target was
\* told to initialise (an xDS subscription at the latest on its init_fetch_timeout).
Fairness ==
  /\ WF_vars(LibraryStep)
  /\ WF_vars(Return)
  /\ \A t \in Targets : WF_vars(held[t] # <<>> /\ SignalTarget(t))

FairSpec == Spec /\ Fairness

-----------------------------------------------------------------------------
(* Properties *)

\* Every variable has its type; a TargetImpl holds at most one watcher handle.
TypeOK ==
  /\ alive \subseteq Objects
  /\ state \in [Managers -> {"Uninitialized", "Initializing", "Initialized"}]
  /\ count \in [Managers -> Nat]
  /\ names \in [Managers -> [Targets -> Nat]]
  /\ \A m \in Managers : targetHandles[m] \in Seq(Targets)
  /\ watcherHandle \in [Managers -> Watchers \cup Targets \cup {None}]
  /\ callable \subseteq alive \cap Targets
  /\ \A t \in Targets : held[t] \in Seq(Managers) /\ (t \in PlainTargets => Len(held[t]) <= 1)
  /\ initialized \subseteq SharedTargets /\ once \subseteq SharedTargets

\* Registrations of t that m still has to call, that t still has to signal, or that are
\* being signalled now: what count_ should count.
Outstanding(m, t) ==
  LET uncalled(i) == CASE state[m] = "Uninitialized" -> TRUE
                       [] OTHER -> \E j \in OnStack("loop") : stack[j].m = m /\ i >= stack[j].i
  IN Cardinality({i \in DOMAIN targetHandles[m] : targetHandles[m][i] = t /\ uncalled(i)})
     + Held(t, m)
     + Cardinality({i \in OnStack("callback") : stack[i].t = t /\ stack[i].m = m})
     + Cardinality({<<i, j>> \in OnStack("notify") \X (1..Cardinality(Managers)) :
                      /\ stack[i].t = t
                      /\ j \in DOMAIN stack[i].ms /\ stack[i].ms[j] = m})

\* count_ and target_names_count_ of a manager agree with what is really outstanding,
\* whatever was called back, signalled twice, or destroyed in the middle: only a target
\* destroyed in progress without a signal is counted for ever.
CountIsOutstanding ==
  \A m \in Managers \cap alive :
    /\ count[m] = MapThenSumSet(LAMBDA t : Outstanding(m, t), Targets) + lost[m]
    /\ lost[m] = 0 => \A t \in Targets : names[m][t] = Outstanding(m, t)

\* The assertions of ManagerImpl hold although its callers do not look at its state: a
\* nested manager is started once, and nobody signals a manager that has finished.
AssertionsHold ==
  stack # <<>> =>
    /\ Top.kind = "initialize" => state[Top.m] = "Uninitialized"
    /\ Top.kind = "notify" /\ Top.ms # <<>> /\ Head(Top.ms) \in alive =>
         count[Head(Top.ms)] > 0 /\ names[Head(Top.ms)][Top.t] > 0
    /\ Top.kind = "ready" /\ held[Top.t] # <<>> /\ Head(held[Top.t]) \in alive =>
         count[Head(held[Top.t])] > 0 /\ names[Head(held[Top.t])][Top.t] > 0

\* A manager's watchers are called once between them, and only when it has finished.
LastWatcherIsNotified ==
  \A m \in Managers :
    LET calls == MapThenSumSet(LAMBDA w : notified[w], WatchersOf[m])
    IN calls > 0 => calls = 1 /\ state[m] = "Initialized"

\* The managers implement the countdown over the registrations that are outstanding.
Countdown == INSTANCE InitCountdown WITH
  phase <- [m \in Managers |-> IF m \in alive THEN state[m] ELSE "Gone"],
  waiting <- [m \in Managers |-> [t \in Targets |->
                IF m \in alive THEN Outstanding(m, t) ELSE 0]],
  abandoned <- lost
ImplementsCountdown == Countdown!Spec

\* A manager that was started is initialised in the end, unless it is destroyed or some
\* target was destroyed without a signal.
ManagerIsInitialized ==
  \A m \in Managers : state[m] = "Initializing" ~>
    state[m] = "Initialized" \/ m \notin alive \/ \E n \in Managers : lost[n] > 0

=============================================================================
