--------------------------- MODULE ConnPoolDuties ---------------------------
(***************************************************************************)
(* The duties of the calls in progress.  Between two callbacks the pool is *)
(* in states its own code would call wrong: a lost client still listed, a  *)
(* queue without a client, an idle connection of a draining pool.  In each *)
(* of them some call on the stack is going to put it right.  This module   *)
(* proves that every step keeps the duties of ConnPoolInvariant.           *)
(***************************************************************************)
EXTENDS ConnPoolNesting

(* Leaves are given to the Zenon prover, for at most 30 s, unless they name another. *)
USE ZenonT(30)

-----------------------------------------------------------------------------
(* Creating connections *)

(* A queue without a client makes the pool connect, whatever its settings. *)
LEMMA QueueDemands ==
  ASSUME IInv, Counted, listed = {}, pending # <<>>
  PROVE  FALSE \notin ShouldCreateNewConnection(0)
<1>1. totalCapacity = 0 /\ connectingCapacity = 0
  BY DEF Counted
<1>2. numActiveStreams \in Nat /\ pending \in Seq(Streams)
  BY DEF Counted, IInv, QueuePart, PoolTyped
<1>3. Len(pending) \in Nat /\ Len(pending) > 0
  BY SMTT(30), <1>2
<1>4. RatioHalves \in Nat /\ RatioHalves >= 2
  BY ConnPoolAssumption
<1>5. OnDemand
  BY <1>1, <1>3 DEF OnDemand
<1>6. ASSUME NEW p \in Nat, p > 0, NEW a \in Nat, NEW r \in Nat, r >= 2
      PROVE  (p + a + 0) * r > 2 * (0 + a)
  BY SMTT(30), <1>6
<1>7. ShouldConnect(RatioHalves, 0)
  BY <1>1, <1>2, <1>3, <1>4, <1>6 DEF ShouldConnect
<1>8. ShouldCreateNewConnection(0) = {OnDemand, ShouldConnect(RatioHalves, 0)}
  BY DEF ShouldCreateNewConnection
<1> QED BY <1>5, <1>7, <1>8

(* A pool that does not preconnect and has nothing to serve does not connect. *)
LEMMA NothingDemanded ==
  ASSUME IInv, Counted, listed = {}, pending = <<>>, RatioHalves = 2
  PROVE  TRUE \notin ShouldCreateNewConnection(0)
<1>1. totalCapacity = 0 /\ connectingCapacity = 0
  BY DEF Counted
<1>2. numActiveStreams \in Nat /\ Len(pending) = 0
  BY DEF Counted
<1>3. ~OnDemand
  BY SMTT(30), <1>1, <1>2 DEF OnDemand
<1>4. ~ShouldConnect(RatioHalves, 0)
  BY SMTT(30), <1>1, <1>2 DEF ShouldConnect
<1>5. ShouldCreateNewConnection(0) = {OnDemand, ShouldConnect(RatioHalves, 0)}
  BY DEF ShouldCreateNewConnection
<1> QED BY <1>3, <1>4, <1>5

(* A drain that goes on while clients change. *)
LEMMA DrainGoesOn ==
  ASSUME DrainPart, Doing({"drainRest"}) => purging' = <<>>,
         \A f \in Elements(stack') :
           \/ f \in Elements(stack) /\ (Doing({"drainRest"}) /\ DrainFrame(f) => DrainFrame(f)')
           \/ f.op # "drainRest" /\ (Doing({"drainRest"}) => DrainFrame(f)'),
         Doing({"drainRest"}) /\ IdleTended => IdleTended'
  PROVE  DrainPart'
<1>1. Doing({"drainRest"})' => Doing({"drainRest"})
  BY DEF Doing
<1> QED BY <1>1 DEF DrainPart

(* A connection is created. *)
LEMMA CreatedDuty ==
  ASSUME IInv, Duties, NEW c \in Clients, CreateClient(c), UNCHANGED <<streamVars, poolVars>>,
         NEW op \in {"tryCreate", "none"}, KeepsBut(op), Sound(stack'),
         \A f \in Elements(stack') :
           f \in Elements(stack) \/ (f.op = "tryCreate" /\ (Doing({"drainRest"}) => f.s = NoStream)),
         RatioHalves = 2 /\ deleted => Doing({"destroy"})
  PROVE  Duties'
<1>1. /\ PurgePart /\ PlacePart /\ LostListed /\ LostDone /\ StreamsOfLostConnectionsAreReset
      /\ DrainPart /\ LimitPart /\ DrainedClosing /\ IdleClosing /\ EmptyPart /\ ReadyPart
  BY DEF Duties, LostPart
<1>2. /\ FreeClient(c)
      /\ state' = [state EXCEPT ![c] = "Connecting"]
      /\ remaining' = [remaining EXCEPT ![c] = MaxRequestsPerConnection]
      /\ limit' = [limit EXCEPT ![c] = MaxConcurrentStreams]
      /\ configured' = [configured EXCEPT ![c] = InitialStreamsLimit]
      /\ listed' = listed \cup {c} /\ open' = open \cup {c}
  BY DEF CreateClient
<1>3. /\ UNCHANGED <<on, pending, purging>>
      /\ UNCHANGED <<draining, deleted, idleCallbacks, readyCallback>>
  BY DEF streamVars, poolVars
<1>4. \A d : NumActiveStreams(d)' = NumActiveStreams(d)
  BY <1>3 DEF NumActiveStreams
<1>5. /\ ClientTyped /\ cached \in Nat
  BY DEF IInv, ClientPart, QueuePart, PoolTyped
<1>6. /\ state'[c] = "Connecting" /\ remaining'[c] = MaxRequestsPerConnection
      /\ limit'[c] = MaxConcurrentStreams /\ configured'[c] = InitialStreamsLimit
      /\ \A d \in Clients \ {c} : /\ state'[d] = state[d] /\ remaining'[d] = remaining[d]
                                  /\ limit'[d] = limit[d] /\ configured'[d] = configured[d]
  BY <1>2, <1>5 DEF ClientTyped
<1>7. /\ listed \subseteq Clients /\ \A f \in Elements(stack) : f.cs \subseteq Clients /\ c \notin f.cs
  BY <1>2, <1>5, FrameClients DEF IInv, ClientTyped, FreeClient
<1>8. \A d \in listed' : d = c \/ (d \in listed /\ d \in Clients \ {c})
  BY <1>2, <1>7
<1>9. /\ op # "purge" /\ op # "reset" /\ op \notin {"lost", "release"}
      /\ op \notin {"close", "lost", "release"}
      /\ op \notin {"checkIdle", "closeIdle", "closeAll", "close", "lost"}
      /\ op \notin {"checkIdle", "notifyIdle"} /\ op # "upstreamReady" /\ op # "destroy"
      /\ op \notin {"destroy"} /\ op \notin {"closeIdle"} /\ op \notin {"release"} /\ op \notin {"closeAll", "close", "lost"}
      /\ "Connecting" # "Ready" /\ "Connecting" # "Busy" /\ "Connecting" # "Draining"
      /\ \A x : x = "tryCreate" => x # "release" /\ x # "drainRest"
  OBVIOUS
<1>10. PurgePart' /\ PlacePart' /\ OrderPart'
  BY <1>1, <1>3, <1>9, PurgeKept, PlaceKept, SoundOrder
<1>11. LostListed'
  <2>1. listed' \ open' \subseteq listed \ open
    BY <1>2
  <2> QED BY <1>1, <1>9, <2>1, LostListedKept
<1>12. LostDone'
  <2>1. \A f \in Elements(stack) : \A d \in f.cs : state'[d] = state[d]
    BY <1>6, <1>7
  <2> QED BY <1>1, <1>9, <2>1, LostDoneKept
<1>13. StreamsOfLostConnectionsAreReset'
  <2>1. open \subseteq open'
    BY <1>2
  <2> QED BY <1>1, <1>3, <1>9, <2>1, ResetsKept
<1>14. LimitPart'
  <2>1. InitialStreamsLimit > 0 /\ MaxConcurrentStreams > 0 /\ MaxRequestsPerConnection > 0
    BY SMTT(30), <1>5, InitialLimitType, ConnPoolAssumption
  <2>2. ASSUME 0 \notin Settings, NEW d \in listed'
        PROVE  /\ limit'[d] > 0 /\ configured'[d] > 0
               /\ state'[d] = "Busy" => remaining'[d] > 0
               /\ state'[d] = "Connecting" => remaining'[d] > 0 \/ DoingTo({"release"}, d)'
    <3>1. CASE d = c
      BY <1>6, <2>1, <3>1
    <3>2. CASE d \in listed /\ d \in Clients \ {c}
      <4>1. DoingTo({"release"}, d) => DoingTo({"release"}, d)'
        BY <1>9, DoingKept
      <4> QED BY <1>1, <1>6, <2>2, <3>2, <4>1 DEF LimitPart
    <3> QED BY <1>8, <2>2, <3>1, <3>2
  <2> QED BY <2>2 DEF LimitPart
<1>15. DrainedClosing'
  BY <1>1, <1>4, <1>6, <1>8, <1>9, DrainedKept
<1>16. IdleClosing'
  BY <1>1, <1>3, <1>4, <1>6, <1>8, <1>9, IdleKept
<1>17. EmptyPart' /\ DemandPart'
  <2>1. listed' # {}
    BY <1>2
  <2> QED BY <2>1 DEF EmptyPart, DemandPart
<1>18. ReadyPart'
  BY <1>1, <1>3, <1>6, <1>8, <1>9, ReadyKept
<1>19. DeletedPart'
  <2>1. Doing({"destroy"}) => Doing({"destroy"})'
    BY <1>9, DoingKept
  <2> QED BY <1>3, <2>1 DEF DeletedPart
<1>20. DrainPart'
  <2>1. ASSUME NEW f \in Elements(stack), DrainFrame(f) PROVE DrainFrame(f)'
    <3>1. \A d \in f.cs : state'[d] = state[d]
      BY <1>6, <1>7
    <3> QED BY <1>3, <1>4, <2>1, <3>1 DEF DrainFrame
  <2>2. ASSUME NEW f, f.op = "tryCreate", f.s = NoStream PROVE DrainFrame(f)'
    BY <2>2 DEF DrainFrame, DrainOps
  <2>3. IdleTended => IdleTended'
    <3>1. (Doing({"closeIdle"}) => Doing({"closeIdle"})') /\ \A d : Tended(d) => Tended(d)'
      BY <1>9, DoingKept DEF Tended
    <3>2. \A d \in InState("Ready")' : d \in InState("Ready")
      BY <1>6, <1>8, <1>9 DEF InState
    <3> QED BY <1>4, <3>1, <3>2 DEF IdleTended
  <2>4. Doing({"drainRest"}) => purging' = <<>>
    BY <1>1, <1>3 DEF DrainPart
  <2> QED BY <1>1, <1>9, <2>1, <2>2, <2>3, <2>4, DrainGoesOn
<1> QED BY <1>10, <1>11, <1>12, <1>13, <1>14, <1>15, <1>16, <1>17, <1>18, <1>19, <1>20
        DEF Duties, LostPart

(* An attempt to connect ends without a connection. *)
LEMMA NotCreatedDuty ==
  ASSUME IInv, Duties, Running("tryCreate"), Steady, NEW f, f = CallFor("cancelExcess", Head(stack).s),
         stack' = Rest \/ (Head(stack).s # NoStream /\ stack' = <<f, User>> \o Rest),
         ~MayShed /\ ~MayFailToCreate /\ pending # <<>> /\ listed = {} => Head(stack).n = 0
  PROVE  Duties'
<1>1. stack \in Seq(Frames) /\ OrderPart /\ DrainPart /\ DemandPart
  BY DEF IInv, StackPart, Duties
<1>2. /\ Rest \in Seq(Frames) /\ Head(stack).s \in Streams \cup {NoStream}
      /\ Head(stack) \in Elements(stack) /\ Head(stack).op = "tryCreate"
      /\ Elements(stack) = {Head(stack)} \cup Elements(Rest)
  BY <1>1, RestTypes, StackFacts
<1>3. Ordinary(f) /\ f.op = "cancelExcess" /\ Ordinary(User) /\ User.op = "user"
  <2>1. "cancelExcess" \in {"cancel", "cancelExcess"}
    OBVIOUS
  <2> QED BY <1>2, <2>1, OrdinaryCalls
<1>4. /\ f \in Frames /\ User \in Frames /\ f.op # "release" /\ User.op # "release"
      /\ User.op # "lost" /\ f.op # "drainRest" /\ User.op # "drainRest" /\ "tryCreate" # "reset"
  BY <1>3 DEF Ordinary
<1>5. stack' = Rest \/ (Head(stack).s # NoStream /\ stack' = Push(f, Push(User, Rest)))
  BY <1>2, <1>4, PushForms
<1>6. /\ KeepsBut("tryCreate") /\ Sound(stack') /\ Elements(Rest) \subseteq Elements(stack')
      /\ \A g \in Elements(stack') : g.op = "release" => g \in Elements(stack)
      /\ \A g \in Elements(stack') :
           g \in Elements(stack) \/ (g.op # "drainRest" /\ Head(stack).s # NoStream)
  <2>1. CASE stack' = Rest
    BY <1>1, <2>1, PopFacts
  <2>2. CASE Head(stack).s # NoStream /\ stack' = Push(f, Push(User, Rest))
    <3>1. /\ Elements(stack) = {Head(stack)} \cup Elements(Rest) /\ Pushable(Rest)
          /\ stack' = Push(f, Push(User, Rest))
      BY <1>1, <1>4, <2>2, StackFacts
    <3>2. Pushable(Push(User, Rest)) /\ Elements(Push(User, Rest)) = {User} \cup Elements(Rest)
      BY <1>3, <1>4, <3>1, PushOn
    <3>3. Sound(stack') /\ Elements(stack') = {f} \cup ({User} \cup Elements(Rest))
      BY <1>3, <3>1, <3>2, PushOn
    <3>4. KeepsBut("tryCreate")
      BY <1>1, <3>3, CallsKept
    <3> QED BY <1>4, <2>2, <3>1, <3>3, <3>4
  <2> QED BY <1>5, <2>1, <2>2
<1>7. /\ "tryCreate" # "purge" /\ "tryCreate" # "reset" /\ "tryCreate" \notin {"lost", "release"}
      /\ "tryCreate" \notin {"close", "lost", "release"}
      /\ "tryCreate" \notin {"checkIdle", "closeIdle", "closeAll", "close", "lost"}
      /\ "tryCreate" \notin {"checkIdle", "notifyIdle"} /\ "tryCreate" # "upstreamReady"
      /\ "tryCreate" # "destroy" /\ "tryCreate" \notin {"closeIdle", "closeAll", "close", "lost"}
  OBVIOUS
<1>8. UNCHANGED <<state, on, listed>> /\ pending' = pending
  BY DEF Steady, clientVars, streamVars
<1>9. DrainPart'
  <2>1. IdleTended => IdleTended'
    BY <1>6, <1>7, <1>8, TendedKept
  <2>2. Doing({"drainRest"}) => Head(stack).s = NoStream
    BY <1>1, <1>2 DEF DrainPart, DrainFrame
  <2> QED BY <1>1, <1>6, <2>1, <2>2, SteadyDrain
<1>10. DemandPart'
  <2>1. ASSUME ~MayShed, ~MayFailToCreate, pending # <<>>, listed = {}
        PROVE  \E g \in Elements(stack') : Connecting(g)
    <3>1. PICK g \in Elements(stack) : Connecting(g)
      BY <1>1, <2>1 DEF DemandPart
    <3>2. Head(stack).n = 0 /\ Head(stack).op # "closed"
      BY <1>2, <2>1
    <3>3. ~Connecting(Head(stack))
      BY <3>2 DEF Connecting
    <3>4. g \in Elements(Rest)
      BY <1>2, <3>1, <3>3
    <3> QED BY <1>6, <3>1, <3>4
  <2> QED BY <1>8, <2>1 DEF DemandPart
<1> QED BY <1>6, <1>7, <1>9, <1>10, SteadyKeeps DEF Duties, LostPart

(* One round of tryCreateNewConnections. *)
LEMMA TryCreateDuty ==
  ASSUME IInv, Counted, Duties, TryCreateNewConnections
  PROVE  Duties'
<1> DEFINE n == Head(stack).n
           s == Head(stack).s
           created == <<TryCreate(n - 1, s)>> \o Rest
           failed == IF s = NoStream THEN Rest ELSE <<CallFor("cancelExcess", s), User>> \o Rest
<1>1. stack \in Seq(Frames) /\ OrderPart /\ DrainPart /\ PurgePart /\ DeletedPart
  BY DEF IInv, StackPart, Duties
<1>2. Running("tryCreate") /\ UNCHANGED <<streamVars, poolVars>>
  BY DEF TryCreateNewConnections
<1>3. /\ s \in Streams \cup {NoStream} /\ n \in 0..3 /\ Rest \in Seq(Frames)
      /\ Head(stack) \in Elements(stack) /\ Head(stack).op = "tryCreate"
  BY <1>1, <1>2, RestTypes
<1>4. \/ n = 0 /\ stack' = Rest /\ UNCHANGED <<clientVars, counterVars>>
      \/ n # 0 /\ TryCreateNewConnection(0, created, Rest, failed)
  BY DEF TryCreateNewConnections
<1>5. ASSUME UNCHANGED <<clientVars, counterVars>>, stack' = Rest \/ stack' = failed,
             ~MayShed /\ ~MayFailToCreate /\ pending # <<>> /\ listed = {} => n = 0
      PROVE  Duties'
  <2>1. Steady
    BY <1>2, <1>5 DEF Steady
  <2> QED BY <1>2, <1>5, <2>1, NotCreatedDuty
<1>6. ASSUME NEW c \in Clients, CreateClient(c), n # 0, TRUE \in ShouldCreateNewConnection(0),
             stack' = Rest \/ stack' = created
      PROVE  Duties'
  <2>1. n - 1 \in 0..2
    BY SMTT(30), <1>3, <1>6
  <2>2. PICK f : f = TryCreate(n - 1, s)
    OBVIOUS
  <2>3. Ordinary(f) /\ f.op = "tryCreate" /\ f.s = s
    BY <1>3, <2>1, <2>2, OrdinaryCallsOn
  <2>4. stack' = Rest \/ stack' = Push(f, Rest)
    BY <1>6, <2>2 DEF Push
  <2>5. f.op # "release" /\ "tryCreate" # "reset" /\ "tryCreate" \in {"tryCreate", "none"}
    BY <2>3
  <2>6. /\ KeepsBut("tryCreate") /\ Sound(stack')
        /\ \A g \in Elements(stack') : g = f \/ g \in Elements(stack)
    BY <1>1, <1>2, <2>3, <2>4, <2>5, PopFacts, CallFacts
  <2>7. Doing({"drainRest"}) => s = NoStream
    BY <1>1, <1>3 DEF DrainPart, DrainFrame
  <2>8. RatioHalves = 2 /\ deleted => Doing({"destroy"})
    BY <1>1, <1>6, NothingDemanded DEF PurgePart, DeletedPart
  <2> QED BY <1>2, <1>6, <2>3, <2>5, <2>6, <2>7, <2>8, CreatedDuty
<1>7. CASE n = 0 /\ stack' = Rest /\ UNCHANGED <<clientVars, counterVars>>
  BY <1>5, <1>7
<1>8. CASE n # 0 /\ TryCreateNewConnection(0, created, Rest, failed)
  <2> HIDE DEF created, failed, n, s
  <2>1. PICK wanted \in ShouldCreateNewConnection(0),
             room \in MayHaveRoom(Cardinality(held), MaxConnections) :
          \/ /\ ~wanted
             /\ stack' = Rest /\ UNCHANGED <<clientVars, counterVars>>
          \/ /\ wanted /\ MayShed
             /\ stack' = failed /\ UNCHANGED <<clientVars, counterVars>>
          \/ /\ wanted /\ (room \/ listed = {}) /\ MayFailToCreate
             /\ stack' = failed /\ UNCHANGED <<clientVars, counterVars>>
          \/ /\ wanted /\ (room \/ listed = {})
             /\ \E c \in Clients : CreateClient(c)
             /\ stack' = IF room THEN created ELSE Rest
          \/ /\ wanted /\ ~room /\ listed # {}
             /\ stack' = Rest /\ UNCHANGED <<clientVars, counterVars>>
    BY <1>8 DEF TryCreateNewConnection
  <2>2. wanted \in BOOLEAN
    <3>1. OnDemand \in BOOLEAN /\ ShouldConnect(RatioHalves, 0) \in BOOLEAN
      BY SMTT(30) DEF OnDemand, ShouldConnect
    <3>2. ShouldCreateNewConnection(0) = {OnDemand, ShouldConnect(RatioHalves, 0)}
      BY DEF ShouldCreateNewConnection
    <3> QED BY <3>1, <3>2
  <2>3. CASE ~wanted /\ stack' = Rest /\ UNCHANGED <<clientVars, counterVars>>
    <3>1. wanted = FALSE
      BY <2>2, <2>3
    <3>2. pending # <<>> => listed # {}
      BY <2>1, <3>1, QueueDemands
    <3> QED BY <1>5, <2>3, <3>2
  <2>4. CASE (MayShed \/ MayFailToCreate) /\ stack' = failed /\ UNCHANGED <<clientVars, counterVars>>
    BY <1>5, <2>4
  <2>5. CASE /\ wanted /\ (\E c \in Clients : CreateClient(c))
             /\ stack' = IF room THEN created ELSE Rest
    <3>1. wanted = TRUE
      BY <2>2, <2>5
    <3> QED BY <1>6, <1>8, <2>1, <2>5, <3>1
  <2>6. CASE listed # {} /\ stack' = Rest /\ UNCHANGED <<clientVars, counterVars>>
    BY <1>5, <2>6
  <2> QED BY <2>1, <2>3, <2>4, <2>5, <2>6
<1> QED BY <1>4, <1>7, <1>8

(* A step that changes nothing a duty is about. *)
LEMMA StutterDuty ==
  ASSUME Duties, Steady, stack' = stack
  PROVE  Duties'
<1>1. UNCHANGED <<state, on, listed>> /\ DrainPart
  BY DEF Steady, clientVars, streamVars, Duties
<1>2. KeepsBut("none")
  BY DEF KeepsBut
<1>3. /\ "none" # "purge" /\ "none" # "reset" /\ "none" \notin {"lost", "release"}
      /\ "none" \notin {"close", "lost", "release"}
      /\ "none" \notin {"checkIdle", "closeIdle", "closeAll", "close", "lost"}
      /\ "none" \notin {"checkIdle", "notifyIdle"} /\ "none" \notin {"closed", "tryCreate"}
      /\ "none" # "upstreamReady" /\ "none" # "destroy"
      /\ "none" \notin {"closeIdle", "closeAll", "close", "lost"}
  OBVIOUS
<1>4. IdleTended => IdleTended'
  BY <1>1, <1>2, <1>3, TendedKept
<1>5. DrainPart'
  BY <1>1, <1>4, SteadyDrain
<1> QED BY <1>2, <1>3, <1>5, SteadyKeeps DEF Duties, LostPart

(* A connection ahead of the next stream. *)
LEMMA PreconnectDuty ==
  ASSUME IInv, Duties, MaybePreconnect
  PROVE  Duties'
<1>1. /\ Quiescent /\ ~deleted /\ UNCHANGED <<streamVars, poolVars>>
      /\ TryCreateNewConnection(GlobalRatioHalves, <<>>, <<>>, <<>>)
  BY DEF MaybePreconnect
<1>2. stack = <<>> /\ KeepsBut("none") /\ Pushable(stack)
  BY <1>1, AtRest
<1>3. /\ stack' = stack
      /\ UNCHANGED <<clientVars, counterVars>> \/ \E c \in Clients : CreateClient(c)
  BY <1>1, <1>2 DEF TryCreateNewConnection
<1>4. CASE UNCHANGED <<clientVars, counterVars>>
  BY <1>1, <1>3, <1>4, StutterDuty DEF Steady
<1>5. ASSUME NEW c \in Clients, CreateClient(c) PROVE Duties'
  <2>1. "none" \in {"tryCreate", "none"} /\ Sound(stack')
    BY <1>2, <1>3 DEF Pushable
  <2> QED BY <1>1, <1>2, <1>3, <1>5, <2>1, CreatedDuty
<1> QED BY <1>3, <1>4, <1>5

-----------------------------------------------------------------------------
(* Steps that change one client *)

(* Everything about the other clients stays as it is. *)
OneClient(c) ==
  /\ \A d \in Clients \ {c} :
       /\ state'[d] = state[d] /\ remaining'[d] = remaining[d]
       /\ limit'[d] = limit[d] /\ configured'[d] = configured[d]
       /\ NumActiveStreams(d)' = NumActiveStreams(d)
  /\ listed' \ {c} = listed \ {c} /\ open' \ {c} = open \ {c}

(* So do the calls about them. *)
Others(c) == \A ops : \A d \in Clients \ {c} : DoingTo(ops, d) => DoingTo(ops, d)'

(* What is left to show of a step that changes one client, for that client. *)
LEMMA OneClientKeeps ==
  ASSUME IInv, Duties, NEW c \in Clients, OneClient(c), NEW op, KeepsBut(op),
         op \notin {"closeAll", "close", "lost", "release"} \/ Others(c)
  PROVE  /\ (c \in listed' /\ c \notin open' => DoingTo({"lost", "release"}, c)') => LostListed'
         /\ /\ \A f \in Elements(stack') : f.op = "release" => f \in Elements(stack) \/ f.cs = {c}
            /\ state'[c] \in {"Ready", "Busy"} => ~DoingTo({"release"}, c)'
            => LostDone'
         /\ (0 \notin Settings /\ c \in listed' =>
               /\ limit'[c] > 0 /\ configured'[c] > 0
               /\ state'[c] = "Busy" => remaining'[c] > 0
               /\ state'[c] = "Connecting" => remaining'[c] > 0 \/ DoingTo({"release"}, c)')
            => LimitPart'
         /\ (0 \notin Settings /\ c \in listed' /\ state'[c] = "Draining" /\ NumActiveStreams(c)' = 0
               => DoingTo({"close", "lost", "release"}, c)')
            => DrainedClosing'
         /\ /\ op \notin {"checkIdle", "closeIdle"} /\ draining' = draining /\ deleted' = deleted
            /\ 0 \notin Settings /\ draining /\ ~deleted /\ c \in listed' /\ state'[c] = "Ready"
                 /\ NumActiveStreams(c)' = 0
                 => Doing({"checkIdle", "closeIdle"})' \/ Tended(c)'
            => IdleClosing'
         /\ /\ op # "closeIdle"
            /\ c \in listed' /\ state'[c] = "Ready" /\ NumActiveStreams(c)' = 0
                 => Doing({"closeIdle"})' \/ Tended(c)'
            => (IdleTended => IdleTended')
         /\ /\ op # "upstreamReady" /\ (readyCallback => readyCallback') /\ (pending' # <<>> => pending # <<>>)
            /\ ~Multiplexed /\ c \in listed' /\ state'[c] = "Ready" =>
                 c \in InState("Ready") \/ readyCallback' \/ Doing({"upstreamReady"})'
            => ReadyPart'
<1>1. /\ LostListed /\ LostDone /\ LimitPart /\ DrainedClosing /\ IdleClosing /\ ReadyPart
      /\ listed \subseteq Clients /\ StackPart
  BY DEF Duties, LostPart, IInv, ClientPart, ClientTyped
<1>2. \A d \in listed' : d = c \/ (d \in listed /\ d \in Clients \ {c})
  BY <1>1 DEF OneClient
<1>3. \A d \in Clients \ {c} : d \in open <=> d \in open'
  BY DEF OneClient
<1>4. /\ \A d \in Clients \ {c} : DoingTo({"lost", "release"}, d) => DoingTo({"lost", "release"}, d)'
      /\ \A d \in Clients \ {c} : DoingTo({"release"}, d) => DoingTo({"release"}, d)'
      /\ \A d \in Clients \ {c} : DoingTo({"close", "lost", "release"}, d)
                                    => DoingTo({"close", "lost", "release"}, d)'
      /\ \A d \in Clients \ {c} : Tended(d) => Tended(d)'
  <2>1. CASE op \notin {"closeAll", "close", "lost", "release"}
    <3>1. /\ op \notin {"lost", "release"} /\ op \notin {"release"}
          /\ op \notin {"close", "lost", "release"} /\ op \notin {"closeAll", "close", "lost"}
      BY <2>1
    <3> QED BY <3>1, DoingKept DEF Tended
  <2>2. CASE Others(c)
    BY <2>2 DEF Others, Tended
  <2> QED BY <2>1, <2>2
<1>5. ASSUME c \in listed' /\ c \notin open' => DoingTo({"lost", "release"}, c)' PROVE LostListed'
  BY <1>1, <1>2, <1>3, <1>4, <1>5 DEF LostListed
<1>6. ASSUME \A f \in Elements(stack') : f.op = "release" => f \in Elements(stack) \/ f.cs = {c},
             state'[c] \in {"Ready", "Busy"} => ~DoingTo({"release"}, c)'
      PROVE  LostDone'
  <2>1. ASSUME NEW f \in Elements(stack'), f.op = "release", NEW d \in f.cs
        PROVE  state'[d] # "Ready" /\ state'[d] # "Busy"
    <3>1. CASE d = c
      <4>1. DoingTo({"release"}, c)'
        BY <2>1, <3>1 DEF DoingTo
      <4> QED BY <1>6, <3>1, <4>1
    <3>2. CASE d # c
      <4>1. f.cs # {c}
        BY <2>1, <3>2
      <4>2. f \in Elements(stack)
        BY <1>6, <2>1, <4>1
      <4>3. d \in Clients \ {c}
        BY <1>1, <2>1, <3>2, <4>2, FrameClients
      <4>4. state[d] # "Ready" /\ state[d] # "Busy"
        BY <1>1, <2>1, <4>2 DEF LostDone
      <4> QED BY <4>3, <4>4 DEF OneClient
    <3> QED BY <3>1, <3>2
  <2> QED BY <2>1 DEF LostDone
<1>7. ASSUME 0 \notin Settings /\ c \in listed' =>
               /\ limit'[c] > 0 /\ configured'[c] > 0
               /\ state'[c] = "Busy" => remaining'[c] > 0
               /\ state'[c] = "Connecting" => remaining'[c] > 0 \/ DoingTo({"release"}, c)'
      PROVE  LimitPart'
  <2>1. ASSUME 0 \notin Settings, NEW d \in listed'
        PROVE  /\ limit'[d] > 0 /\ configured'[d] > 0
               /\ state'[d] = "Busy" => remaining'[d] > 0
               /\ state'[d] = "Connecting" => remaining'[d] > 0 \/ DoingTo({"release"}, d)'
    <3>1. CASE d = c
      BY <1>7, <2>1, <3>1
    <3>2. CASE d \in listed /\ d \in Clients \ {c}
      BY <1>1, <1>4, <2>1, <3>2 DEF LimitPart, OneClient
    <3> QED BY <1>2, <2>1, <3>1, <3>2
  <2> QED BY <2>1 DEF LimitPart
<1>8. ASSUME 0 \notin Settings /\ c \in listed' /\ state'[c] = "Draining" /\ NumActiveStreams(c)' = 0
               => DoingTo({"close", "lost", "release"}, c)'
      PROVE  DrainedClosing'
  BY <1>1, <1>2, <1>4, <1>8 DEF DrainedClosing, InState, OneClient
<1>9. ASSUME op \notin {"checkIdle", "closeIdle"}, draining' = draining, deleted' = deleted,
             0 \notin Settings /\ draining /\ ~deleted /\ c \in listed' /\ state'[c] = "Ready"
               /\ NumActiveStreams(c)' = 0
               => Doing({"checkIdle", "closeIdle"})' \/ Tended(c)'
      PROVE  IdleClosing'
  <2>1. Doing({"checkIdle", "closeIdle"}) => Doing({"checkIdle", "closeIdle"})'
    BY <1>9, DoingKept
  <2> QED BY <1>1, <1>2, <1>4, <1>9, <2>1 DEF IdleClosing, InState, OneClient
<1>10. ASSUME op # "closeIdle", IdleTended,
              c \in listed' /\ state'[c] = "Ready" /\ NumActiveStreams(c)' = 0
                => Doing({"closeIdle"})' \/ Tended(c)'
       PROVE  IdleTended'
  <2>1. op \notin {"closeIdle"}
    BY <1>10
  <2>2. Doing({"closeIdle"}) => Doing({"closeIdle"})'
    BY <2>1, DoingKept
  <2> QED BY <1>1, <1>2, <1>4, <1>10, <2>2 DEF IdleTended, InState, OneClient
<1>11. ASSUME op # "upstreamReady", readyCallback => readyCallback', pending' # <<>> => pending # <<>>,
              ~Multiplexed /\ c \in listed' /\ state'[c] = "Ready" =>
                c \in InState("Ready") \/ readyCallback' \/ Doing({"upstreamReady"})'
       PROVE  ReadyPart'
  <2>1. op \notin {"upstreamReady"}
    BY <1>11
  <2>2. Doing({"upstreamReady"}) => Doing({"upstreamReady"})'
    BY <2>1, DoingKept
  <2>3. ASSUME ~Multiplexed, NEW d \in InState("Ready")'
        PROVE  d \in InState("Ready") \/ readyCallback' \/ Doing({"upstreamReady"})'
    BY <1>2, <1>11, <2>3 DEF InState, OneClient
  <2> QED BY <1>1, <1>11, <2>2, <2>3 DEF ReadyPart
<1> QED BY <1>5, <1>6, <1>7, <1>8, <1>9, <1>10, <1>11

(* A client is drained. *)
LEMMA DrainClientDuty ==
  ASSUME IInv, Duties, NEW c \in listed, DrainClient(c), on' = on, UNCHANGED poolVars,
         NEW op \in {"cancel", "cancelExcess", "none"}, KeepsBut(op),
         \A f \in Elements(stack') : f.op = "release" => f \in Elements(stack),
         0 \notin Settings /\ NumActiveStreams(c) = 0 => DoingTo({"close", "lost", "release"}, c)',
         pending' # <<>> => pending # <<>>
  PROVE  /\ LostPart' /\ LimitPart' /\ DrainedClosing' /\ IdleClosing' /\ EmptyPart'
         /\ DemandPart' /\ ReadyPart' /\ DeletedPart' /\ (IdleTended => IdleTended')
<1>1. /\ op \notin {"closeAll", "close", "lost", "release"} /\ op \notin {"lost", "release"}
      /\ op \notin {"checkIdle", "closeIdle"} /\ op # "closeIdle" /\ op # "upstreamReady"
      /\ op # "reset" /\ op # "destroy"
      /\ "Draining" \notin {"Ready", "Busy"} /\ "Draining" # "Connecting"
      /\ "Draining" # "Ready" /\ "Draining" # "Busy"
  OBVIOUS
<1>2. /\ LostListed /\ StreamsOfLostConnectionsAreReset /\ LimitPart /\ DeletedPart
      /\ ClientTyped /\ c \in Clients
  BY DEF Duties, LostPart, IInv, ClientPart, ClientTyped
<1>3. /\ state' = [state EXCEPT ![c] = "Draining"] /\ remaining' = [remaining EXCEPT ![c] = 0]
      /\ UNCHANGED <<limit, configured, listed, open>>
  BY DEF DrainClient
<1>4. /\ UNCHANGED <<draining, deleted, readyCallback>>
  BY DEF poolVars
<1>5. \A d : NumActiveStreams(d)' = NumActiveStreams(d)
  BY DEF NumActiveStreams
<1>6. OneClient(c) /\ state'[c] = "Draining"
  BY <1>2, <1>3, <1>5 DEF OneClient, ClientTyped
<1>7. c \in listed' /\ c \notin open' => DoingTo({"lost", "release"}, c)'
  BY <1>1, <1>2, <1>3, DoingKept DEF LostListed
<1>8. 0 \notin Settings => limit'[c] > 0 /\ configured'[c] > 0
  BY <1>2, <1>3 DEF LimitPart
<1>9. StreamsOfLostConnectionsAreReset' /\ DeletedPart'
  BY <1>1, <1>2, <1>3, <1>4, ResetsKept, DeletedKept
<1>10. EmptyPart' /\ DemandPart'
  <2>1. listed' # {}
    BY <1>3
  <2> QED BY <2>1 DEF EmptyPart, DemandPart
<1>11. LostListed' /\ LostDone' /\ LimitPart'
  BY <1>1, <1>2, <1>6, <1>7, <1>8, OneClientKeeps
<1>12. DrainedClosing' /\ IdleClosing' /\ (IdleTended => IdleTended') /\ ReadyPart'
  BY <1>1, <1>2, <1>4, <1>5, <1>6, OneClientKeeps
<1> QED BY <1>9, <1>10, <1>11, <1>12 DEF LostPart

(* The event loop drains a client, on a timeout or a GOAWAY. *)
LEMMA DrainEventDuty ==
  ASSUME IInv, Counted, Duties, NEW c \in Clients,
         OnConnectionDurationTimeout(c) \/ (NumActiveStreams(c) # 0 /\ OnGoAway(c))
  PROVE  Duties'
<1> DEFINE f == CallOn("close", c)
<1>1. /\ Quiescent /\ c \in listed /\ DrainClient(c) /\ UNCHANGED <<on, pending, purging>>
      /\ UNCHANGED poolVars
      /\ stack' = <<f>> \/ (stack' = <<>> /\ NumActiveStreams(c) # 0)
  BY DEF OnConnectionDurationTimeout, OnGoAway, streamVars, InState, Quiescent
<1>2. stack = <<>> /\ KeepsBut("none") /\ Elements(stack) = {} /\ Pushable(<<>>)
  BY <1>1, AtRest, PushFirst
<1>3. Ordinary(f) /\ f.op = "close" /\ f.cs = {c} /\ f \in Frames
  <2>1. "close" \in ClientOps
    BY DEF ClientOps
  <2> QED BY <2>1, OrdinaryCallsOn DEF Ordinary
<1> HIDE DEF f
<1>4. stack' = Push(f, <<>>) \/ (stack' = <<>> /\ NumActiveStreams(c) # 0)
  <2>1. stack \in Seq(Frames)
    BY DEF IInv, StackPart
  <2> QED BY <1>1, <1>3, <2>1, PushForms
<1>5. /\ Sound(stack') /\ \A g \in Elements(stack') : g = f
      /\ NumActiveStreams(c) = 0 => f \in Elements(stack')
  <2>1. CASE stack' = Push(f, <<>>)
    <3>1. Sound(Push(f, <<>>)) /\ Elements(Push(f, <<>>)) = {f} \cup Elements(<<>>)
      BY <1>2, <1>3, PushOn
    <3> QED BY <1>2, <2>1, <3>1
  <2>2. CASE stack' = <<>> /\ NumActiveStreams(c) # 0
    BY <1>2, <2>2 DEF Pushable
  <2> QED BY <1>4, <2>1, <2>2
<1>6. /\ "none" \in {"cancel", "cancelExcess", "none"} /\ f.op # "release" /\ f.op # "drainRest"
      /\ f.op \in {"close", "lost", "release"} /\ "none" # "purge"
  BY <1>3
<1>7. NumActiveStreams(c) = 0 => DoingTo({"close", "lost", "release"}, c)'
  BY <1>3, <1>5, <1>6 DEF DoingTo
<1>8. /\ LostPart' /\ LimitPart' /\ DrainedClosing' /\ IdleClosing' /\ EmptyPart'
      /\ DemandPart' /\ ReadyPart' /\ DeletedPart'
  BY <1>1, <1>2, <1>5, <1>6, <1>7, DrainClientDuty
<1>9. OrderPart' /\ PlacePart' /\ PurgePart'
  <2>1. PlacePart /\ PurgePart /\ deleted' = deleted /\ idleCallbacks' = idleCallbacks
    BY <1>1 DEF Duties, poolVars
  <2> QED BY <1>1, <1>2, <1>5, <1>6, <2>1, SoundOrder, PlaceKept, PurgeKept
<1>10. DrainPart'
  BY <1>5, <1>6 DEF DrainPart, Doing
<1> QED BY <1>8, <1>9, <1>10 DEF Duties

(* With a positive limit and a lifetime left, a client without capacity serves a stream. *)
LEMMA BusyServes ==
  ASSUME IInv, Counted, LimitPart, 0 \notin Settings, NEW c \in listed, state[c] = "Busy"
  PROVE  NumActiveStreams(c) # 0
<1>1. /\ c \in Clients /\ limit[c] \in Nat /\ remaining[c] \in Nat /\ CurrentUnusedCapacity(c) = 0
  BY DEF IInv, ClientPart, ClientTyped, Books, ClientOK
<1>2. limit[c] > 0 /\ remaining[c] > 0
  BY DEF LimitPart
<1>3. NumActiveStreams(c) \in Nat /\ UnusedCapacity(remaining[c], limit[c], NumActiveStreams(c)) = 0
  BY <1>1 DEF Counted, CurrentUnusedCapacity
<1>4. ASSUME NEW l \in Nat, NEW r \in Nat, l > 0, r > 0 PROVE UnusedCapacity(r, l, 0) # 0
  BY SMTT(30), <1>4 DEF UnusedCapacity
<1> QED BY <1>1, <1>2, <1>3, <1>4

(* drainConnectionsImpl drains one client: it serves a stream. *)
LEMMA DrainOneDuty ==
  ASSUME IInv, Counted, Duties, DrainRemainingClients, InState("Ready") \cup InState("Busy") # {}
  PROVE  Duties'
<1>1. PICK c \in InState("Ready") \cup InState("Busy") : DrainClient(c)
  BY DEF DrainRemainingClients
<1>2. /\ Running("drainRest") /\ stack' = stack /\ UNCHANGED <<on, pending, purging>>
      /\ UNCHANGED poolVars
  BY DEF DrainRemainingClients, streamVars
<1>3. /\ stack \in Seq(Frames) /\ OrderPart /\ DrainPart /\ LimitPart /\ PlacePart /\ PurgePart
      /\ stack # <<>> /\ Head(stack).op = "drainRest" /\ Head(stack) \in Elements(stack)
  BY <1>2, RestTypes DEF IInv, StackPart, Duties, Running
<1>4. Elements(stack) = {Head(stack)}
  <2>1. Rest = <<>>
    BY <1>3, OrderlyRest DEF OrderPart, Above
  <2> QED BY <1>3, <2>1, HeadAndRest, PushFirst
<1>5. c \in listed /\ (state[c] = "Ready" \/ state[c] = "Busy")
  BY <1>1 DEF InState
<1>6. /\ "drainRest" \notin {"closeIdle"} /\ "drainRest" \notin {"closeAll", "close", "lost"}
      /\ "drainRest" \in {"drainRest"} /\ "none" # "purge" /\ "none" \in {"cancel", "cancelExcess", "none"}
      /\ "drainRest" # "release" /\ "drainRest" # "tryCreate"
      /\ "drainRest" \notin {"closeAll", "close", "reset", "lost"} /\ "drainRest" \in DrainOps
  BY DEF DrainOps
<1>7. IdleTended /\ purging = <<>>
  BY <1>3, <1>6 DEF DrainPart, Doing
<1>8. 0 \notin Settings => NumActiveStreams(c) # 0
  <2>1. ASSUME state[c] = "Ready" PROVE NumActiveStreams(c) # 0
    <3>1. c \in InState("Ready")
      BY <1>5, <2>1 DEF InState
    <3> QED BY <1>3, <1>4, <1>6, <1>7, <3>1 DEF IdleTended, Tended, Doing, DoingTo
  <2> QED BY <1>3, <1>5, <2>1, BusyServes
<1>9. KeepsBut("none")
  BY <1>2 DEF KeepsBut
<1>10. /\ LostPart' /\ LimitPart' /\ DrainedClosing' /\ IdleClosing' /\ EmptyPart'
       /\ DemandPart' /\ ReadyPart' /\ DeletedPart' /\ IdleTended'
  BY <1>1, <1>2, <1>5, <1>6, <1>7, <1>8, <1>9, DrainClientDuty
<1>11. PlacePart' /\ PurgePart'
  <2>1. deleted' = deleted /\ idleCallbacks' = idleCallbacks
    BY <1>2 DEF poolVars
  <2> QED BY <1>2, <1>3, <1>6, <1>9, <2>1, PlaceKept, PurgeKept
<1>12. OrderPart'
  <2>1. \A f \in Elements(stack) : ~Fresh(f)
    BY <1>3, <1>4, <1>6 DEF Fresh
  <2> QED BY <1>2, <1>3, <2>1 DEF OrderPart
<1>13. DrainPart'
  <2>1. DrainFrame(Head(stack))'
    BY <1>2, <1>3, <1>6 DEF DrainFrame
  <2> QED BY <1>2, <1>4, <1>7, <1>10, <2>1 DEF DrainPart
<1> QED BY <1>10, <1>11, <1>12, <1>13 DEF Duties

-----------------------------------------------------------------------------
(* Steps that change the queues *)

(* The places of streams that leave a queue. *)
LEMMA PlaceShrinks ==
  ASSUME PlacePart, \A s \in Elements(purging) : on'[s] = NoClient,
         \A k \in 1..Len(purging') : \E i \in 1..Len(purging) : purging'[k] = purging[i],
         \A k, l \in 1..Len(purging') : purging'[k] = purging'[l] => k = l,
         \A k \in 1..Len(pending') : \E i \in 1..Len(pending) : pending'[k] = pending[i]
  PROVE  PlacePart'
<1>1. /\ \A s \in Elements(purging)' : s \in Elements(purging)
      /\ \A s \in Elements(pending)' : s \in Elements(pending)
  BY SMTT(30) DEF Elements
<1>2. \A i \in 1..Len(purging') : on'[purging'[i]] = NoClient
  <2>1. \A i \in 1..Len(purging') : purging'[i] \in Elements(purging)
    BY DEF Elements
  <2> QED BY <2>1
<1>3. Elements(purging)' \cap Elements(pending)' = {}
  BY <1>1 DEF PlacePart
<1> QED BY <1>2, <1>3 DEF PlacePart

(* The streams that are left when the first one is taken. *)
LEMMA TailKeeps ==
  ASSUME NEW T, NEW q \in Seq(T), q # <<>>
  PROVE  /\ \A k \in 1..Len(Tail(q)) : \E i \in 1..Len(q) : Tail(q)[k] = q[i]
         /\ (\A i, j \in 1..Len(q) : q[i] = q[j] => i = j) =>
              \A k, l \in 1..Len(Tail(q)) : Tail(q)[k] = Tail(q)[l] => k = l
<1>1. ASSUME NEW k \in 1..Len(Tail(q)) PROVE k + 1 \in 1..Len(q) /\ Tail(q)[k] = q[k + 1] /\ k \in Nat
  BY SMTT(30)
<1>2. ASSUME \A i, j \in 1..Len(q) : q[i] = q[j] => i = j,
             NEW k \in 1..Len(Tail(q)), NEW l \in 1..Len(Tail(q)), Tail(q)[k] = Tail(q)[l]
      PROVE  k = l
  <2>1. k + 1 = l + 1 /\ k \in Nat /\ l \in Nat
    BY <1>1, <1>2
  <2> QED BY SMTT(30), <2>1
<1> QED BY <1>1, <1>2

(* onPendingStreamCancel. *)
LEMMA CancelDuty ==
  ASSUME IInv, Counted, Duties, OnPendingStreamCancel
  PROVE  Duties'
<1> DEFINE g == Call("checkIdle")
<1>1. /\ stack \in Seq(Frames) /\ OrderPart /\ DrainPart /\ PlacePart /\ PurgePart
      /\ pending \in Seq(Streams) /\ purging \in Seq(Streams) /\ listed \subseteq Clients
  BY DEF IInv, StackPart, Duties, QueuePart, PoolTyped, ClientPart, ClientTyped
<1>2. PICK op \in {"cancel", "cancelExcess"} : Running(op)
  BY DEF OnPendingStreamCancel
<1>3. PICK s : s = Head(stack).s
  OBVIOUS
<1>4. /\ pending' = pending \/ pending' = Without(pending, s)
      /\ purging' = Without(purging, s) /\ on' = on /\ UNCHANGED poolVars
  BY <1>3 DEF OnPendingStreamCancel
<1>5. \/ stack' = <<g>> \o Rest /\ UNCHANGED <<clientVars, counterVars>>
      \/ \E c \in InState("Connecting") : DrainClient(c) /\ stack' = <<CallOn("close", c), g>> \o Rest
  BY DEF OnPendingStreamCancel
<1>6. Ordinary(g) /\ g.op = "checkIdle" /\ g \in Frames
  BY OrdinaryCalls DEF Ordinary
<1>7. Rest \in Seq(Frames)
  BY <1>1, <1>2, RestTypes
<1> HIDE DEF g
<1>8. /\ op # "reset" /\ op # "purge" /\ op \notin {"lost", "release"} /\ op \notin DrainOps
      /\ op \notin {"close", "lost", "release"} /\ op # "destroy" /\ op # "upstreamReady"
      /\ op \notin {"checkIdle", "closeIdle", "closeAll", "close", "lost"}
      /\ op \notin {"closed", "tryCreate"} /\ op \in {"cancel", "cancelExcess", "none"}
      /\ g.op # "release" /\ g.op # "lost" /\ g.op # "drainRest"
      /\ g.op \in {"checkIdle", "notifyIdle", "release"}
  BY <1>6 DEF DrainOps
<1>9. /\ pending' # <<>> => pending # <<>>
      /\ purging' # <<>> => purging # <<>>
      /\ deleted => pending' = pending
  <2>1. Without(<<>>, s) = <<>>
    BY PushFirst DEF Without
  <2> QED BY <1>1, <1>4, <2>1 DEF PurgePart
<1>10. PlacePart'
  <2>1. /\ \A k \in 1..Len(purging') : \E i \in 1..Len(purging) : purging'[k] = purging[i]
        /\ \A k, l \in 1..Len(purging') : purging'[k] = purging'[l] => k = l
    <3>1. \A i, j \in 1..Len(purging) : purging[i] = purging[j] => i = j
      BY <1>1 DEF PlacePart
    <3>2. /\ \A k \in 1..Len(Without(purging, s)) :
               \E i \in 1..Len(purging) : Without(purging, s)[k] = purging[i]
          /\ \A k, l \in 1..Len(Without(purging, s)) :
               Without(purging, s)[k] = Without(purging, s)[l] => k = l
      <4>1. purging \in Seq(Streams)
        BY <1>1
      <4> QED BY SMTT(30), <3>1, <4>1, WithoutKeeps
    <3> QED BY <1>4, <3>2
  <2>2. \A k \in 1..Len(pending') : \E i \in 1..Len(pending) : pending'[k] = pending[i]
    BY SMTT(30), <1>1, <1>4, WithoutKeeps
  <2>3. \A r \in Elements(purging) : on'[r] = NoClient
    BY <1>1, <1>4 DEF PlacePart, Elements
  <2> QED BY <1>1, <2>1, <2>2, <2>3, PlaceShrinks
<1>11. KeepsBut(op) => PurgePart'
  <2>1. deleted' = deleted /\ idleCallbacks' = idleCallbacks
    BY <1>4 DEF poolVars
  <2> QED BY <1>1, <1>8, <1>9, <2>1, PurgeKept
<1>12. g \in Elements(stack') => EmptyPart'
  BY <1>8 DEF EmptyPart, Doing
<1>13. (\A h \in Elements(stack') : h.op = "drainRest" => h \in Elements(stack)) => DrainPart'
  BY <1>1, <1>2, <1>8, NotDraining
<1>14. CASE stack' = <<g>> \o Rest /\ UNCHANGED <<clientVars, counterVars>>
  <2>1. stack' = Push(g, Rest) /\ UNCHANGED <<clientVars, on, poolVars>>
    BY <1>4, <1>14 DEF Push
  <2>2. /\ KeepsBut(op) /\ Sound(stack') /\ Elements(stack') = {g} \cup Elements(Rest)
        /\ \A h \in Elements(stack') : h = g \/ h \in Elements(stack)
        /\ \A h \in Elements(stack') : h.op = "release" => h \in Elements(stack)
    BY <1>1, <1>2, <1>6, <1>8, <2>1, CallFacts
  <2>3. OrderPart' /\ EmptyPart' /\ PurgePart' /\ DrainPart'
    BY <1>8, <1>11, <1>12, <1>13, <2>2, SoundOrder
  <2> QED BY <1>8, <1>9, <1>10, <2>1, <2>2, <2>3, QueueKeeps DEF Duties, LostPart
<1>15. ASSUME NEW c \in InState("Connecting"), DrainClient(c),
              stack' = <<CallOn("close", c), g>> \o Rest
       PROVE  Duties'
  <2>1. PICK f : f = CallOn("close", c)
    OBVIOUS
  <2>2. c \in listed /\ c \in Clients /\ "close" \in ClientOps
    BY <1>1 DEF InState, ClientOps
  <2>3. Ordinary(f) /\ f.op = "close" /\ f.cs = {c} /\ f \in Frames
    BY <2>1, <2>2, OrdinaryCallsOn DEF Ordinary
  <2>4. /\ f.op # "release" /\ f.op # "drainRest" /\ f.op \in {"close", "lost", "release"}
    BY <2>3
  <2>5. stack' = Push(f, Push(g, Rest))
    <3>1. f \in Frames /\ g \in Frames /\ Rest \in Seq(Frames)
      BY <1>6, <1>7, <2>3
    <3>2. <<f, g>> \o Rest = Push(f, Push(g, Rest))
      BY <3>1, PushForms
    <3> QED BY <1>15, <2>1, <3>2
  <2>6. /\ KeepsBut(op) /\ Sound(stack') /\ Elements(stack') = {f, g} \cup Elements(Rest)
        /\ \A h \in Elements(stack') : h = f \/ h = g \/ h \in Elements(stack)
        /\ \A h \in Elements(stack') : h.op = "release" => h \in Elements(stack)
    BY <1>1, <1>2, <1>6, <1>8, <2>3, <2>4, <2>5, TwoCallsFacts
  <2>7. DoingTo({"close", "lost", "release"}, c)'
    BY <2>3, <2>4, <2>6 DEF DoingTo
  <2>8. /\ LostPart' /\ LimitPart' /\ DrainedClosing' /\ IdleClosing' /\ EmptyPart'
        /\ DemandPart' /\ ReadyPart' /\ DeletedPart'
    BY <1>4, <1>8, <1>9, <1>15, <2>2, <2>6, <2>7, DrainClientDuty
  <2>9. OrderPart' /\ PurgePart' /\ DrainPart'
    BY <1>8, <1>11, <1>13, <2>4, <2>6, SoundOrder
  <2> QED BY <1>10, <2>8, <2>9 DEF Duties
<1> QED BY <1>5, <1>14, <1>15

(* One stream's failure is reported. *)
LEMMA PurgeOneDuty ==
  ASSUME IInv, Duties, PurgePendingStreams, purging # <<>>
  PROVE  Duties'
<1>1. /\ stack \in Seq(Frames) /\ OrderPart /\ DrainPart /\ PlacePart /\ PurgePart
      /\ pending \in Seq(Streams) /\ purging \in Seq(Streams)
  BY DEF IInv, StackPart, Duties, QueuePart, PoolTyped
<1>2. /\ Running("purge") /\ purging' = Tail(purging) /\ stack' = Push(User, stack)
      /\ pending' = pending /\ UNCHANGED <<clientVars, on, poolVars>>
  BY DEF PurgePendingStreams, Push
<1>3. Ordinary(User) /\ User.op = "user"
  BY OrdinaryCalls
<1>4. /\ "purge" # "tryCreate" /\ "purge" # "lost" /\ "purge" \in {"purge"} /\ User.op # "release"
      /\ User.op # "drainRest"
      /\ "none" # "purge" /\ "none" # "reset" /\ "none" \notin {"lost", "release"}
      /\ "none" \notin {"close", "lost", "release"}
      /\ "none" \notin {"checkIdle", "closeIdle", "closeAll", "close", "lost"}
      /\ "none" \notin {"checkIdle", "notifyIdle"} /\ "none" \notin {"closed", "tryCreate"}
      /\ "none" # "upstreamReady" /\ "none" # "destroy"
  BY <1>3
<1>5. Sound(stack') /\ Elements(stack') = {User} \cup Elements(stack)
  BY <1>1, <1>2, <1>3, <1>4, StackFacts, PushOn
<1>6. KeepsBut("none") /\ \A f \in Elements(stack') : f.op = "release" => f \in Elements(stack)
  BY <1>4, <1>5 DEF KeepsBut
<1>7. PurgePart'
  <2>1. deleted' = deleted /\ idleCallbacks' = idleCallbacks
    BY <1>2 DEF poolVars
  <2> QED BY <1>1, <1>2, <1>4, <1>6, <2>1, PurgeKept
<1>8. PlacePart'
  <2>1. /\ \A k \in 1..Len(purging') : \E i \in 1..Len(purging) : purging'[k] = purging[i]
        /\ \A k, l \in 1..Len(purging') : purging'[k] = purging'[l] => k = l
    <3>1. \A i, j \in 1..Len(purging) : purging[i] = purging[j] => i = j
      BY <1>1 DEF PlacePart
    <3>2. purging # <<>> /\ purging' = Tail(purging) /\ purging \in Seq(Streams)
      BY <1>1, <1>2
    <3>3. /\ \A k \in 1..Len(Tail(purging)) : \E i \in 1..Len(purging) : Tail(purging)[k] = purging[i]
          /\ \A k, l \in 1..Len(Tail(purging)) : Tail(purging)[k] = Tail(purging)[l] => k = l
      BY <3>1, <3>2, TailKeeps
    <3> QED BY <3>2, <3>3
  <2>2. \A k \in 1..Len(pending') : \E i \in 1..Len(pending) : pending'[k] = pending[i]
    BY <1>2
  <2>3. \A r \in Elements(purging) : on'[r] = NoClient
    BY <1>1, <1>2 DEF PlacePart, Elements
  <2> QED BY <1>1, <2>1, <2>2, <2>3, PlaceShrinks
<1>9. DrainPart' /\ OrderPart'
  <2>1. ~Doing({"drainRest"})
    BY <1>1 DEF DrainPart
  <2> QED BY <1>4, <1>5, <2>1, SoundOrder DEF DrainPart, Doing
<1> QED BY <1>2, <1>4, <1>6, <1>7, <1>8, <1>9, QueueKeeps DEF Duties, LostPart

(* newStreamImpl queues the stream, or refuses it. *)
LEMMA QueuedDuty ==
  ASSUME IInv, Duties, NEW s \in Streams, NewStream(s), InState("Ready") = {}
  PROVE  Duties'
<1> DEFINE f == TryCreate(3, s)
<1>1. /\ stack \in Seq(Frames) /\ OrderPart /\ DrainPart /\ PlacePart /\ PurgePart
      /\ pending \in Seq(Streams) /\ purging \in Seq(Streams)
  BY DEF IInv, StackPart, Duties, QueuePart, PoolTyped
<1>2. /\ Quiescent \/ Running("user")
      /\ FreeStream(s) /\ ~deleted /\ UNCHANGED <<clientVars, counterVars, on, purging, poolVars>>
      /\ \/ pending' = Append(pending, s) /\ stack' = <<f>> \o stack
         \/ pending' = pending /\ stack' = <<User>> \o stack
  BY DEF NewStream, MayCall
<1>3. f \in Frames /\ f.op = "tryCreate" /\ f.n = 3 /\ f.s = s /\ f.n # 0
  <2>1. 3 \in 0..3 /\ 3 # 0 /\ s \in Streams \cup {NoStream}
    BY SMTT(30)
  <2> QED BY <2>1, FrameTypes DEF TryCreate, Frame
<1> HIDE DEF f
<1>4. CASE pending' = pending /\ stack' = <<User>> \o stack
  <2>1. Ordinary(User) /\ User.op # "release" /\ stack' = Push(User, stack)
    BY <1>4, OrdinaryCalls DEF Push
  <2>2. Steady
    BY <1>2, <1>4 DEF Steady, streamVars
  <2> QED BY <1>1, <1>2, <2>1, <2>2, PushDuty
<1>5. CASE pending' = Append(pending, s) /\ stack' = <<f>> \o stack
  <2>1. stack' = Push(f, stack)
    BY <1>5 DEF Push
  <2>2. /\ f.op # "release" /\ f.op # "drainRest" /\ f.op # "destroy" /\ f.op \notin ClientOps
        /\ f.op # "lost" /\ "user" \notin DrainOps
        /\ "user" # "tryCreate" /\ "user" # "lost" /\ f.op = "tryCreate" /\ f.n # 0
        /\ "none" # "purge" /\ "none" # "reset" /\ "none" \notin {"lost", "release"}
        /\ "none" \notin {"close", "lost", "release"}
        /\ "none" \notin {"checkIdle", "closeIdle", "closeAll", "close", "lost"}
        /\ "none" \notin {"checkIdle", "notifyIdle"} /\ "none" # "destroy"
    BY <1>3 DEF ClientOps, DrainOps
  <2>3. Pushable(stack)
    <3>1. CASE Quiescent
      BY <3>1, AtRest
    <3>2. CASE Running("user")
      BY <1>1, <2>2, <3>2, StackFacts
    <3> QED BY <1>2, <3>1, <3>2
  <2>4. Elements(stack') = {f} \cup Elements(stack) /\ Orderly(stack')
    <3>1. stack # <<>> => Head(stack) \in Elements(stack)
      BY <1>1, ElementsTail
    <3>2. stack # <<>> => Above(f, Head(stack))
      BY <2>2, <2>3, <3>1 DEF Pushable, Sound, Above
    <3> QED BY <1>1, <1>3, <2>1, <2>3, <3>2, OrderlyPush, PushFacts DEF Pushable, Sound
  <2>5. OrderPart'
    <3>1. InState("Ready")' = {}
      BY <1>2 DEF InState, clientVars
    <3> QED BY <1>1, <2>2, <2>4, <3>1 DEF OrderPart
  <2>6. KeepsBut("none") /\ \A g \in Elements(stack') : g.op = "release" => g \in Elements(stack)
    BY <2>2, <2>4 DEF KeepsBut
  <2>7. DrainPart'
    BY <1>1, <1>2, <2>2, <2>4, NotDraining
  <2>8. PurgePart'
    <3>1. deleted' = deleted /\ idleCallbacks' = idleCallbacks
      BY <1>2 DEF poolVars
    <3> QED BY <1>1, <1>2, <2>2, <2>6, <3>1, PurgeKept
  <2>9. PlacePart'
    <3>1. Elements(pending') = Elements(pending) \cup {s}
      <4>1. /\ Append(pending, s) = pending \o <<s>> /\ <<s>> \in Seq(Streams)
            /\ pending \in Seq(Streams)
        BY SMTT(30), <1>1
      <4>2. Elements(pending \o <<s>>) = Elements(pending) \cup Elements(<<s>>)
        <5> DEFINE q == <<s>>
        <5>1. pending \in Seq(Streams) /\ q \in Seq(Streams)
          BY <4>1
        <5> HIDE DEF q
        <5>2. Elements(pending \o q) = Elements(pending) \cup Elements(q)
          BY <5>1, ElementsConcat
        <5> QED BY <5>2 DEF q
      <4> QED BY <1>5, <4>1, <4>2, ElementsSmall
    <3>2. s \notin Elements(purging) /\ Elements(purging)' = Elements(purging)
      BY <1>2 DEF FreeStream, Elements
    <3>3. Elements(purging) \cap Elements(pending') = {}
      BY <1>1, <3>1, <3>2 DEF PlacePart
    <3> QED BY <1>1, <1>2, <3>2, <3>3 DEF PlacePart
  <2>10. DemandPart'
    BY <2>2, <2>4 DEF DemandPart, Connecting
  <2>11. ReadyPart'
    <3>1. InState("Ready")' = {}
      BY <1>2 DEF InState, clientVars
    <3> QED BY <3>1 DEF ReadyPart
  <2>12. EmptyPart'
    <3>1. pending' # <<>>
      BY SMTT(30), <1>1, <1>5
    <3> QED BY <3>1 DEF EmptyPart
  <2> QED BY <1>2, <2>2, <2>5, <2>6, <2>7, <2>8, <2>9, <2>10, <2>11, <2>12, QueueKeeps
          DEF Duties, LostPart
<1> QED BY <1>2, <1>4, <1>5

(* Streams on a lost connection that is not the innermost call are about to be reset. *)
LEMMA ResetAbove ==
  ASSUME stack \in Seq(Frames), Orderly(stack), Multiplexed, NEW f \in Elements(stack),
         f.op = "lost", Head(stack).op # "lost"
  PROVE  \E g \in Elements(stack) : g.op = "reset" /\ g.cs = f.cs
<1>1. PICK i \in 1..Len(stack) : f = stack[i]
  BY DEF Elements
<1>2. i \in Nat /\ i # 1 /\ i - 1 \in 1..(Len(stack) - 1) /\ i - 1 \in 1..Len(stack) /\ (i - 1) + 1 = i
  <2>1. Head(stack) = stack[1]
    BY SMTT(30), <1>1
  <2>2. i # 1
    BY <1>1, <2>1
  <2> QED BY SMTT(30), <2>2
<1>3. Above(stack[i - 1], stack[(i - 1) + 1])
  BY <1>2 DEF Orderly
<1>4. stack[i - 1].op = "reset" /\ stack[i - 1].cs = f.cs
  BY <1>1, <1>2, <1>3 DEF Above
<1> QED BY <1>2, <1>4 DEF Elements

(* A stream attached to a lost HTTP/2 connection is going to be reset. *)
LEMMA ReadyOnLost ==
  ASSUME IInv, Duties, NEW c \in InState("Ready"), c \notin open,
         Quiescent \/ Running("user") \/ Running("upstreamReady")
  PROVE  /\ Tended(c) /\ ~DoingTo({"release"}, c)
         /\ Multiplexed => \E g \in Elements(stack) : g.op = "reset" /\ c \in g.cs
<1>1. /\ stack \in Seq(Frames) /\ Orderly(stack) /\ LostListed /\ LostDone /\ c \in listed
      /\ state[c] = "Ready"
  BY DEF IInv, StackPart, Duties, OrderPart, LostPart, InState
<1>2. /\ "release" \in {"release"} /\ "lost" \in {"closeAll", "close", "lost"}
      /\ "user" # "lost" /\ "upstreamReady" # "lost"
      /\ \A x : x \in {"release"} <=> x = "release"
      /\ \A x \in {"lost", "release"} : x = "lost" \/ x = "release"
  OBVIOUS
<1>3. ~DoingTo({"release"}, c)
  BY <1>1, <1>2 DEF LostDone, DoingTo
<1>4. PICK f \in Elements(stack) : f.op \in {"lost", "release"} /\ c \in f.cs
  BY <1>1 DEF LostListed, DoingTo
<1>5. f.op = "lost"
  BY <1>2, <1>3, <1>4 DEF DoingTo
<1>6. Head(stack).op # "lost"
  BY <1>2, <1>4, AtRest DEF Running
<1>7. Multiplexed => \E g \in Elements(stack) : g.op = "reset" /\ g.cs = f.cs
  BY <1>1, <1>5, <1>6, ResetAbove
<1> QED BY <1>2, <1>3, <1>4, <1>5, <1>7 DEF Tended, DoingTo

(* attachStreamToClient gives a stream to a ready client, or refuses it. *)
LEMMA AttachDuty ==
  ASSUME IInv, Counted, Counted', Duties, NEW c \in InState("Ready"), NEW s \in Streams, NEW rest,
         AttachStreamToClient(c, s, rest), UNCHANGED <<purging, poolVars>>,
         Quiescent \/ Running("user") \/ Running("upstreamReady"),
         on[s] = NoClient, s \notin Elements(purging), Sound(stack'), KeepsBut("none"),
         \A f \in Elements(stack') : f \in Elements(stack) \/ (f.op # "release" /\ f.op # "drainRest"),
         pending' # <<>> => pending # <<>>, deleted => pending' = pending,
         \A k \in 1..Len(pending') : \E i \in 1..Len(pending) : pending'[k] = pending[i]
  PROVE  Duties'
<1>1. /\ PurgePart /\ PlacePart /\ LostListed /\ StreamsOfLostConnectionsAreReset /\ LimitPart
      /\ DrainPart /\ DeletedPart /\ StackPart /\ ClientTyped /\ c \in Clients
      /\ c \in listed /\ state[c] = "Ready" /\ LostDone
  BY DEF Duties, LostPart, IInv, ClientPart, ClientTyped, InState
<1>2. UNCHANGED <<limit, configured, listed, open>>
  BY DEF AttachStreamToClient
<1>3. UNCHANGED <<draining, deleted, idleCallbacks, readyCallback>> /\ purging' = purging
  BY DEF poolVars
<1>4. /\ "none" # "purge" /\ "none" # "reset" /\ "none" \notin {"lost", "release"}
      /\ "none" \notin {"close", "lost", "release"}
      /\ "none" \notin {"checkIdle", "closeIdle", "closeAll", "close", "lost"}
      /\ "none" \notin {"checkIdle", "closeIdle"} /\ "none" # "closeIdle"
      /\ "none" \notin {"closeAll", "close", "lost", "release"} /\ "none" \notin {"release"}
      /\ "none" # "destroy" /\ "none" # "upstreamReady"
      /\ "none" \notin {"closed", "tryCreate"}
      /\ "user" \notin DrainOps /\ "upstreamReady" \notin DrainOps
      /\ "Ready" # "Connecting" /\ "Draining" # "Connecting" /\ "Busy" # "Connecting"
      /\ "Draining" # "Busy" /\ "Ready" # "Busy"
  BY DEF DrainOps
<1>5. /\ OrderPart' /\ PurgePart' /\ DrainPart' /\ DeletedPart' /\ EmptyPart' /\ DemandPart'
  <2>1. listed' # {}
    BY <1>1, <1>2
  <2>2. DrainPart'
    BY <1>1, <1>4, NotDraining DEF StackPart
  <2>3. OrderPart' /\ PurgePart' /\ DeletedPart'
    BY <1>1, <1>2, <1>3, <1>4, SoundOrder, PurgeKept, DeletedKept
  <2> QED BY <2>1, <2>2, <2>3 DEF EmptyPart, DemandPart
<1>6. \/ /\ remaining' = [remaining EXCEPT ![c] = @ - 1]
         /\ state' = [state EXCEPT ![c] =
                        IF remaining[c] = 1 THEN "Draining"
                        ELSE IF CurrentUnusedCapacity(c) = 1 THEN "Busy" ELSE @]
         /\ on' = [on EXCEPT ![s] = c]
      \/ UNCHANGED <<remaining, state, on>> /\ UNCHANGED <<clientVars, on, poolVars>>
  BY DEF AttachStreamToClient, clientVars
<1>7. PlacePart'
  <2>1. \A r \in Elements(purging) : on'[r] = NoClient
    <3>1. \A r \in Elements(purging) : on[r] = NoClient /\ r # s
      <4>1. \A i \in 1..Len(purging) : on[purging[i]] = NoClient
        BY <1>1 DEF PlacePart
      <4>2. \A r \in Elements(purging) : on[r] = NoClient
        BY SMTT(30), <4>1 DEF Elements
      <4> QED BY <4>2
    <3>2. \A r : on[r] = NoClient /\ r # s => on'[r] = NoClient \/ r \notin Streams
      BY <1>1, <1>6 DEF ClientTyped
    <3>3. Elements(purging) \subseteq Streams
      BY SMTT(30) DEF IInv, QueuePart, PoolTyped, Elements
    <3> QED BY <3>1, <3>2, <3>3
  <2> QED BY <1>1, <1>3, <2>1, PlaceShrinks DEF PlacePart
<1>8. CASE UNCHANGED <<remaining, state, on>> /\ UNCHANGED <<clientVars, on, poolVars>>
  BY <1>4, <1>5, <1>7, <1>8, QueueKeeps DEF Duties, LostPart
<1>9. CASE /\ remaining' = [remaining EXCEPT ![c] = @ - 1]
           /\ state' = [state EXCEPT ![c] =
                          IF remaining[c] = 1 THEN "Draining"
                          ELSE IF CurrentUnusedCapacity(c) = 1 THEN "Busy" ELSE @]
           /\ on' = [on EXCEPT ![s] = c]
  <2>1. /\ on'[s] = c /\ \A r \in Streams : r # s => on'[r] = on[r]
        /\ remaining'[c] = remaining[c] - 1
        /\ state'[c] \in {"Draining", "Busy", "Ready"}
        /\ state'[c] = "Busy" => remaining[c] # 1
        /\ \A d \in Clients \ {c} : state'[d] = state[d] /\ remaining'[d] = remaining[d]
    BY <1>1, <1>9 DEF ClientTyped
  <2>2. ASSUME NEW d \in Clients \ {c} PROVE NumActiveStreams(d)' = NumActiveStreams(d)
    <3>1. on[s] # d /\ on'[s] # d
      BY <2>1, <2>2, ConnPoolAssumption
    <3>2. {r \in Streams : on'[r] = d} = {r \in Streams : on[r] = d}
      BY <2>1, <3>1
    <3> QED BY <3>2 DEF NumActiveStreams
  <2>3. OneClient(c)
    BY <1>2, <2>1, <2>2 DEF OneClient
  <2>4. NumActiveStreams(c)' # 0
    BY <1>1, <2>1 DEF Counted
  <2>5. state'[c] = "Busy" => remaining'[c] > 0
    <3>1. remaining[c] \in Nat /\ limit[c] \in Nat /\ NumActiveStreams(c) \in Nat
      BY <1>1 DEF ClientTyped, Counted
    <3>2. UnusedCapacity(remaining[c], limit[c], NumActiveStreams(c)) > 0
      BY <1>1 DEF IInv, ClientPart, Books, ClientOK, CurrentUnusedCapacity
    <3>3. ASSUME NEW r \in Nat, NEW l \in Nat, NEW a \in Nat, UnusedCapacity(r, l, a) > 0, r # 1
          PROVE  r - 1 > 0
      BY SMTT(30), <3>3 DEF UnusedCapacity
    <3> QED BY <2>1, <3>1, <3>2, <3>3
  <2>6. ~DoingTo({"release"}, c)'
    <3>1. ~DoingTo({"release"}, c)
      BY <1>1 DEF LostDone, DoingTo
    <3>2. \A x \in {"release"} : x = "release"
      OBVIOUS
    <3> QED BY <3>1, <3>2 DEF DoingTo
  <2>7. c \in listed' /\ c \notin open' => DoingTo({"lost", "release"}, c)'
    BY <1>1, <1>2, <1>4, DoingKept DEF LostListed
  <2>8. state'[c] # "Connecting" /\ (0 \notin Settings => limit'[c] > 0 /\ configured'[c] > 0)
    BY <1>1, <1>2, <1>4, <2>1 DEF LimitPart
  <2>9. LostListed' /\ LostDone' /\ LimitPart'
    BY <1>1, <1>4, <2>3, <2>5, <2>6, <2>7, <2>8, OneClientKeeps
  <2>10. DrainedClosing' /\ IdleClosing' /\ ReadyPart'
    BY <1>1, <1>3, <1>4, <2>3, <2>4, OneClientKeeps
  <2>11. StreamsOfLostConnectionsAreReset'
    <3>1. \A g \in Elements(stack) : g.op = "reset" => g \in Elements(stack)'
      BY <1>4 DEF KeepsBut
    <3>2. Multiplexed /\ c \notin open => \E g \in Elements(stack) : g.op = "reset" /\ c \in g.cs
      BY ReadyOnLost
    <3>3. ASSUME Multiplexed, NEW r \in Streams, on'[r] # NoClient, on'[r] \notin open'
          PROVE  \E g \in Elements(stack)' : g.op = "reset" /\ on'[r] \in g.cs
      <4>1. CASE r = s
        BY <1>2, <2>1, <3>1, <3>2, <3>3, <4>1
      <4>2. CASE r # s
        BY <1>1, <1>2, <2>1, <3>1, <3>3, <4>2 DEF StreamsOfLostConnectionsAreReset
      <4> QED BY <4>1, <4>2
    <3> QED BY <3>3 DEF StreamsOfLostConnectionsAreReset
  <2> QED BY <1>5, <1>7, <2>9, <2>10, <2>11 DEF Duties, LostPart
<1> QED BY <1>6, <1>8, <1>9

(* onUpstreamReady gives the oldest pending stream to a ready client. *)
LEMMA ServeDuty ==
  ASSUME IInv, Counted, Counted', Duties, OnUpstreamReady, pending # <<>>, InState("Ready") # {}
  PROVE  Duties'
<1>1. PICK c \in InState("Ready") : AttachStreamToClient(c, Head(pending), stack)
  BY DEF OnUpstreamReady
<1>2. /\ Running("upstreamReady") /\ pending' = Tail(pending) /\ UNCHANGED <<purging, poolVars>>
      /\ stack' = <<User>> \o stack
  BY <1>1 DEF OnUpstreamReady, AttachStreamToClient
<1>3. /\ stack \in Seq(Frames) /\ pending \in Seq(Streams) /\ OrderPart
      /\ \A i \in 1..Len(pending) : on[pending[i]] = NoClient
      /\ PurgePart /\ Elements(purging) \cap Elements(pending) = {}
  BY DEF IInv, StackPart, QueuePart, PoolTyped, Duties, PurgePart, PlacePart
<1>4. /\ Head(pending) \in Streams /\ Head(pending) \in Elements(pending)
  BY <1>3, ElementsTail
<1>5. on[Head(pending)] = NoClient
  <2>1. Head(pending) = pending[1] /\ 1 \in 1..Len(pending)
    BY SMTT(30), <1>3
  <2> QED BY <1>3, <2>1
<1>6. /\ Sound(stack') /\ Elements(stack') = {User} \cup Elements(stack)
  <2>1. "upstreamReady" # "tryCreate" /\ "upstreamReady" # "lost"
    OBVIOUS
  <2>2. Pushable(stack)
    BY <1>2, <1>3, <2>1, StackFacts
  <2> QED BY <1>2, <2>2, PushOn, OrdinaryCalls DEF Push
<1>7. /\ KeepsBut("none")
      /\ \A f \in Elements(stack') : f \in Elements(stack) \/ (f.op # "release" /\ f.op # "drainRest")
  BY <1>6, OrdinaryCalls DEF KeepsBut
<1>8. \A k \in 1..Len(pending') : \E i \in 1..Len(pending) : pending'[k] = pending[i]
  <2> DEFINE q == Tail(pending)
  <2>1. \A k \in 1..Len(q) : \E i \in 1..Len(pending) : q[k] = pending[i]
    BY <1>3, TailKeeps
  <2>2. pending' = q
    BY <1>2
  <2> HIDE DEF q
  <2> QED BY <2>1, <2>2
<1>9. Head(pending) \notin Elements(purging) /\ (deleted => pending' = pending)
  BY <1>3, <1>4 DEF PurgePart
<1> QED BY <1>1, <1>2, <1>4, <1>5, <1>6, <1>7, <1>8, <1>9, AttachDuty

(* newStreamImpl gives the stream to a ready client. *)
LEMMA TakenDuty ==
  ASSUME IInv, Counted, Counted', Duties, NEW s \in Streams, NewStream(s), InState("Ready") # {}
  PROVE  Duties'
<1> DEFINE t == TryCreate(3, NoStream)
<1>1. PICK c \in InState("Ready") : AttachStreamToClient(c, s, <<t>> \o stack) /\ pending' = pending
  BY DEF NewStream
<1>2. /\ MayCall /\ UNCHANGED <<purging, poolVars>> /\ FreeStream(s)
      /\ stack' = <<User>> \o (<<t>> \o stack)
  BY <1>1 DEF NewStream, AttachStreamToClient
<1>3. /\ stack \in Seq(Frames) /\ OrderPart
  BY DEF IInv, StackPart, Duties
<1>4. Ordinary(t) /\ t.op = "tryCreate" /\ "tryCreate" # "lost"
  BY OrdinaryCallsOn
<1> HIDE DEF t
<1>5. Quiescent \/ Running("user")
  BY <1>2 DEF MayCall
<1>6. Pushable(stack)
  <2>1. CASE Quiescent
    BY <2>1, AtRest
  <2>2. CASE Running("user")
    <3>1. "user" # "tryCreate" /\ "user" # "lost"
      OBVIOUS
    <3> QED BY <1>3, <2>2, <3>1, StackFacts
  <2> QED BY <1>5, <2>1, <2>2
<1>7. Pushable(Push(t, stack)) /\ Elements(Push(t, stack)) = {t} \cup Elements(stack)
  BY <1>4, <1>6, PushOn
<1>8. Sound(stack') /\ Elements(stack') = {User} \cup ({t} \cup Elements(stack))
  BY <1>2, <1>7, PushOn, OrdinaryCalls DEF Push
<1>9. /\ KeepsBut("none")
      /\ \A f \in Elements(stack') : f \in Elements(stack) \/ (f.op # "release" /\ f.op # "drainRest")
  BY <1>4, <1>8, OrdinaryCalls DEF KeepsBut
<1>10. on[s] = NoClient /\ s \notin Elements(purging)
  BY <1>2 DEF FreeStream
<1> QED BY <1>1, <1>2, <1>5, <1>8, <1>9, <1>10, AttachDuty

-----------------------------------------------------------------------------
(* Streams that end *)

(* The calls that onStreamClosed adds to those that follow it. *)
LEMMA ClosedStack ==
  ASSUME NEW c \in Clients, NEW s, NEW rest, Pushable(rest), OnStreamClosed(c, s, rest)
  PROVE  /\ Sound(stack') /\ Elements(rest) \subseteq Elements(stack')
         /\ \A f \in Elements(stack') : f \in Elements(rest) \/ f.op \in {"close", "upstreamReady"}
         /\ state[c] = "Draining" /\ NumActiveStreams(c) - 1 = 0 => DoingTo({"close", "lost", "release"}, c)'
<1> DEFINE f == CallOn("close", c)
           g == Call("upstreamReady")
<1>1. /\ Ordinary(f) /\ f.op = "close" /\ c \in f.cs
  <2>1. "close" \in ClientOps
    BY DEF ClientOps
  <2>2. f.cs = {c}
    BY <2>1, OrdinaryCallsOn
  <2> QED BY <2>1, <2>2, OrdinaryCallsOn
<1>2. Ordinary(g) /\ g.op = "upstreamReady"
  BY OrdinaryCalls
<1>3. \/ stack' = <<f>> \o rest
      \/ (stack' = <<g>> \o rest \/ stack' = <<>> \o rest)
           /\ ~(state[c] = "Draining" /\ NumActiveStreams(c) - 1 = 0)
  BY DEF OnStreamClosed
<1> HIDE DEF f, g
<1>4. <<>> \o rest = rest
  <2>1. rest \in Seq(Frames) /\ f \in Frames
    BY <1>1 DEF Pushable, Sound, Ordinary
  <2> QED BY <2>1, PushForms
<1>5. CASE stack' = <<f>> \o rest
  <2>1. Sound(stack') /\ Elements(stack') = {f} \cup Elements(rest)
    BY <1>1, <1>5, PushOn DEF Push
  <2>2. DoingTo({"close", "lost", "release"}, c)'
    BY <1>1, <2>1 DEF DoingTo
  <2> QED BY <1>1, <2>1, <2>2
<1>6. CASE stack' = <<g>> \o rest /\ ~(state[c] = "Draining" /\ NumActiveStreams(c) - 1 = 0)
  <2>1. Sound(stack') /\ Elements(stack') = {g} \cup Elements(rest)
    BY <1>2, <1>6, PushOn DEF Push
  <2> QED BY <1>2, <1>6, <2>1
<1>7. CASE stack' = <<>> \o rest /\ ~(state[c] = "Draining" /\ NumActiveStreams(c) - 1 = 0)
  BY <1>4, <1>7 DEF Pushable
<1> QED BY <1>3, <1>5, <1>6, <1>7

(* onStreamClosed.  A client that becomes idle is looked at again, unless  *)
(* its connection is already closed, and an HTTP/1 pool serves its queue   *)
(* later.                                                                  *)
LEMMA StreamClosedDuty ==
  ASSUME IInv, Duties, NEW c \in Clients, NEW s \in Streams, on[s] = c, NEW rest,
         OnStreamClosed(c, s, rest), NumActiveStreams(c)' = NumActiveStreams(c) - 1,
         UNCHANGED <<pending, purging, draining, deleted, idleCallbacks>>,
         readyCallback => readyCallback', ~Doing({"drainRest"}),
         Pushable(rest), Elements(stack) \subseteq Elements(rest),
         \A f \in Elements(rest) : f \in Elements(stack) \/ f.op \in {"user", "checkIdle"},
         c \in listed => c \notin open \/ \E f \in Elements(rest) : f.op = "checkIdle",
         ~Multiplexed => c \notin listed \/ readyCallback'
  PROVE  Duties'
<1>1. /\ PurgePart /\ PlacePart /\ LostListed /\ StreamsOfLostConnectionsAreReset /\ LimitPart
      /\ LostDone /\ EmptyPart /\ DemandPart /\ DeletedPart /\ ClientTyped
  BY DEF Duties, LostPart, IInv, ClientPart
<1>2. /\ UNCHANGED <<remaining, limit, configured, listed, open>>
      /\ on' = [on EXCEPT ![s] = NoClient]
      /\ state' = [state EXCEPT ![c] = IF state[c] = "Busy" /\ UnusedCapacity(remaining[c], limit[c], NumActiveStreams(c) - 1) > 0
                                         THEN "Ready" ELSE @]
  BY DEF OnStreamClosed
<1>3. /\ \A d \in Clients \ {c} : state'[d] = state[d]
      /\ state'[c] = state[c] \/ (state[c] = "Busy" /\ state'[c] = "Ready")
      /\ on'[s] = NoClient /\ \A r \in Streams : r # s => on'[r] = on[r]
  BY <1>1, <1>2 DEF ClientTyped
<1>4. /\ Sound(stack') /\ Elements(stack) \subseteq Elements(stack')
      /\ \A f \in Elements(stack') : f \in Elements(stack) \/ f.op \in {"close", "upstreamReady", "user", "checkIdle"}
      /\ state[c] = "Draining" /\ NumActiveStreams(c)' = 0 => DoingTo({"close", "lost", "release"}, c)'
  BY ClosedStack
<1>5. KeepsBut("none")
  BY <1>4 DEF KeepsBut
<1>6. /\ "none" # "purge" /\ "none" # "reset" /\ "none" \notin {"lost", "release"}
      /\ "none" \notin {"checkIdle", "closeIdle"} /\ "none" \notin {"checkIdle", "notifyIdle"}
      /\ "none" \notin {"closeAll", "close", "lost", "release"} /\ "none" \notin {"release"}
      /\ "none" # "destroy" /\ "none" # "upstreamReady" /\ "none" \notin {"closed", "tryCreate"}
      /\ "none" \notin {"closeAll", "close", "lost"}
  OBVIOUS
<1>7. /\ \A f \in Elements(stack') : f.op = "release" => f \in Elements(stack)
      /\ \A f \in Elements(stack') : f.op = "drainRest" => f \in Elements(stack)
  BY <1>4
<1>8. OneClient(c)
  <2>1. ASSUME NEW d \in Clients \ {c} PROVE NumActiveStreams(d)' = NumActiveStreams(d)
    <3>1. on[s] # d /\ on'[s] # d
      BY <1>3, ConnPoolAssumption
    <3>2. {r \in Streams : on'[r] = d} = {r \in Streams : on[r] = d}
      BY <1>3, <3>1
    <3> QED BY <3>2 DEF NumActiveStreams
  <2> QED BY <1>2, <1>3, <2>1 DEF OneClient
<1>9. state'[c] \in {"Ready", "Busy"} => state[c] \in {"Ready", "Busy"}
  BY <1>3
<1>10. state'[c] \in {"Ready", "Busy"} => ~DoingTo({"release"}, c) /\ ~DoingTo({"release"}, c)'
  <2>1. \A x \in {"release"} : x = "release"
    OBVIOUS
  <2>2. ASSUME state'[c] \in {"Ready", "Busy"} PROVE ~DoingTo({"release"}, c)
    BY <1>1, <1>9, <2>1, <2>2 DEF LostDone, DoingTo
  <2> QED BY <1>7, <2>1, <2>2 DEF DoingTo
<1>11. c \in listed' /\ c \notin open' => DoingTo({"lost", "release"}, c)'
  BY <1>1, <1>2, <1>5, <1>6, DoingKept DEF LostListed
<1>12. ASSUME c \in listed', state'[c] = "Ready" PROVE Doing({"checkIdle", "closeIdle"})' \/ Tended(c)'
  <2>1. CASE \E f \in Elements(rest) : f.op = "checkIdle"
    <3>1. Elements(rest) \subseteq Elements(stack')
      BY ClosedStack
    <3> QED BY <2>1, <3>1 DEF Doing
  <2>2. CASE c \notin open
    <3>1. DoingTo({"lost", "release"}, c) /\ ~DoingTo({"release"}, c)
      BY <1>1, <1>2, <1>10, <1>12, <2>2 DEF LostListed
    <3>2. Tended(c)
      BY <3>1 DEF DoingTo, Tended
    <3> QED BY <1>5, <1>6, <3>2, DoingKept DEF Tended
  <2> QED BY <1>2, <1>12, <2>1, <2>2
<1>13. LostListed' /\ LostDone'
  BY <1>5, <1>6, <1>7, <1>8, <1>10, <1>11, OneClientKeeps
<1>14. LimitPart'
  <2>1. 0 \notin Settings /\ c \in listed' =>
          /\ limit'[c] > 0 /\ configured'[c] > 0
          /\ state'[c] = "Busy" => remaining'[c] > 0
          /\ state'[c] = "Connecting" => remaining'[c] > 0 \/ DoingTo({"release"}, c)'
    BY <1>1, <1>2, <1>3, <1>5, <1>6, DoingKept DEF LimitPart
  <2> QED BY <1>5, <1>6, <1>8, <2>1, OneClientKeeps
<1>15. DrainedClosing'
  <2>1. state'[c] = "Draining" => state[c] = "Draining"
    BY <1>3
  <2> QED BY <1>4, <1>5, <1>6, <1>8, <2>1, OneClientKeeps
<1>16. IdleClosing' /\ ReadyPart'
  <2>1. ~Multiplexed /\ c \in listed' /\ state'[c] = "Ready" => readyCallback'
    BY <1>2
  <2> QED BY <1>5, <1>6, <1>8, <1>12, <2>1, OneClientKeeps
<1>17. StreamsOfLostConnectionsAreReset' /\ PurgePart' /\ OrderPart' /\ EmptyPart' /\ DemandPart' /\ DeletedPart'
  <2>1. open \subseteq open' /\ \A r \in Streams : on'[r] = on[r] \/ on'[r] = NoClient
    BY <1>2, <1>3
  <2>2. StreamsOfLostConnectionsAreReset' /\ PurgePart'
    BY <1>1, <1>5, <1>6, <2>1, ResetsKept, PurgeKept
  <2>3. EmptyPart' /\ DemandPart' /\ DeletedPart'
    BY <1>1, <1>2, <1>5, <1>6, EmptyKept, DemandKept, DeletedKept
  <2> QED BY <1>4, <2>2, <2>3, SoundOrder
<1>18. PlacePart'
  <2>1. \A i \in 1..Len(purging) : on[purging[i]] = NoClient /\ purging[i] \in Streams
    BY SMTT(30), <1>1 DEF PlacePart, IInv, QueuePart, PoolTyped
  <2>2. \A i \in 1..Len(purging) : on'[purging[i]] = NoClient
    BY <1>3, <2>1
  <2> QED BY <1>1, <2>2 DEF PlacePart
<1>19. DrainPart'
  <2>1. ~Doing({"drainRest"})'
    <3>1. \A x \in {"drainRest"} : x = "drainRest"
      OBVIOUS
    <3> QED BY <1>7, <3>1 DEF Doing
  <2> QED BY <2>1 DEF DrainPart
<1> QED BY <1>13, <1>14, <1>15, <1>16, <1>17, <1>18, <1>19 DEF Duties, LostPart

(* A stream of an HTTP/2 connection ends, or is reset because the          *)
(* connection is lost.                                                     *)
LEMMA StreamDestroyedDuty ==
  ASSUME IInv, Counted, Duties, Multiplexed, NEW c \in Clients, NEW s \in Streams, on[s] = c, NEW rest,
         \/ MayCall /\ rest = stack
         \/ Running("reset") /\ c = TheClient /\ rest = <<User>> \o stack,
         OnStreamDestroy(s, rest), NumActiveStreams(c)' = NumActiveStreams(c) - 1
  PROVE  Duties'
<1> DEFINE g == Call("checkIdle")
<1>1. /\ stack \in Seq(Frames) /\ OrderPart /\ DrainPart
  BY DEF IInv, StackPart, Duties
<1>2. Ordinary(g) /\ g.op = "checkIdle" /\ Ordinary(User) /\ User.op = "user" /\ "checkIdle" # "lost"
  BY OrdinaryCalls
<1>3. PICK q : /\ q = (IF ClosedWithActiveRq(c) THEN <<>> ELSE <<g>>) \o rest
               /\ OnStreamClosed(c, s, q) /\ UNCHANGED <<pending, purging, poolVars>>
  BY DEF OnStreamDestroy
<1>4. \/ q = <<g>> \o rest \/ (q = <<>> \o rest /\ c \notin open)
  BY <1>3 DEF ClosedWithActiveRq
<1> HIDE DEF g
<1>5. /\ "user" # "tryCreate" /\ "user" # "lost" /\ "reset" # "tryCreate" /\ "reset" # "lost"
      /\ "user" \notin DrainOps /\ "reset" \in ClientOps
  BY DEF DrainOps, ClientOps
<1>6. /\ Pushable(rest) /\ Elements(stack) \subseteq Elements(rest)
      /\ \A f \in Elements(rest) : f \in Elements(stack) \/ f.op = "user"
  <2>1. CASE MayCall /\ rest = stack
    <3>1. Quiescent \/ Running("user")
      BY <2>1 DEF MayCall
    <3>2. Pushable(stack)
      BY <1>1, <1>5, <3>1, AtRest, StackFacts
    <3> QED BY <2>1, <3>2
  <2>2. CASE Running("reset") /\ rest = <<User>> \o stack
    <3>1. Pushable(stack)
      BY <1>1, <1>5, <2>2, StackFacts
    <3>2. Pushable(rest) /\ Elements(rest) = {User} \cup Elements(stack)
      BY <1>2, <1>5, <2>2, <3>1, PushOn DEF Push
    <3> QED BY <1>2, <3>2
  <2> QED BY <2>1, <2>2
<1>7. ~Doing({"drainRest"})
  <2>1. CASE MayCall
    <3>1. Quiescent \/ Running("user")
      BY <2>1 DEF MayCall
    <3> QED BY <1>1, <1>5, <3>1, Undrained
  <2>2. CASE Running("reset") /\ c = TheClient
    <3>1. Head(stack) \in Elements(stack) /\ Head(stack).op = "reset" /\ c \in Head(stack).cs
      BY <1>1, <1>5, <2>2, RestTypes, TheClientType
    <3>2. NumActiveStreams(c) # 0
      BY DEF Counted
    <3>3. ~DrainFrame(Head(stack))
      BY <3>1, <3>2 DEF DrainFrame
    <3> QED BY <1>1, <3>1, <3>3 DEF DrainPart
  <2> QED BY <2>1, <2>2
<1>8. /\ Pushable(q) /\ Elements(stack) \subseteq Elements(q)
      /\ \A f \in Elements(q) : f \in Elements(stack) \/ f.op \in {"user", "checkIdle"}
      /\ c \notin open \/ \E f \in Elements(q) : f.op = "checkIdle"
  <2>1. CASE q = <<g>> \o rest
    <3>1. Pushable(q) /\ Elements(q) = {g} \cup Elements(rest)
      BY <1>2, <1>6, <2>1, PushOn DEF Push
    <3> QED BY <1>2, <1>6, <3>1
  <2>2. CASE q = <<>> \o rest /\ c \notin open
    <3>1. rest \in Seq(Frames) /\ User \in Frames
      BY <1>2, <1>6 DEF Pushable, Sound, Ordinary
    <3>2. q = rest
      BY <2>2, <3>1, PushForms
    <3> QED BY <1>6, <2>2, <3>2
  <2> QED BY <1>4, <2>1, <2>2
<1>9. UNCHANGED <<pending, purging, draining, deleted, idleCallbacks>> /\ (readyCallback => readyCallback')
  BY <1>3 DEF poolVars
<1> QED BY <1>3, <1>7, <1>8, <1>9, StreamClosedDuty

(* An HTTP/1 response is complete, or the wrapper of a lost HTTP/1 stream  *)
(* is deleted.                                                             *)
LEMMA StreamWrapperDuty ==
  ASSUME IInv, Duties, NEW c \in Clients, NEW s \in Streams, on[s] = c,
         (~Multiplexed /\ OnDecodeComplete(s)) \/ DeleteStreamWrapper(s),
         NumActiveStreams(c)' = NumActiveStreams(c) - 1
  PROVE  Duties'
<1> DEFINE g == Call("checkIdle")
<1>1. /\ stack \in Seq(Frames) /\ DrainPart
  BY DEF IInv, StackPart, Duties
<1>2. Ordinary(g) /\ g.op = "checkIdle" /\ "checkIdle" # "lost"
  BY OrdinaryCalls
<1>3. Quiescent
  BY DEF OnDecodeComplete, DeleteStreamWrapper
<1>4. Elements(stack) = {} /\ Pushable(<<>>) /\ Elements(<<>>) = {} /\ ~Doing({"drainRest"})
  BY <1>3, AtRest, PushFirst DEF Doing
<1>5. CASE OnDecodeComplete(s)
  <2>1. /\ OnStreamClosed(c, s, <<g>>) /\ readyCallback'
        /\ UNCHANGED <<pending, purging, draining, deleted, idleCallbacks>>
    BY <1>5 DEF OnDecodeComplete
  <2>2. <<g>> = Push(g, <<>>)
    <3>1. g \in Frames /\ <<>> \in Seq(Frames)
      BY <1>2, <1>4 DEF Ordinary, Pushable, Sound
    <3> QED BY <3>1, PushForms
  <2> HIDE DEF g
  <2>3. Pushable(<<g>>) /\ Elements(<<g>>) = {g}
    <3>1. Pushable(Push(g, <<>>)) /\ Elements(Push(g, <<>>)) = {g} \cup Elements(<<>>)
      BY <1>2, <1>4, PushOn
    <3> QED BY <1>4, <2>2, <3>1
  <2>4. \A f \in Elements(<<g>>) : f.op = "checkIdle"
    BY <1>2, <2>3
  <2>5. \E f \in Elements(<<g>>) : f.op = "checkIdle"
    BY <1>2, <2>3
  <2> QED BY <1>4, <2>1, <2>3, <2>4, <2>5, StreamClosedDuty
<1>6. CASE DeleteStreamWrapper(s)
  <2>1. /\ OnStreamClosed(c, s, <<>>) /\ c \notin listed
        /\ UNCHANGED <<pending, purging, draining, deleted, idleCallbacks>> /\ readyCallback' = readyCallback
    BY <1>6 DEF DeleteStreamWrapper, poolVars
  <2> QED BY <1>4, <2>1, StreamClosedDuty
<1> QED BY <1>5, <1>6

-----------------------------------------------------------------------------
(* Connections that are lost *)

(* A call on one client ends: the others' calls stay in progress. *)
LEMMA OtherCallsKept ==
  ASSUME IInv, Duties, NEW op \in ClientOps, Running(op), NEW c, c = TheClient,
         Elements(Rest) \subseteq Elements(stack')
  PROVE  KeepsBut(op) /\ Others(c)
<1>1. stack \in Seq(Frames) /\ OrderPart
  BY DEF IInv, StackPart, Duties
<1>2. Head(stack).cs = {c} /\ Elements(stack) = {Head(stack)} \cup Elements(Rest)
  BY <1>1, TheOneClient, StackFacts
<1>3. ASSUME NEW ops, NEW d \in Clients \ {c}, DoingTo(ops, d) PROVE DoingTo(ops, d)'
  <2>1. PICK f \in Elements(stack) : f.op \in ops /\ d \in f.cs
    BY <1>3 DEF DoingTo
  <2>2. f \in Elements(stack')
    BY <1>2, <2>1
  <2> QED BY <2>1, <2>2 DEF DoingTo
<1>4. KeepsBut(op)
  BY <1>1, CallsKept
<1> QED BY <1>3, <1>4 DEF Others

(* A drain's calls in progress stay as they were. *)
LEMMA DrainFrameKept ==
  ASSUME on' = on, \A d \in Clients : state'[d] = "Connecting" => state[d] = "Connecting",
         pending = <<>> => pending' = <<>>, NEW f, f.cs \subseteq Clients, DrainFrame(f)
  PROVE  DrainFrame(f)'
<1>1. \A d \in Clients : NumActiveStreams(d)' = NumActiveStreams(d)
  BY DEF NumActiveStreams
<1> QED BY <1>1 DEF DrainFrame

(* CodecClient::close on an open connection. *)
LEMMA CloseDuty ==
  ASSUME IInv, Duties, Close, TheClient \in open
  PROVE  Duties'
<1>1. PICK c : c = TheClient
  OBVIOUS
<1>2. PICK h : h = Head(stack)
  OBVIOUS
<1> DEFINE r == [h EXCEPT !.op = "reset"]
           l == CallOn("lost", c)
<1>3. /\ Running("close") /\ stack \in Seq(Frames) /\ OrderPart /\ PurgePart /\ PlacePart /\ LostDone
      /\ StreamsOfLostConnectionsAreReset /\ LimitPart /\ EmptyPart /\ DemandPart /\ ReadyPart
      /\ DeletedPart /\ DrainPart /\ StackPart
  BY DEF Close, IInv, StackPart, Duties, LostPart
<1>4. /\ open' = open \ {c} /\ stack' = <<r, l>> \o Rest
      /\ UNCHANGED <<state, remaining, limit, configured, listed, on, pending, purging>>
      /\ UNCHANGED <<draining, deleted, idleCallbacks, readyCallback>>
  BY <1>1, <1>2 DEF Close, streamVars, poolVars
<1>5. /\ "close" \in ClientOps /\ "lost" \in ClientOps /\ "reset" \in ClientOps
      /\ "close" # "reset" /\ "close" # "tryCreate" /\ "close" # "lost" /\ "close" # "purge"
      /\ "close" \notin {"lost", "release"} /\ "close" \notin {"checkIdle", "notifyIdle"}
      /\ "close" \notin {"closed", "tryCreate"} /\ "close" \notin {"checkIdle", "closeIdle"}
      /\ "close" # "closeIdle" /\ "close" # "destroy" /\ "close" # "upstreamReady"
      /\ "reset" \in DrainOps /\ "lost" \in DrainOps
  BY DEF ClientOps, DrainOps
<1>6. c \in Clients /\ h.cs = {c} /\ h \in Frames /\ h.op = "close" /\ h \in Elements(stack) /\ Pushable(Rest)
  <2>1. c \in Clients /\ h.cs = {c}
    BY <1>1, <1>2, <1>3, <1>5, TheOneClient
  <2>2. h \in Frames /\ h.op = "close" /\ h \in Elements(stack)
    BY <1>2, <1>3, RestTypes
  <2>3. Pushable(Rest)
    BY <1>3, <1>5, StackFacts
  <2> QED BY <2>1, <2>2, <2>3
<1>7. /\ r \in Frames /\ r.op = "reset" /\ r.cs = {c}
  BY SMTT(30), <1>6 DEF Frames, Ops, ClientOps
<1>8. Ordinary(l) /\ l.op = "lost" /\ l.cs = {c}
  BY <1>5, <1>6, OrdinaryCallsOn
<1> HIDE DEF r, l
<1>9. /\ Sound(stack') /\ Elements(stack') = {r, l} \cup Elements(Rest)
  <2> DEFINE q == Push(l, Rest)
  <2>1. Sound(q) /\ Elements(q) = {l} \cup Elements(Rest)
    BY <1>6, <1>8, PushOn
  <2>2. l \in Frames /\ Rest \in Seq(Frames) /\ ~Fresh(l)
    BY <1>6, <1>8 DEF Ordinary, Pushable, Sound
  <2>3. Head(q) = l
    BY <2>2, PushFacts
  <2>4. stack' = Push(r, q)
    BY <1>4, <1>7, <2>2, PushForms
  <2> HIDE DEF q
  <2>5. Above(r, Head(q)) /\ ~Fresh(r)
    BY <1>7, <1>8, <2>2, <2>3 DEF Above, Fresh
  <2>6. q \in Seq(Frames) /\ Orderly(q)
    BY <2>1 DEF Sound
  <2>7. Orderly(Push(r, q))
    BY <1>7, <2>5, <2>6, OrderlyPush
  <2>8. Push(r, q) \in Seq(Frames) /\ Elements(Push(r, q)) = {r} \cup Elements(q)
    BY <1>7, <2>6, PushFacts
  <2>9. /\ \A f \in Elements(Push(r, q)) : f.op \in ClientOps => \E d \in Clients : f.cs = {d}
        /\ \A f \in Elements(Push(r, q)) : ~Fresh(f)
    BY <1>6, <1>7, <2>1, <2>5, <2>8 DEF Sound
  <2>10. Sound(Push(r, q))
    BY <2>7, <2>8, <2>9 DEF Sound
  <2> QED BY <2>1, <2>4, <2>8, <2>10
<1>10. KeepsBut("close") /\ Others(c)
  BY <1>1, <1>3, <1>5, <1>9, OtherCallsKept
<1>11. /\ DoingTo({"lost", "release"}, c)' /\ DoingTo({"close", "lost", "release"}, c)' /\ Tended(c)'
       /\ \A f \in Elements(stack') : f = r \/ f = l \/ f \in Elements(stack)
       /\ \A f \in Elements(stack') : f.op = "release" => f \in Elements(stack)
  <2>1. \A f \in Elements(stack') : f = r \/ f = l \/ f \in Elements(stack)
    BY <1>3, <1>9, StackFacts
  <2>2. \A f \in Elements(stack') : f.op = "release" => f \in Elements(stack)
    BY <1>7, <1>8, <2>1
  <2> QED BY <1>8, <1>9, <2>1, <2>2 DEF DoingTo, Tended
<1>12. OneClient(c)
  <2>1. \A d \in Clients : NumActiveStreams(d)' = NumActiveStreams(d)
    BY <1>4 DEF NumActiveStreams
  <2> QED BY <1>4, <2>1 DEF OneClient
<1>13. LostListed' /\ DrainedClosing' /\ IdleClosing' /\ (IdleTended => IdleTended')
  BY <1>4, <1>5, <1>6, <1>10, <1>11, <1>12, OneClientKeeps
<1>14. LostDone' /\ LimitPart' /\ ReadyPart'
  BY <1>3, <1>4, <1>5, <1>10, <1>11, LostDoneKept, LimitKept, ReadyKept
<1>15. EmptyPart' /\ DemandPart' /\ DeletedPart' /\ PurgePart' /\ PlacePart' /\ OrderPart'
  BY <1>3, <1>4, <1>5, <1>9, <1>10, EmptyKept, DemandKept, DeletedKept, PurgeKept, PlaceKept, SoundOrder
<1>16. StreamsOfLostConnectionsAreReset'
  <2>1. ASSUME Multiplexed, NEW s \in Streams, on'[s] # NoClient, on'[s] \notin open'
        PROVE  \E g \in Elements(stack)' : g.op = "reset" /\ on'[s] \in g.cs
    <3>1. CASE on[s] = c
      BY <1>4, <1>7, <1>9, <3>1
    <3>2. CASE on[s] \notin open
      <4>1. PICK g \in Elements(stack) : g.op = "reset" /\ on[s] \in g.cs
        BY <1>3, <1>4, <2>1, <3>2 DEF StreamsOfLostConnectionsAreReset
      <4>2. g \in Elements(stack)'
        BY <1>5, <1>10, <4>1 DEF KeepsBut
      <4> QED BY <1>4, <4>1, <4>2
    <3> QED BY <1>4, <2>1, <3>1, <3>2
  <2> QED BY <2>1 DEF StreamsOfLostConnectionsAreReset
<1>17. DrainPart'
  <2>1. ASSUME Doing({"drainRest"}) PROVE purging' = <<>> /\ DrainFrame(r)' /\ DrainFrame(l)'
    <3>1. purging = <<>> /\ DrainFrame(h)
      BY <1>3, <1>6, <2>1 DEF DrainPart
    <3>2. NumActiveStreams(c) = 0 /\ (state[c] = "Connecting" => pending = <<>>)
      BY <1>6, <3>1 DEF DrainFrame
    <3>3. DrainFrame(r) /\ DrainFrame(l)
      BY <1>5, <1>7, <1>8, <3>2 DEF DrainFrame
    <3>4. r.cs \subseteq Clients /\ l.cs \subseteq Clients
      BY <1>6, <1>7, <1>8
    <3>5. DrainFrame(r)' /\ DrainFrame(l)'
      BY <1>4, <3>3, <3>4, DrainFrameKept
    <3> QED BY <1>4, <3>1, <3>5
  <2>2. \A f \in Elements(stack) : DrainFrame(f) => DrainFrame(f)'
    BY <1>3, <1>4, FrameClients, DrainFrameKept
  <2>3. r.op # "drainRest" /\ l.op # "drainRest"
    BY <1>7, <1>8
  <2> QED BY <1>3, <1>11, <1>13, <2>1, <2>2, <2>3, DrainGoesOn
<1> QED BY <1>13, <1>14, <1>15, <1>16, <1>17 DEF Duties, LostPart

(* What is left of a call on a client that has no client of its own. *)
LEMMA ClientCall ==
  ASSUME IInv, Duties, NEW op \in {"lost", "release", "closed"}, Running(op), NEW c, c = TheClient
  PROVE  /\ c \in Clients /\ Head(stack).cs = {c} /\ Head(stack).op = op
         /\ Head(stack) \in Elements(stack) /\ Pushable(Rest) /\ Rest \in Seq(Frames)
         /\ Elements(Rest) \subseteq Elements(stack)
<1>1. stack \in Seq(Frames) /\ OrderPart /\ op \in ClientOps /\ op # "reset"
  BY DEF IInv, StackPart, Duties, ClientOps
<1>2. c \in Clients /\ Head(stack).cs = {c}
  BY <1>1, TheOneClient
<1>3. /\ Head(stack).op = op /\ Head(stack) \in Elements(stack) /\ Rest \in Seq(Frames)
      /\ Elements(Rest) \subseteq Elements(stack)
  BY <1>1, RestTypes
<1>4. Pushable(Rest)
  BY <1>1, StackFacts
<1> QED BY <1>2, <1>3, <1>4

(* The queue that is to be purged, behind the streams being purged. *)
LEMMA ConcatOnce ==
  ASSUME NEW T, NEW p \in Seq(T), NEW q \in Seq(T), Elements(p) \cap Elements(q) = {},
         \A i, j \in 1..Len(p) : p[i] = p[j] => i = j,
         \A i, j \in 1..Len(q) : q[i] = q[j] => i = j
  PROVE  \A i, j \in 1..Len(p \o q) : (p \o q)[i] = (p \o q)[j] => i = j
<1>1. /\ p \o q \in Seq(T) /\ Len(p \o q) = Len(p) + Len(q) /\ Len(p) \in Nat /\ Len(q) \in Nat
      /\ \A i \in 1..Len(p) : (p \o q)[i] = p[i]
      /\ \A i \in (Len(p) + 1)..(Len(p) + Len(q)) : (p \o q)[i] = q[i - Len(p)]
  BY SMTT(30)
<1> DEFINE r == p \o q
<1> HIDE DEF r
<1>2. ASSUME NEW i \in 1..Len(p), NEW j \in (Len(p) + 1)..(Len(p) + Len(q)) PROVE r[i] # r[j]
  <2>1. r[i] = p[i] /\ r[j] = q[j - Len(p)] /\ j - Len(p) \in 1..Len(q)
    BY SMTT(30), <1>1 DEF r
  <2>2. p[i] \in Elements(p) /\ q[j - Len(p)] \in Elements(q)
    BY <2>1 DEF Elements
  <2> QED BY <2>1, <2>2
<1>3. ASSUME NEW i \in 1..Len(p), NEW j \in 1..Len(p), r[i] = r[j] PROVE i = j
  BY <1>1, <1>3 DEF r
<1>4. ASSUME NEW i \in (Len(p) + 1)..(Len(p) + Len(q)), NEW j \in (Len(p) + 1)..(Len(p) + Len(q)), r[i] = r[j]
      PROVE  i = j
  <2>1. /\ r[i] = q[i - Len(p)] /\ r[j] = q[j - Len(p)]
        /\ i - Len(p) \in 1..Len(q) /\ j - Len(p) \in 1..Len(q)
    BY SMTT(30), <1>1 DEF r
  <2>2. i - Len(p) = j - Len(p)
    BY <1>4, <2>1
  <2> QED BY SMTT(30), <1>1, <2>2
<1>5. \A i \in 1..Len(r) : i \in 1..Len(p) \/ i \in (Len(p) + 1)..(Len(p) + Len(q))
  BY SMTT(30), <1>1 DEF r
<1>6. \A i, j \in 1..Len(r) : r[i] = r[j] => i = j
  BY <1>2, <1>3, <1>4, <1>5
<1> QED BY <1>6 DEF r

(* onConnectionEvent for a connection that is lost while connecting: the   *)
(* queue is purged, and the client is released later.                      *)
LEMMA ConnectingLostDuty ==
  ASSUME IInv, Duties, OnConnectionLost, state[TheClient] = "Connecting"
  PROVE  Duties'
<1>1. PICK c : c = TheClient
  OBVIOUS
<1> DEFINE f == Call("purge")
           g == Call("retry")
           h == CallOn("release", c)
<1>2. /\ Running("lost") /\ stack \in Seq(Frames) /\ OrderPart /\ PurgePart /\ PlacePart
      /\ StreamsOfLostConnectionsAreReset /\ LimitPart /\ DeletedPart /\ DrainPart /\ StackPart /\ ClientTyped
  BY DEF OnConnectionLost, IInv, ClientPart, StackPart, Duties, LostPart
<1>3. /\ remaining' = [remaining EXCEPT ![c] = 0] /\ pending' = <<>> /\ purging' = purging \o pending
      /\ stack' = <<f, g, h>> \o Rest /\ state[c] = "Connecting"
      /\ UNCHANGED <<state, limit, configured, listed, open, on>>
      /\ UNCHANGED <<draining, deleted, idleCallbacks, readyCallback>>
  BY <1>1 DEF OnConnectionLost, PendingToPurge, poolVars
<1>4. /\ "lost" \in ClientOps /\ "release" \in ClientOps /\ "lost" \in {"lost", "release", "closed"}
      /\ "lost" # "reset" /\ "lost" # "destroy" /\ "lost" # "purge" /\ "lost" # "upstreamReady"
      /\ "lost" \notin {"checkIdle", "closeIdle"} /\ "lost" # "closeIdle"
      /\ {"purge", "retry", "release"} \subseteq DrainOps
  BY DEF ClientOps, DrainOps
<1>5. /\ c \in Clients /\ Head(stack).cs = {c} /\ Head(stack).op = "lost"
      /\ Head(stack) \in Elements(stack) /\ Pushable(Rest) /\ Rest \in Seq(Frames)
      /\ Elements(Rest) \subseteq Elements(stack)
  BY <1>1, <1>2, <1>4, ClientCall
<1>6. /\ Ordinary(f) /\ f.op = "purge" /\ Ordinary(g) /\ g.op = "retry"
      /\ Ordinary(h) /\ h.op = "release" /\ h.cs = {c}
  BY <1>4, <1>5, OrdinaryCalls, OrdinaryCallsOn
<1> HIDE DEF f, g, h
<1>7. Sound(stack') /\ Elements(stack') = {f, g, h} \cup Elements(Rest)
  <2>1. Pushable(Push(h, Rest)) /\ Elements(Push(h, Rest)) = {h} \cup Elements(Rest)
    BY <1>5, <1>6, PushOn
  <2>2. Pushable(Push(g, Push(h, Rest))) /\ Elements(Push(g, Push(h, Rest))) = {g} \cup ({h} \cup Elements(Rest))
    BY <1>6, <2>1, PushOn
  <2>3. /\ Sound(Push(f, Push(g, Push(h, Rest))))
        /\ Elements(Push(f, Push(g, Push(h, Rest)))) = {f} \cup ({g} \cup ({h} \cup Elements(Rest)))
    BY <1>6, <2>2, PushOn
  <2>4. f \in Frames /\ g \in Frames /\ h \in Frames
    BY <1>6 DEF Ordinary
  <2>5. <<f, g, h>> \o Rest = Push(f, Push(g, Push(h, Rest)))
    <3>1. Rest \in Seq(Frames)
      BY <1>5
    <3> QED BY SMTT(30), <2>4, <3>1, ThreePushed
  <2>6. stack' = Push(f, Push(g, Push(h, Rest)))
    BY <1>3, <2>5
  <2> QED BY <2>3, <2>6
<1>8. KeepsBut("lost") /\ Others(c)
  BY <1>1, <1>2, <1>4, <1>7, OtherCallsKept
<1>9. /\ DoingTo({"lost", "release"}, c)' /\ DoingTo({"release"}, c)'
      /\ Doing({"checkIdle", "notifyIdle", "release"})' /\ Doing({"purge"})'
      /\ \A k \in Elements(stack') : k \in {f, g, h} \/ k \in Elements(stack)
      /\ \A k \in Elements(stack') : k.op = "release" => k \in Elements(stack) \/ k.cs = {c}
  <2>1. \A k \in Elements(stack') : k \in {f, g, h} \/ k \in Elements(stack)
    BY <1>5, <1>7
  <2>2. \A k \in {f, g, h} : k.op = "release" => k.cs = {c}
    BY <1>6
  <2>3. \A k \in Elements(stack') : k.op = "release" => k \in Elements(stack) \/ k.cs = {c}
    BY <2>1, <2>2
  <2> QED BY <1>6, <1>7, <2>1, <2>3 DEF DoingTo, Doing
<1>10. OneClient(c)
  <2>1. \A d \in Clients : NumActiveStreams(d)' = NumActiveStreams(d)
    BY <1>3 DEF NumActiveStreams
  <2>2. \A d \in Clients \ {c} : remaining'[d] = remaining[d]
    BY <1>2, <1>3 DEF ClientTyped
  <2> QED BY <1>3, <2>1, <2>2 DEF OneClient
<1>11. state'[c] \notin {"Ready", "Busy", "Draining"} /\ state'[c] = "Connecting"
  BY <1>3
<1>12. LostListed' /\ LostDone' /\ DrainedClosing' /\ IdleClosing' /\ (IdleTended => IdleTended')
  BY <1>3, <1>4, <1>5, <1>8, <1>9, <1>10, <1>11, OneClientKeeps
<1>13. LimitPart' /\ ReadyPart'
  <2>1. 0 \notin Settings /\ c \in listed' => limit'[c] > 0 /\ configured'[c] > 0
    BY <1>2, <1>3 DEF LimitPart
  <2> QED BY <1>3, <1>4, <1>5, <1>8, <1>9, <1>10, <1>11, <2>1, OneClientKeeps
<1>14. OrderPart' /\ PurgePart' /\ EmptyPart' /\ DemandPart'
  <2>1. PurgePart'
    BY <1>2, <1>3, <1>9 DEF PurgePart
  <2>2. EmptyPart' /\ DemandPart'
    BY <1>3, <1>9 DEF EmptyPart, DemandPart
  <2> QED BY <1>7, <2>1, <2>2, SoundOrder
<1>15. DeletedPart' /\ StreamsOfLostConnectionsAreReset'
  BY <1>2, <1>3, <1>4, <1>8, DeletedKept, ResetsKept
<1>16. PlacePart'
  <2>1. /\ purging \in Seq(Streams) /\ pending \in Seq(Streams)
        /\ \A i, j \in 1..Len(pending) : pending[i] = pending[j] => i = j
        /\ \A i \in 1..Len(pending) : on[pending[i]] = NoClient
        /\ \A i, j \in 1..Len(purging) : purging[i] = purging[j] => i = j
        /\ \A i \in 1..Len(purging) : on[purging[i]] = NoClient
        /\ Elements(purging) \cap Elements(pending) = {}
    BY <1>2 DEF IInv, QueuePart, PoolTyped, PlacePart
  <2> DEFINE q == purging \o pending
  <2>2. \A i, j \in 1..Len(q) : q[i] = q[j] => i = j
    BY SMTT(30), <2>1, ConcatOnce
  <2>3. Elements(q) = Elements(purging) \cup Elements(pending)
    <3>1. purging \in Seq(Streams) /\ pending \in Seq(Streams)
      BY <2>1
    <3> QED BY SMTT(30), <3>1, ElementsConcat
  <2> HIDE DEF q
  <2>4. \A s \in Elements(purging) \cup Elements(pending) : on[s] = NoClient
    BY SMTT(30), <2>1 DEF Elements
  <2>5. \A i \in 1..Len(q) : q[i] \in Elements(q)
    BY SMTT(30) DEF Elements
  <2>6. \A i \in 1..Len(q) : on[q[i]] = NoClient
    BY <2>3, <2>4, <2>5
  <2>7. purging' = q
    BY <1>3 DEF q
  <2>8. Elements(<<>>) = {}
    BY ElementsSmall
  <2>9. Elements(purging') \cap Elements(pending') = {}
    BY <1>3, <2>8
  <2> QED BY <1>3, <2>2, <2>6, <2>7, <2>9 DEF PlacePart
<1>17. DrainPart'
  <2>1. ASSUME Doing({"drainRest"}) PROVE purging' = <<>>
    <3>1. purging = <<>> /\ DrainFrame(Head(stack))
      BY <1>2, <1>5, <2>1 DEF DrainPart
    <3>2. pending = <<>>
      BY <1>3, <1>5, <3>1 DEF DrainFrame
    <3>3. <<>> \o <<>> = <<>>
      BY SMTT(30)
    <3> QED BY <1>3, <3>1, <3>2, <3>3
  <2>2. \A k \in Elements(stack) : DrainFrame(k) => DrainFrame(k)'
    BY <1>2, <1>3, FrameClients, DrainFrameKept
  <2>3. ASSUME NEW k \in {f, g, h} PROVE k.op # "drainRest" /\ DrainFrame(k)'
    <3>1. k.op \in {"purge", "retry", "release"}
      BY <1>6
    <3>2. k.op \in DrainOps /\ k.op # "tryCreate" /\ k.op \notin {"closeAll", "close", "reset", "lost"}
      BY <1>4, <3>1
    <3> QED BY <3>1, <3>2 DEF DrainFrame
  <2> QED BY <1>2, <1>9, <1>12, <2>1, <2>2, <2>3, DrainGoesOn
<1> QED BY <1>12, <1>13, <1>14, <1>15, <1>16, <1>17 DEF Duties, LostPart

(* A client leaves its list: its resources are released, and what follows  *)
(* looks at the queue again.                                               *)
LEMMA LeaveDuty ==
  ASSUME IInv, Duties, NEW op \in {"lost", "release"}, Running(op), NEW c, c = TheClient,
         listed' = listed \ {c}, \A d \in Clients \ {c} : remaining'[d] = remaining[d],
         UNCHANGED <<state, limit, configured, open, on, pending, purging, poolVars>>,
         stack' = <<Call("notifyIdle"), CallOn("closed", c)>> \o Rest
  PROVE  Duties'
<1> DEFINE f == Call("notifyIdle")
           g == CallOn("closed", c)
<1>1. /\ PurgePart /\ PlacePart /\ LostDone /\ StreamsOfLostConnectionsAreReset /\ DeletedPart /\ DrainPart
      /\ StackPart
  BY DEF IInv, Duties, LostPart
<1>2. UNCHANGED <<draining, deleted, idleCallbacks, readyCallback>> /\ stack' = <<f, g>> \o Rest
  BY DEF poolVars
<1>3. /\ op \in ClientOps /\ op \in {"lost", "release", "closed"} /\ "closed" \in ClientOps
      /\ op # "reset" /\ op # "destroy" /\ op # "purge" /\ op # "upstreamReady"
      /\ op \notin {"checkIdle", "closeIdle"} /\ op # "closeIdle"
      /\ "notifyIdle" \in DrainOps /\ "closed" \in DrainOps
  BY DEF ClientOps, DrainOps
<1>4. /\ c \in Clients /\ Pushable(Rest) /\ Rest \in Seq(Frames) /\ Elements(Rest) \subseteq Elements(stack)
  BY <1>3, ClientCall
<1>5. /\ Ordinary(f) /\ f.op = "notifyIdle" /\ Ordinary(g) /\ g.op = "closed" /\ "closed" # "lost"
  BY <1>3, <1>4, OrdinaryCalls, OrdinaryCallsOn
<1> HIDE DEF f, g
<1>6. Sound(stack') /\ Elements(stack') = {f, g} \cup Elements(Rest)
  <2>1. Pushable(Push(g, Rest)) /\ Elements(Push(g, Rest)) = {g} \cup Elements(Rest)
    BY <1>4, <1>5, PushOn
  <2>2. Sound(Push(f, Push(g, Rest))) /\ Elements(Push(f, Push(g, Rest))) = {f} \cup ({g} \cup Elements(Rest))
    BY <1>5, <2>1, PushOn
  <2>3. f \in Frames /\ g \in Frames
    BY <1>5 DEF Ordinary
  <2>4. stack' = Push(f, Push(g, Rest))
    BY <1>2, <1>4, <2>3, PushForms
  <2> QED BY <2>2, <2>4
<1>7. KeepsBut(op) /\ Others(c)
  BY <1>3, <1>6, OtherCallsKept
<1>8. /\ \A k \in Elements(stack') : k = f \/ k = g \/ k \in Elements(stack)
      /\ \A k \in Elements(stack') : k.op = "release" => k \in Elements(stack)
  <2>1. \A k \in Elements(stack') : k = f \/ k = g \/ k \in Elements(stack)
    BY <1>4, <1>6
  <2> QED BY <1>5, <2>1
<1>9. OneClient(c) /\ c \notin listed'
  <2>1. \A d \in Clients : NumActiveStreams(d)' = NumActiveStreams(d)
    BY DEF NumActiveStreams
  <2> QED BY <2>1 DEF OneClient
<1>10. LostListed' /\ LimitPart' /\ DrainedClosing'
  BY <1>4, <1>7, <1>9, OneClientKeeps
<1>11. IdleClosing' /\ ReadyPart' /\ (IdleTended => IdleTended')
  BY <1>2, <1>3, <1>4, <1>7, <1>9, OneClientKeeps
<1>12. LostDone' /\ StreamsOfLostConnectionsAreReset' /\ DeletedPart'
  BY <1>1, <1>2, <1>3, <1>7, <1>8, LostDoneKept, ResetsKept, DeletedKept
<1>13. OrderPart' /\ PurgePart' /\ PlacePart'
  BY <1>1, <1>2, <1>3, <1>6, <1>7, SoundOrder, PurgeKept, PlaceKept
<1>14. EmptyPart' /\ DemandPart'
  BY <1>5, <1>6 DEF EmptyPart, DemandPart, Doing, Connecting
<1>15. DrainPart'
  <2>1. \A k \in Elements(stack) : DrainFrame(k) => DrainFrame(k)'
    BY <1>1, FrameClients, DrainFrameKept
  <2>2. f.op # "drainRest" /\ DrainFrame(f)' /\ g.op # "drainRest" /\ DrainFrame(g)'
    BY <1>3, <1>5 DEF DrainFrame
  <2>3. Doing({"drainRest"}) => purging' = <<>>
    BY <1>1 DEF DrainPart
  <2> QED BY <1>1, <1>8, <1>11, <2>1, <2>2, <2>3, DrainGoesOn
<1> QED BY <1>10, <1>11, <1>12, <1>13, <1>14, <1>15 DEF Duties, LostPart

(* The end of onConnectionEvent for a lost connection. *)
LEMMA ClientClosedDuty ==
  ASSUME IInv, Duties, ClientClosed
  PROVE  Duties'
<1>1. PICK c : c = TheClient
  OBVIOUS
<1> DEFINE g == TryCreate(3, NoStream)
<1>2. /\ Running("closed") /\ PurgePart /\ PlacePart /\ StreamsOfLostConnectionsAreReset /\ DeletedPart
      /\ DrainPart /\ StackPart /\ EmptyPart /\ ClientTyped /\ LostDone
  BY DEF ClientClosed, IInv, ClientPart, Duties, LostPart
<1>3. /\ state' = [state EXCEPT ![c] = "Closed"]
      /\ UNCHANGED <<remaining, limit, configured, listed, open, on, pending, purging>>
      /\ UNCHANGED <<draining, deleted, idleCallbacks, readyCallback>>
      /\ stack' = (IF pending # <<>> THEN <<g>> ELSE <<>>) \o Rest
  BY <1>1 DEF ClientClosed, streamVars, poolVars
<1>4. /\ "closed" \in ClientOps /\ "closed" \in {"lost", "release", "closed"}
      /\ "closed" # "reset" /\ "closed" # "destroy" /\ "closed" # "purge" /\ "closed" # "upstreamReady"
      /\ "closed" \notin {"checkIdle", "closeIdle"} /\ "closed" # "closeIdle"
      /\ "closed" \notin {"closeAll", "close", "lost", "release"} /\ "closed" \notin {"checkIdle", "notifyIdle"}
      /\ "closed" \notin {"lost", "release"} /\ "tryCreate" \in DrainOps
  BY DEF ClientOps, DrainOps
<1>5. /\ c \in Clients /\ Pushable(Rest) /\ Rest \in Seq(Frames) /\ Elements(Rest) \subseteq Elements(stack)
      /\ Head(stack).cs = {c} /\ Head(stack).op = "closed" /\ Head(stack) \in Elements(stack)
  BY <1>1, <1>2, <1>4, ClientCall
<1>6. c \notin listed
  BY <1>2, <1>5 DEF StackPart, FrameOK
<1>7. /\ Ordinary(g) /\ g.op = "tryCreate" /\ g.s = NoStream /\ g.n # 0
  <2>1. /\ Ordinary(g) /\ g.op = "tryCreate" /\ g.s = NoStream /\ g.n = 3
    BY OrdinaryCallsOn
  <2>2. g.n # 0
    BY SMTT(30), <2>1
  <2> QED BY <2>1, <2>2
<1> HIDE DEF g
<1>8. /\ Sound(stack') /\ Elements(Rest) \subseteq Elements(stack')
      /\ \A k \in Elements(stack') : k = g \/ k \in Elements(stack)
      /\ pending # <<>> => g \in Elements(stack')
  <2>1. CASE pending # <<>>
    <3>1. stack' = Push(g, Rest)
      BY <1>3, <2>1 DEF Push
    <3>2. Sound(stack') /\ Elements(stack') = {g} \cup Elements(Rest)
      BY <1>5, <1>7, <3>1, PushOn
    <3> QED BY <1>5, <3>2
  <2>2. CASE pending = <<>>
    <3>1. Head(stack) \in Frames
      BY <1>2, <1>5, FrameClients
    <3>2. <<>> \o Rest = Rest
      BY <1>5, <3>1, PushForms
    <3>3. stack' = Rest
      BY <1>3, <2>2, <3>2
    <3> QED BY <1>5, <2>2, <3>3 DEF Pushable
  <2> QED BY <2>1, <2>2
<1>9. KeepsBut("closed")
  BY <1>1, <1>2, <1>4, <1>8, OtherCallsKept
<1>10. \A k \in Elements(stack') : k.op = "release" => k \in Elements(stack)
  BY <1>7, <1>8
<1>11. /\ state'[c] = "Closed" /\ \A d \in Clients \ {c} : state'[d] = state[d]
       /\ \A d \in Clients : state'[d] = state[d] \/ state'[d] = "Closed"
  BY <1>2, <1>3, <1>5 DEF ClientTyped
<1>12. OneClient(c) /\ c \notin listed'
  <2>1. \A d \in Clients : NumActiveStreams(d)' = NumActiveStreams(d)
    BY <1>3 DEF NumActiveStreams
  <2> QED BY <1>3, <1>6, <1>11, <2>1 DEF OneClient
<1>13. LostListed' /\ LimitPart' /\ DrainedClosing'
  BY <1>4, <1>5, <1>9, <1>12, OneClientKeeps
<1>14. IdleClosing' /\ ReadyPart' /\ (IdleTended => IdleTended')
  BY <1>3, <1>4, <1>5, <1>9, <1>12, OneClientKeeps
<1>15. LostDone'
  <2>1. \A k \in Elements(stack) : k.cs \subseteq Clients
    BY <1>2, FrameClients
  <2> QED BY <1>2, <1>10, <1>11, <2>1, LostDoneKept
<1>16. StreamsOfLostConnectionsAreReset' /\ DeletedPart' /\ EmptyPart'
  BY <1>2, <1>3, <1>4, <1>9, ResetsKept, DeletedKept, EmptyKept
<1>17. OrderPart' /\ PurgePart' /\ PlacePart'
  BY <1>2, <1>3, <1>4, <1>8, <1>9, SoundOrder, PurgeKept, PlaceKept
<1>18. DemandPart'
  BY <1>3, <1>7, <1>8 DEF DemandPart, Connecting
<1>19. DrainPart'
  <2>1. \A d \in Clients : state'[d] = "Connecting" => state[d] = "Connecting"
    BY <1>11
  <2>2. \A k \in Elements(stack) : DrainFrame(k) => DrainFrame(k)'
    BY <1>2, <1>3, <2>1, FrameClients, DrainFrameKept
  <2>3. g.op # "drainRest" /\ DrainFrame(g)'
    BY <1>4, <1>7 DEF DrainFrame
  <2>4. Doing({"drainRest"}) => purging' = <<>>
    BY <1>2, <1>3 DEF DrainPart
  <2> QED BY <1>2, <1>8, <1>14, <2>2, <2>3, <2>4, DrainGoesOn
<1> QED BY <1>13, <1>14, <1>15, <1>16, <1>17, <1>18, <1>19 DEF Duties, LostPart

(* onConnectionEvent for any lost connection, and the release of a client  *)
(* whose streams were purged.                                              *)
LEMMA LostDuty ==
  ASSUME IInv, Duties, OnConnectionLost \/ ReleaseClient
  PROVE  Duties'
<1>1. PICK c : c = TheClient
  OBVIOUS
<1>2. CASE OnConnectionLost /\ state[TheClient] = "Connecting"
  BY <1>2, ConnectingLostDuty
<1>3. CASE OnConnectionLost /\ state[TheClient] # "Connecting"
  <2>1. /\ Running("lost") /\ listed' = listed \ {c} /\ remaining' = [remaining EXCEPT ![c] = 0]
        /\ UNCHANGED <<state, limit, configured, open, on, pending, purging, poolVars>>
        /\ stack' = <<Call("notifyIdle"), CallOn("closed", c)>> \o Rest
    BY <1>1, <1>3 DEF OnConnectionLost
  <2>2. \A d \in Clients \ {c} : remaining'[d] = remaining[d]
    BY <2>1 DEF IInv, ClientPart, ClientTyped
  <2> QED BY <1>1, <2>1, <2>2, LeaveDuty
<1>4. CASE ReleaseClient
  <2>1. /\ Running("release") /\ listed' = listed \ {c} /\ remaining' = remaining
        /\ UNCHANGED <<state, limit, configured, open, on, pending, purging, poolVars>>
        /\ stack' = <<Call("notifyIdle"), CallOn("closed", c)>> \o Rest
    BY <1>1, <1>4 DEF ReleaseClient, streamVars
  <2> QED BY <1>1, <2>1, LeaveDuty
<1> QED BY <1>2, <1>3, <1>4

-----------------------------------------------------------------------------
(* Going idle *)

(* checkForIdleAndNotify of a pool that is not idle, and of one that is. *)
LEMMA NotifyDuty ==
  ASSUME IInv, Duties, CheckForIdleAndNotify
  PROVE  Duties'
<1>1. /\ Running("notifyIdle") /\ stack' = Rest /\ stack \in Seq(Frames) /\ StackPart
      /\ OrderPart /\ PurgePart /\ PlacePart /\ LostListed /\ LostDone /\ DrainPart
      /\ StreamsOfLostConnectionsAreReset /\ LimitPart /\ DrainedClosing /\ DemandPart /\ ReadyPart
  BY DEF CheckForIdleAndNotify, IInv, StackPart, Duties, LostPart
<1>2. /\ UNCHANGED <<clientVars, streamVars, counterVars, draining, readyCallback, cached>>
      /\ UNCHANGED <<state, remaining, limit, configured, listed, open, on, pending, purging>>
  BY DEF CheckForIdleAndNotify, clientVars, streamVars
<1>3. /\ KeepsBut("notifyIdle") /\ Sound(stack') /\ Elements(stack') \subseteq Elements(stack)
      /\ \A f \in Elements(stack') : f.op = "release" => f \in Elements(stack)
  BY <1>1, PopFacts
<1>4. /\ "notifyIdle" # "purge" /\ "notifyIdle" # "reset" /\ "notifyIdle" \notin {"lost", "release"}
      /\ "notifyIdle" \notin {"close", "lost", "release"} /\ "notifyIdle" # "upstreamReady"
      /\ "notifyIdle" \notin {"checkIdle", "closeIdle", "closeAll", "close", "lost"}
      /\ "notifyIdle" \notin {"closed", "tryCreate"} /\ "notifyIdle" # "destroy"
      /\ "notifyIdle" \notin {"closeIdle", "closeAll", "close", "lost"} /\ "notifyIdle" \notin {"purge"}
  OBVIOUS
<1>5. IdleTended => IdleTended'
  BY <1>2, <1>3, <1>4, TendedKept
<1>6. DrainPart'
  <2>1. \A f \in Elements(stack) : DrainFrame(f) => DrainFrame(f)'
    BY <1>1, <1>2, FrameClients, DrainFrameKept
  <2>2. Doing({"drainRest"}) => purging' = <<>>
    BY <1>1, <1>2 DEF DrainPart
  <2> QED BY <1>1, <1>3, <1>5, <2>1, <2>2, DrainGoesOn
<1>7. CASE ~IsIdle
  <2>1. deleted' = deleted /\ idleCallbacks' = idleCallbacks
    BY <1>7 DEF CheckForIdleAndNotify, IInv, QueuePart, PoolTyped
  <2>2. Steady
    BY <1>2, <2>1 DEF Steady, poolVars
  <2>3. EmptyPart'
    BY <1>2, <1>7 DEF EmptyPart, IsIdle
  <2>4. /\ OrderPart' /\ PlacePart' /\ LostDone' /\ PurgePart' /\ StreamsOfLostConnectionsAreReset'
        /\ LostListed' /\ LimitPart' /\ DrainedClosing' /\ IdleClosing' /\ DemandPart' /\ ReadyPart'
        /\ DeletedPart'
    BY <1>3, <1>4, <2>2, SteadyKeeps
  <2> QED BY <1>6, <2>3, <2>4 DEF Duties, LostPart
<1>8. CASE IsIdle
  <2>1. deleted' /\ listed' = {} /\ pending' = <<>>
    BY <1>1, <1>2, <1>8 DEF CheckForIdleAndNotify, PurgePart, IsIdle
  <2>2. PurgePart'
    <3>1. Doing({"purge"}) => Doing({"purge"})'
      BY <1>3, <1>4, DoingKept
    <3> QED BY <1>1, <1>2, <2>1, <3>1 DEF PurgePart
  <2>3. IdleClosing' /\ EmptyPart' /\ DeletedPart' /\ DemandPart' /\ ReadyPart'
    BY <2>1 DEF IdleClosing, EmptyPart, DeletedPart, DemandPart, ReadyPart
  <2>4. LostListed' /\ LimitPart' /\ DrainedClosing'
    BY <2>1 DEF LostListed, LimitPart, DrainedClosing, InState
  <2>5. LostDone' /\ StreamsOfLostConnectionsAreReset'
    BY <1>1, <1>2, <1>3, <1>4, LostDoneKept, ResetsKept
  <2>6. OrderPart' /\ PlacePart'
    BY <1>1, <1>2, <1>3, SoundOrder, PlaceKept
  <2> QED BY <1>6, <2>2, <2>3, <2>4, <2>5, <2>6 DEF Duties, LostPart
<1> QED BY <1>7, <1>8

-----------------------------------------------------------------------------
(* Steps of the event loop *)

(* What a step at rest that leaves clients and queues alone need not show. *)
LEMMA RestKeeps ==
  ASSUME IInv, Duties, Quiescent, UNCHANGED <<clientVars, on, pending, purging>>, Sound(stack'),
         \A f \in Elements(stack') : f.op # "release"
  PROVE  /\ OrderPart' /\ PlacePart' /\ LostPart' /\ LimitPart' /\ DrainedClosing' /\ DemandPart'
         /\ purging = <<>> /\ (deleted' = deleted => DeletedPart')
         /\ readyCallback' = readyCallback => ReadyPart'
         /\ deleted' = deleted /\ idleCallbacks' = idleCallbacks => PurgePart'
         /\ draining' = draining /\ deleted' = deleted => IdleClosing' /\ EmptyPart'
<1>1. /\ PurgePart /\ PlacePart /\ LostListed /\ LostDone /\ StreamsOfLostConnectionsAreReset
      /\ LimitPart /\ DrainedClosing /\ DemandPart /\ DeletedPart /\ ReadyPart /\ IdleClosing /\ EmptyPart
  BY DEF Duties, LostPart
<1>2. Elements(stack) = {} /\ KeepsBut("none")
  BY AtRest
<1>3. /\ "none" # "purge" /\ "none" # "reset" /\ "none" \notin {"lost", "release"}
      /\ "none" \notin {"close", "lost", "release"} /\ "none" # "destroy" /\ "none" # "upstreamReady"
      /\ "none" \notin {"closed", "tryCreate"} /\ "none" \notin {"checkIdle", "notifyIdle"}
      /\ "none" \notin {"checkIdle", "closeIdle", "closeAll", "close", "lost"}
  OBVIOUS
<1>4. /\ UNCHANGED <<state, remaining, limit, configured, listed, open>>
      /\ \A c : NumActiveStreams(c)' = NumActiveStreams(c)
  BY DEF clientVars, NumActiveStreams
<1>5. OrderPart' /\ PlacePart'
  BY <1>1, SoundOrder, PlaceKept
<1>6. LostListed' /\ StreamsOfLostConnectionsAreReset'
  BY <1>1, <1>2, <1>3, <1>4, LostListedKept, ResetsKept
<1>7. LostDone'
  BY DEF LostDone
<1>8. LimitPart' /\ DrainedClosing' /\ DemandPart'
  BY <1>1, <1>2, <1>3, <1>4, LimitKept, DrainedKept, DemandKept
<1>9. purging = <<>>
  BY <1>1, <1>2 DEF PurgePart, Doing
<1>10. ASSUME deleted' = deleted PROVE DeletedPart'
  BY <1>1, <1>2, <1>3, <1>4, <1>10, DeletedKept
<1>11. ASSUME readyCallback' = readyCallback PROVE ReadyPart'
  BY <1>1, <1>2, <1>3, <1>4, <1>11, ReadyKept
<1>12. ASSUME deleted' = deleted, idleCallbacks' = idleCallbacks PROVE PurgePart'
  BY <1>1, <1>2, <1>3, <1>12, PurgeKept
<1>13. ASSUME draining' = draining, deleted' = deleted PROVE IdleClosing' /\ EmptyPart'
  BY <1>1, <1>2, <1>3, <1>4, <1>13, IdleKept, EmptyKept
<1> QED BY <1>5, <1>6, <1>7, <1>8, <1>9, <1>10, <1>11, <1>12, <1>13 DEF LostPart

(* The stacks with which the event loop calls the pool. *)
LEMMA FirstCalls ==
  /\ \A f : Ordinary(f) => Sound(<<f>>) /\ Elements(<<f>>) = {f}
  /\ Sound(<<Call("destroy")>>) /\ Elements(<<Call("destroy")>>) = {Call("destroy")}
  /\ Call("destroy").op = "destroy" /\ Call("drainRest").op = "drainRest"
  /\ Sound(<<Call("closeIdle"), Call("drainRest")>>)
  /\ Elements(<<Call("closeIdle"), Call("drainRest")>>) = {Call("closeIdle"), Call("drainRest")}
<1> DEFINE d == Call("destroy")
           r == Call("drainRest")
           i == Call("closeIdle")
<1>1. /\ Pushable(<<>>) /\ Pushable(Push(d, <<>>)) /\ Pushable(Push(r, <<>>)) /\ Elements(Push(r, <<>>)) = {r}
  BY PushFirst
<1>2. /\ d \in Frames /\ d.op = "destroy" /\ r \in Frames /\ r.op = "drainRest" /\ <<>> \in Seq(Frames)
  <2>1. "destroy" \in Ops \ ClientOps /\ "drainRest" \in Ops \ ClientOps
    BY DEF Ops, ClientOps
  <2>2. d \in Frames /\ d.op = "destroy" /\ r \in Frames /\ r.op = "drainRest"
    BY <2>1, FrameTypes
  <2> QED BY <1>1, <2>2 DEF Pushable, Sound
<1>3. Ordinary(i) /\ i \in Frames
  BY OrdinaryCalls DEF Ordinary
<1> HIDE DEF d, r, i
<1>4. \A f \in Frames : <<f>> = Push(f, <<>>) /\ Elements(<<f>>) = {f}
  BY <1>2, PushForms, ElementsSmall
<1>5. ASSUME NEW f, Ordinary(f) PROVE Sound(<<f>>) /\ Elements(<<f>>) = {f}
  <2>1. f \in Frames
    BY <1>5 DEF Ordinary
  <2>2. Sound(Push(f, <<>>))
    BY <1>1, <1>5, PushOn
  <2> QED BY <1>4, <2>1, <2>2
<1>6. Sound(<<d>>) /\ Elements(<<d>>) = {d}
  BY <1>1, <1>2, <1>4 DEF Pushable
<1>7. Sound(<<i, r>>) /\ Elements(<<i, r>>) = {i, r}
  <2>1. Sound(Push(i, Push(r, <<>>)))
    BY <1>1, <1>3, PushOn
  <2>2. <<i, r>> = Push(i, Push(r, <<>>))
    BY <1>2, <1>3, PushForms
  <2> QED BY <2>1, <2>2, ElementsSmall
<1> QED BY <1>2, <1>5, <1>6, <1>7 DEF d, r, i

(* upstream_ready_cb_ fires, or the pool begins to drain and to look for   *)
(* idleness.                                                               *)
LEMMA CallbackDuty ==
  ASSUME IInv, Duties, UpstreamReadyCallback \/ DrainAndDelete
  PROVE  Duties'
<1>1. CASE UpstreamReadyCallback
  <2> DEFINE f == Call("upstreamReady")
  <2>1. Quiescent /\ stack' = <<f>>
    BY <1>1 DEF UpstreamReadyCallback
  <2>2. UNCHANGED <<clientVars, on, pending, purging>> /\ UNCHANGED <<draining, deleted, idleCallbacks>>
    BY <1>1 DEF UpstreamReadyCallback, streamVars
  <2>3. Ordinary(f) /\ f.op = "upstreamReady"
    BY OrdinaryCalls
  <2> HIDE DEF f
  <2>4. Sound(stack') /\ Elements(stack') = {f}
    BY <2>1, <2>3, FirstCalls
  <2>5. \A k \in Elements(stack') : k.op = "upstreamReady"
    BY <2>3, <2>4
  <2>6. \A k \in Elements(stack') : k.op # "release"
    BY <2>5
  <2>7. /\ OrderPart' /\ PlacePart' /\ LostPart' /\ LimitPart' /\ DrainedClosing' /\ DemandPart'
        /\ DeletedPart' /\ PurgePart' /\ IdleClosing' /\ EmptyPart'
    BY <2>1, <2>2, <2>4, <2>6, RestKeeps
  <2>8. ReadyPart'
    BY <2>3, <2>4 DEF ReadyPart, Doing
  <2>9. DrainPart'
    BY <2>5 DEF DrainPart, Doing
  <2> QED BY <2>7, <2>8, <2>9 DEF Duties
<1>2. CASE DrainAndDelete
  <2> DEFINE f == Call("checkIdle")
  <2>1. Quiescent /\ stack' = <<f>>
    BY <1>2 DEF DrainAndDelete
  <2>2. UNCHANGED <<clientVars, on, pending, purging>> /\ UNCHANGED <<deleted, idleCallbacks, readyCallback>>
    BY <1>2 DEF DrainAndDelete, streamVars
  <2>3. Ordinary(f) /\ f.op = "checkIdle"
    BY OrdinaryCalls
  <2> HIDE DEF f
  <2>4. Sound(stack') /\ Elements(stack') = {f}
    BY <2>1, <2>3, FirstCalls
  <2>5. \A k \in Elements(stack') : k.op = "checkIdle"
    BY <2>3, <2>4
  <2>6. \A k \in Elements(stack') : k.op # "release"
    BY <2>5
  <2>7. /\ OrderPart' /\ PlacePart' /\ LostPart' /\ LimitPart' /\ DrainedClosing' /\ DemandPart'
        /\ DeletedPart' /\ PurgePart' /\ ReadyPart'
    BY <2>1, <2>2, <2>4, <2>6, RestKeeps
  <2>8. IdleClosing' /\ EmptyPart'
    BY <2>3, <2>4 DEF IdleClosing, EmptyPart, Doing
  <2>9. DrainPart'
    BY <2>5 DEF DrainPart, Doing
  <2> QED BY <2>7, <2>8, <2>9 DEF Duties
<1> QED BY <1>1, <1>2

(* The existing connections are drained, or the pool is destroyed. *)
LEMMA EndingDuty ==
  ASSUME IInv, Duties, DrainExistingConnections \/ Destroy
  PROVE  Duties'
<1>1. CASE DrainExistingConnections
  <2> DEFINE f == Call("closeIdle")
             g == Call("drainRest")
  <2>1. Quiescent /\ stack' = <<f, g>>
    BY <1>1 DEF DrainExistingConnections
  <2>2. /\ UNCHANGED <<clientVars, on, pending, purging>>
        /\ UNCHANGED <<draining, deleted, idleCallbacks, readyCallback>>
    BY <1>1 DEF DrainExistingConnections, streamVars, poolVars
  <2>3. f.op = "closeIdle" /\ g.op = "drainRest"
    BY OrdinaryCalls, FirstCalls
  <2>4. Sound(stack') /\ Elements(stack') = {f, g}
    BY <2>1, FirstCalls
  <2> HIDE DEF f, g
  <2>5. \A k \in Elements(stack') : k.op \in {"closeIdle", "drainRest"}
    BY <2>3, <2>4
  <2>6. \A k \in Elements(stack') : k.op # "release"
    BY <2>5
  <2>7. /\ OrderPart' /\ PlacePart' /\ LostPart' /\ LimitPart' /\ DrainedClosing' /\ DemandPart'
        /\ DeletedPart' /\ PurgePart' /\ ReadyPart' /\ IdleClosing' /\ EmptyPart' /\ purging = <<>>
    BY <2>1, <2>2, <2>4, <2>6, RestKeeps
  <2>8. DrainPart'
    <3>1. /\ {"closeIdle", "drainRest"} \subseteq DrainOps /\ "tryCreate" \notin {"closeIdle", "drainRest"}
          /\ \A op \in {"closeIdle", "drainRest"} : op \notin {"closeAll", "close", "reset", "lost"}
      BY DEF DrainOps
    <3>2. \A k \in Elements(stack') : DrainFrame(k)'
      BY <2>5, <3>1 DEF DrainFrame
    <3>3. IdleTended'
      BY <2>3, <2>4 DEF IdleTended, Doing
    <3> QED BY <2>2, <2>7, <3>2, <3>3 DEF DrainPart
  <2> QED BY <2>7, <2>8 DEF Duties
<1>2. CASE Destroy
  <2> DEFINE f == Call("destroy")
  <2>1. Quiescent /\ stack' = <<f>> /\ deleted' /\ (deleted \/ pending = <<>>)
    BY <1>2 DEF Destroy
  <2>2. UNCHANGED <<clientVars, on, pending, purging>> /\ readyCallback' = readyCallback
    BY <1>2 DEF Destroy, streamVars
  <2>3. f.op = "destroy" /\ Sound(stack') /\ Elements(stack') = {f}
    BY <2>1, FirstCalls
  <2> HIDE DEF f
  <2>4. \A k \in Elements(stack') : k.op = "destroy"
    BY <2>3
  <2>5. \A k \in Elements(stack') : k.op # "release"
    BY <2>4
  <2>6. /\ OrderPart' /\ PlacePart' /\ LostPart' /\ LimitPart' /\ DrainedClosing' /\ DemandPart'
        /\ ReadyPart' /\ purging = <<>>
    BY <2>1, <2>2, <2>3, <2>5, RestKeeps
  <2>7. PurgePart'
    BY <2>1, <2>2, <2>6 DEF PurgePart, Duties
  <2>8. IdleClosing' /\ EmptyPart' /\ DeletedPart'
    BY <2>1, <2>3 DEF IdleClosing, EmptyPart, DeletedPart, Doing
  <2>9. DrainPart'
    BY <2>4 DEF DrainPart, Doing
  <2> QED BY <2>6, <2>7, <2>8, <2>9 DEF Duties
<1> QED BY <1>1, <1>2

(* A connection is established. *)
LEMMA ConnectedDuty ==
  ASSUME IInv, Duties, NEW c \in Clients, OnConnected(c)
  PROVE  Duties'
<1> DEFINE f == Call("upstreamReady")
           g == Call("checkIdle")
<1>1. /\ PurgePart /\ PlacePart /\ LostListed /\ LimitPart /\ StreamsOfLostConnectionsAreReset
      /\ EmptyPart /\ DemandPart /\ DeletedPart /\ ClientTyped
  BY DEF Duties, LostPart, IInv, ClientPart
<1>2. /\ Quiescent /\ c \in listed /\ state[c] = "Connecting"
      /\ \/ state' = [state EXCEPT ![c] = "Ready"] /\ stack' = <<f>> \o <<g>>
         \/ state' = [state EXCEPT ![c] = "Busy"] /\ stack' = <<>> \o <<g>>
      /\ UNCHANGED <<remaining, limit, configured, listed, open, on, pending, purging>>
      /\ UNCHANGED <<draining, deleted, idleCallbacks, readyCallback>>
  BY DEF OnConnected, InState, streamVars, poolVars
<1>3. /\ Elements(stack) = {} /\ KeepsBut("none")
  BY <1>2, AtRest
<1>4. /\ Ordinary(f) /\ f.op = "upstreamReady" /\ Ordinary(g) /\ g.op = "checkIdle" /\ "checkIdle" # "lost"
  BY OrdinaryCalls
<1> HIDE DEF f, g
<1>5. /\ "none" # "purge" /\ "none" # "reset" /\ "none" \notin {"lost", "release"}
      /\ "none" \notin {"closeAll", "close", "lost", "release"} /\ "none" \notin {"checkIdle", "closeIdle"}
      /\ "none" \notin {"closed", "tryCreate"} /\ "none" # "destroy" /\ "none" # "upstreamReady"
      /\ "none" \notin {"checkIdle", "notifyIdle"}
  OBVIOUS
<1>6. /\ Sound(stack') /\ g \in Elements(stack')
      /\ \A k \in Elements(stack') : k.op \in {"upstreamReady", "checkIdle"}
      /\ state'[c] \in {"Ready", "Busy"} /\ (state'[c] = "Ready" => f \in Elements(stack'))
      /\ \A d \in Clients \ {c} : state'[d] = state[d]
  <2>1. /\ Pushable(<<>>) /\ Elements(<<>>) = {} /\ <<>> \in Seq(Frames) /\ f \in Frames /\ g \in Frames
    BY <1>4, PushFirst DEF Pushable, Sound, Ordinary
  <2>2. <<g>> = Push(g, <<>>)
    BY <2>1, PushForms
  <2>3. Pushable(Push(g, <<>>)) /\ Elements(Push(g, <<>>)) = {g} \cup Elements(<<>>)
    BY <1>4, <2>1, PushOn
  <2>4. Pushable(<<g>>) /\ Elements(<<g>>) = {g}
    BY <2>1, <2>2, <2>3
  <2>5. CASE state' = [state EXCEPT ![c] = "Ready"] /\ stack' = <<f>> \o <<g>>
    <3>1. stack' = Push(f, <<g>>)
      BY <2>5 DEF Push
    <3>2. Sound(stack') /\ Elements(stack') = {f} \cup {g}
      BY <1>4, <2>4, <3>1, PushOn
    <3>3. state'[c] = "Ready" /\ \A d \in Clients \ {c} : state'[d] = state[d]
      BY <1>1, <2>5 DEF ClientTyped
    <3> QED BY <1>4, <3>2, <3>3
  <2>6. CASE state' = [state EXCEPT ![c] = "Busy"] /\ stack' = <<>> \o <<g>>
    <3>1. <<g>> \in Seq(Frames)
      BY <2>4 DEF Pushable, Sound
    <3>2. <<>> \o <<g>> = <<g>>
      BY <2>1, <3>1, PushForms
    <3>3. Sound(stack') /\ Elements(stack') = {g}
      BY <2>4, <2>6, <3>2 DEF Pushable
    <3>4. state'[c] = "Busy" /\ \A d \in Clients \ {c} : state'[d] = state[d]
      BY <1>1, <2>6 DEF ClientTyped
    <3> QED BY <1>4, <3>3, <3>4
  <2> QED BY <1>2, <2>5, <2>6
<1>7. OneClient(c)
  <2>1. \A d \in Clients : NumActiveStreams(d)' = NumActiveStreams(d)
    BY <1>2 DEF NumActiveStreams
  <2> QED BY <1>2, <1>6, <2>1 DEF OneClient
<1>8. /\ c \in open' /\ \A k \in Elements(stack') : k.op # "release" /\ k.op # "drainRest"
  BY <1>1, <1>2, <1>3, <1>6 DEF LostListed, DoingTo
<1>9. LostDone'
  BY <1>8 DEF LostDone
<1>10. LostListed' /\ LimitPart' /\ DrainedClosing'
  <2>1. 0 \notin Settings => limit'[c] > 0 /\ configured'[c] > 0 /\ remaining'[c] > 0
    BY <1>1, <1>2, <1>3 DEF LimitPart, DoingTo
  <2>2. state'[c] # "Draining" /\ state'[c] # "Connecting"
    BY <1>6
  <2> QED BY <1>3, <1>5, <1>7, <1>8, <2>1, <2>2, OneClientKeeps
<1>11. IdleClosing' /\ ReadyPart'
  <2>1. Doing({"checkIdle", "closeIdle"})' /\ (state'[c] = "Ready" => Doing({"upstreamReady"})')
    BY <1>4, <1>6 DEF Doing
  <2> QED BY <1>2, <1>3, <1>5, <1>7, <2>1, OneClientKeeps
<1>12. OrderPart' /\ PurgePart' /\ PlacePart' /\ StreamsOfLostConnectionsAreReset'
  BY <1>1, <1>2, <1>3, <1>5, <1>6, SoundOrder, PurgeKept, PlaceKept, ResetsKept
<1>13. EmptyPart' /\ DemandPart' /\ DeletedPart'
  BY <1>1, <1>2, <1>3, <1>5, EmptyKept, DemandKept, DeletedKept
<1>14. DrainPart'
  BY <1>8 DEF DrainPart, Doing
<1> QED BY <1>9, <1>10, <1>11, <1>12, <1>13, <1>14 DEF Duties, LostPart

(* SETTINGS change the limit of a client, which may become ready or busy. *)
LEMMA SettingsDuty ==
  ASSUME IInv, Counted, Duties, NEW c \in Clients, NEW m \in Settings, OnSettings(c, m)
  PROVE  Duties'
<1>1. /\ PurgePart /\ PlacePart /\ LostListed /\ LimitPart /\ StreamsOfLostConnectionsAreReset
      /\ EmptyPart /\ DemandPart /\ DeletedPart /\ ClientTyped /\ DrainedClosing /\ IdleClosing
  BY DEF Duties, LostPart, IInv, ClientPart
<1>2. /\ Multiplexed /\ Quiescent /\ c \in listed /\ stack' = stack
      /\ limit' = [limit EXCEPT ![c] = IF m < configured[c] THEN m ELSE configured[c]]
      /\ UNCHANGED <<remaining, configured, listed, open, on, pending, purging>>
      /\ UNCHANGED <<draining, deleted, idleCallbacks, readyCallback>>
  BY DEF OnSettings, streamVars
<1>3. /\ \A d \in Clients \ {c} : state'[d] = state[d] /\ limit'[d] = limit[d]
      /\ \/ state'[c] = state[c] \/ (state[c] = "Ready" /\ state'[c] = "Busy")
         \/ (state[c] = "Busy" /\ state'[c] = "Ready")
      /\ limit'[c] = IF m < configured[c] THEN m ELSE configured[c]
      /\ state[c] # "Connecting"
  <2>1. state' = [state EXCEPT ![c] =
                    IF state[c] = "Ready" /\ UnusedCapacity(remaining[c], limit'[c], NumActiveStreams(c)) = 0 THEN "Busy"
                    ELSE IF state[c] = "Busy" /\ UnusedCapacity(remaining[c], limit'[c], NumActiveStreams(c)) > 0
                           THEN "Ready" ELSE @]
        /\ state[c] # "Connecting"
    <3>1. limit'[c] = IF m < configured[c] THEN m ELSE configured[c]
      BY <1>1, <1>2 DEF ClientTyped
    <3> QED BY <3>1 DEF OnSettings
  <2> QED BY <1>1, <1>2, <2>1 DEF ClientTyped
<1>4. /\ Elements(stack) = {} /\ Elements(stack') = {} /\ KeepsBut("none") /\ Sound(stack')
  BY <1>2, AtRest DEF Pushable
<1>5. /\ "none" # "purge" /\ "none" # "reset" /\ "none" \notin {"lost", "release"}
      /\ "none" \notin {"closeAll", "close", "lost", "release"} /\ "none" \notin {"checkIdle", "closeIdle"}
      /\ "none" \notin {"closed", "tryCreate"} /\ "none" # "destroy" /\ "none" \notin {"checkIdle", "notifyIdle"}
  OBVIOUS
<1>6. OneClient(c) /\ \A d \in Clients : NumActiveStreams(d)' = NumActiveStreams(d)
  <2>1. \A d \in Clients : NumActiveStreams(d)' = NumActiveStreams(d)
    BY <1>2 DEF NumActiveStreams
  <2> QED BY <1>2, <1>3, <2>1 DEF OneClient
<1>7. c \in open'
  BY <1>1, <1>2, <1>4 DEF LostListed, DoingTo
<1>8. 0 \notin Settings => limit'[c] > 0 /\ configured'[c] > 0 /\ (state'[c] = "Busy" => remaining'[c] > 0)
  <2>1. 0 \notin Settings => configured[c] > 0 /\ (state[c] = "Busy" => remaining[c] > 0)
    BY <1>1, <1>2 DEF LimitPart
  <2>2. 0 \notin Settings => m > 0
    BY SMTT(30), ConnPoolAssumption
  <2>3. state[c] = "Ready" => remaining[c] > 0
    <3>1. remaining[c] \in Nat /\ limit[c] \in Nat /\ NumActiveStreams(c) \in Nat
      BY <1>1 DEF ClientTyped, Counted
    <3>2. state[c] = "Ready" => UnusedCapacity(remaining[c], limit[c], NumActiveStreams(c)) > 0
      BY <1>2 DEF IInv, ClientPart, Books, ClientOK, CurrentUnusedCapacity
    <3>3. ASSUME NEW r \in Nat, NEW l \in Nat, NEW a \in Nat, UnusedCapacity(r, l, a) > 0
          PROVE  r > 0
      BY SMTT(30), <3>3 DEF UnusedCapacity
    <3> QED BY <3>1, <3>2, <3>3
  <2> QED BY <1>2, <1>3, <2>1, <2>2, <2>3
<1>9. LostListed' /\ LostDone' /\ LimitPart'
  <2>1. state'[c] # "Connecting"
    BY <1>3
  <2>2. LostDone'
    BY <1>4 DEF LostDone
  <2> QED BY <1>4, <1>5, <1>6, <1>7, <1>8, <2>1, <2>2, OneClientKeeps
<1>10. DrainedClosing'
  <2>1. 0 \notin Settings /\ state'[c] = "Draining" /\ NumActiveStreams(c)' = 0 => DoingTo({"close", "lost", "release"}, c)
    BY <1>1, <1>2, <1>3, <1>6 DEF DrainedClosing, InState
  <2>2. ~DoingTo({"close", "lost", "release"}, c)
    BY <1>4 DEF DoingTo
  <2> QED BY <1>4, <1>5, <1>6, <2>1, <2>2, OneClientKeeps
<1>11. IdleClosing' /\ ReadyPart'
  <2>1. ASSUME 0 \notin Settings, draining, ~deleted, state'[c] = "Ready", NumActiveStreams(c)' = 0
        PROVE  Doing({"checkIdle", "closeIdle"}) \/ Tended(c)
    <3>1. state[c] # "Busy"
      BY <1>1, <1>2, <1>6, <2>1, BusyServes
    <3>2. state[c] = "Ready" /\ NumActiveStreams(c) = 0
      BY <1>3, <1>6, <2>1, <3>1
    <3> QED BY <1>1, <1>2, <2>1, <3>2 DEF IdleClosing, InState
  <2>2. ~Doing({"checkIdle", "closeIdle"}) /\ ~Tended(c)
    BY <1>4 DEF Doing, DoingTo, Tended
  <2>3. ReadyPart'
    BY <1>2 DEF ReadyPart
  <2> QED BY <1>2, <1>4, <1>5, <1>6, <2>1, <2>2, <2>3, OneClientKeeps
<1>12. OrderPart' /\ PurgePart' /\ PlacePart' /\ StreamsOfLostConnectionsAreReset'
  BY <1>1, <1>2, <1>4, <1>5, SoundOrder, PurgeKept, PlaceKept, ResetsKept
<1>13. EmptyPart' /\ DemandPart' /\ DeletedPart'
  BY <1>1, <1>2, <1>4, <1>5, EmptyKept, DemandKept, DeletedKept
<1>14. DrainPart'
  BY <1>4 DEF DrainPart, Doing
<1> QED BY <1>9, <1>10, <1>11, <1>12, <1>13, <1>14 DEF Duties, LostPart

-----------------------------------------------------------------------------
(* The beginning and the end of a pool *)

(* A new pool has no duties, ... *)
LEMMA InitDuties == Init => Duties
<1> SUFFICES ASSUME Init PROVE Duties
  OBVIOUS
<1>1. /\ stack = <<>> /\ listed = {} /\ pending = <<>> /\ purging = <<>> /\ ~draining /\ ~deleted
      /\ idleCallbacks /\ \A s \in Streams : on[s] = NoClient
  BY DEF Init
<1>2. Sound(<<>>) /\ Elements(<<>>) = {}
  BY PushFirst DEF Pushable
<1>3. OrderPart /\ LostListed /\ LostDone /\ StreamsOfLostConnectionsAreReset
  BY <1>1, <1>2 DEF OrderPart, Sound, LostListed, LostDone, StreamsOfLostConnectionsAreReset
<1>4. PurgePart /\ DrainPart /\ EmptyPart /\ DemandPart /\ ReadyPart /\ DeletedPart
  BY <1>1, <1>2 DEF PurgePart, DrainPart, Doing, EmptyPart, DemandPart, ReadyPart, DeletedPart
<1>5. LimitPart /\ DrainedClosing /\ IdleClosing
  BY <1>1 DEF LimitPart, DrainedClosing, IdleClosing, InState
<1>6. PlacePart
  <2>1. \A i : i \notin 1..Len(<<>>)
    BY SMTT(30)
  <2> QED BY <1>1, <1>2, <2>1 DEF PlacePart
<1> QED BY <1>3, <1>4, <1>5, <1>6 DEF Duties, LostPart

(* ... and neither has the one that replaces a destroyed pool. *)
LEMMA DestructedDuty ==
  ASSUME IInv, Duties, DestructAllConnections, listed = {}
  PROVE  Duties'
<1>1. /\ Running("destroy") /\ stack' = Rest /\ stack \in Seq(Frames) /\ Orderly(stack)
  BY DEF DestructAllConnections, IInv, StackPart, Duties, OrderPart
<1>2. stack' = <<>>
  <2>1. stack # <<>> /\ Head(stack).op = "destroy"
    BY <1>1 DEF Running
  <2>2. Rest # <<>> => Above(Head(stack), Head(Rest))
    BY <1>1, <2>1, OrderlyRest
  <2> QED BY <1>1, <2>1, <2>2 DEF Above
<1>3. /\ listed' = {} /\ pending' = <<>> /\ purging' = <<>> /\ ~draining' /\ ~deleted'
      /\ idleCallbacks' /\ \A s \in Streams : on'[s] = NoClient
  BY DEF DestructAllConnections
<1>4. Sound(<<>>) /\ Elements(<<>>) = {}
  BY PushFirst DEF Pushable
<1>5. OrderPart'
  BY <1>2, <1>4, SoundOrder
<1>6. LostListed' /\ LostDone' /\ StreamsOfLostConnectionsAreReset'
  BY <1>2, <1>3, <1>4 DEF LostListed, LostDone, StreamsOfLostConnectionsAreReset
<1>7. PurgePart' /\ DrainPart' /\ EmptyPart' /\ DemandPart' /\ ReadyPart' /\ DeletedPart'
  BY <1>2, <1>3, <1>4 DEF PurgePart, DrainPart, Doing, EmptyPart, DemandPart, ReadyPart, DeletedPart
<1>8. LimitPart' /\ DrainedClosing' /\ IdleClosing'
  BY <1>3 DEF LimitPart, DrainedClosing, IdleClosing, InState
<1>9. PlacePart'
  <2>1. \A i : i \notin 1..Len(<<>>)
    BY SMTT(30)
  <2> QED BY <1>3, <1>4, <2>1 DEF PlacePart
<1> QED BY <1>5, <1>6, <1>7, <1>8, <1>9 DEF Duties, LostPart

-----------------------------------------------------------------------------
(* All steps *)

(* Every step of a call in progress keeps the duties. *)
LEMMA StepDuties ==
  ASSUME IInv, Counted, Counted', Duties, Step,
         \A s \in Streams, c \in Clients : on[s] = c /\ on' = [on EXCEPT ![s] = NoClient]
           => NumActiveStreams(c)' = NumActiveStreams(c) - 1
  PROVE  Duties'
<1>1. CASE TryCreateNewConnections
  BY <1>1, TryCreateDuty
<1>2. CASE OnUpstreamReady
  <2>1. CASE pending # <<>> /\ InState("Ready") # {}
    BY <1>2, <2>1, ServeDuty
  <2>2. CASE ~(pending # <<>> /\ InState("Ready") # {})
    <3>1. /\ Running("upstreamReady") /\ Steady
          /\ stack' = (IF pending # <<>> THEN <<TryCreate(3, NoStream)>> ELSE <<>>) \o Rest
      BY <1>2, <2>2 DEF OnUpstreamReady, Steady, streamVars
    <3> QED BY <2>2, <3>1, UpstreamReadyEndDuty
  <2> QED BY <2>1, <2>2
<1>3. CASE OnPendingStreamCancel
  BY <1>3, CancelDuty
<1>4. CASE UserReturns \/ RetryAfterPurge
  BY <1>4, ReturnDuty
<1>5. CASE Close
  <2>1. CASE TheClient \in open
    BY <1>5, <2>1, CloseDuty
  <2>2. CASE TheClient \notin open
    <3>1. Running("close") /\ stack' = <<>> \o Rest /\ open' = open \ {TheClient}
      BY <1>5, <2>2 DEF Close
    <3>2. open' = open
      BY <2>2, <3>1
    <3>3. Steady
      BY <1>5, <3>2 DEF Close, Steady, clientVars
    <3>4. stack \in Seq(Frames) /\ Rest \in Seq(Frames) /\ Head(stack) \in Frames
      BY <3>1, RestTypes DEF IInv, StackPart
    <3>5. stack' = Rest
      BY <3>1, <3>4, PushForms
    <3> QED BY <2>2, <3>1, <3>3, <3>5, CloseIgnoredDuty
  <2> QED BY <2>1, <2>2
<1>6. CASE ResetStreams
  <2> DEFINE streams == {s \in Streams : on[s] = TheClient}
  <2>1. Running("reset")
    BY <1>6 DEF ResetStreams
  <2>2. CASE streams # {} /\ Multiplexed
    <3>1. PICK s \in streams : OnStreamDestroy(s, <<User>> \o stack)
      BY <1>6, <2>2 DEF ResetStreams
    <3>2. PICK c : c = TheClient
      OBVIOUS
    <3>3. "reset" \in ClientOps
      BY DEF ClientOps
    <3>4. c \in Clients /\ s \in Streams /\ on[s] = c
      BY <2>1, <3>1, <3>2, <3>3, TheClientType DEF IInv, StackPart
    <3>5. on' = [on EXCEPT ![s] = NoClient]
      BY <3>1 DEF OnStreamDestroy, OnStreamClosed
    <3>6. NumActiveStreams(c)' = NumActiveStreams(c) - 1
      BY <3>4, <3>5
    <3> QED BY <2>1, <2>2, <3>1, <3>2, <3>4, <3>6, StreamDestroyedDuty
  <2>3. CASE ~(streams # {} /\ Multiplexed)
    <3>1. Steady /\ stack' = (IF streams # {} THEN <<User>> ELSE <<>>) \o Rest
      BY <1>6, <2>3 DEF ResetStreams, Steady
    <3> QED BY <2>1, <2>3, <3>1, ResetEndDuty
  <2> QED BY <2>2, <2>3
<1>7. CASE OnConnectionLost \/ ReleaseClient
  BY <1>7, LostDuty
<1>8. CASE PurgePendingStreams
  BY <1>8, PurgeOneDuty, PurgeEndDuty
<1>9. CASE ClientClosed \/ CheckForIdleAndNotify
  BY <1>9, ClientClosedDuty, NotifyDuty
<1>10. CASE CheckForIdleAndCloseIdleConnsIfDraining \/ CloseIdleConnectionsForDrainingPool \/ CloseNextClient
  BY <1>10, CheckIdleDuty, CloseIdleDuty, CloseNextDuty
<1>11. CASE DrainRemainingClients
  <2>1. CASE InState("Ready") \cup InState("Busy") # {}
    BY <1>11, <2>1, DrainOneDuty
  <2>2. CASE InState("Ready") \cup InState("Busy") = {}
    <3>1. Running("drainRest") /\ Steady /\ stack' = Rest
      BY <1>11, <2>2 DEF DrainRemainingClients, Steady
    <3> QED BY <3>1, DrainEndDuty
  <2> QED BY <2>1, <2>2
<1>12. CASE DestructAllConnections
  BY <1>12, DestructedDuty, PushedCallsDuty
<1> QED BY <1>1, <1>2, <1>3, <1>4, <1>5, <1>6, <1>7, <1>8, <1>9, <1>10, <1>11, <1>12 DEF Step

(* So does every call of a user, and every event. *)
LEMMA NextDuties ==
  ASSUME IInv, Counted, Counted', Duties, [Next]_vars,
         \A s \in Streams, c \in Clients : on[s] = c /\ on' = [on EXCEPT ![s] = NoClient]
           => NumActiveStreams(c)' = NumActiveStreams(c) - 1
  PROVE  Duties'
<1>1. CASE Step
  BY <1>1, StepDuties
<1>2. ASSUME NEW s \in Streams, NewStream(s) PROVE Duties'
  BY <1>2, TakenDuty, QueuedDuty
<1>3. ASSUME NEW s \in Streams, Cancel(s) PROVE Duties'
  BY <1>3, PushedCallsDuty
<1>4. ASSUME NEW s \in Streams, EndStream(s) PROVE Duties'
  <2>1. PICK c : c = on[s]
    OBVIOUS
  <2>2. MayCall /\ on[s] # NoClient
    BY <1>4 DEF EndStream
  <2>3. c \in Clients
    BY <2>1, <2>2 DEF IInv, ClientPart, ClientTyped
  <2>4. CASE Multiplexed /\ OnStreamDestroy(s, stack)
    <3>1. on' = [on EXCEPT ![s] = NoClient]
      BY <2>4 DEF OnStreamDestroy, OnStreamClosed
    <3>2. NumActiveStreams(c)' = NumActiveStreams(c) - 1
      BY <2>1, <2>3, <3>1
    <3> QED BY <2>1, <2>2, <2>3, <2>4, <3>2, StreamDestroyedDuty
  <2>5. CASE ~Multiplexed /\ OnResetStream(s)
    BY <2>2, <2>5, PushedCallsDuty
  <2>6. CASE ~Multiplexed /\ OnDecodeComplete(s)
    <3>1. on' = [on EXCEPT ![s] = NoClient]
      BY <2>6 DEF OnDecodeComplete, OnStreamClosed
    <3>2. NumActiveStreams(c)' = NumActiveStreams(c) - 1
      BY <2>1, <2>3, <3>1
    <3> QED BY <2>1, <2>3, <2>6, <3>2, StreamWrapperDuty
  <2> QED BY <1>4, <2>4, <2>5, <2>6 DEF EndStream
<1>5. ASSUME NEW c \in Clients, OnConnected(c) \/ \E m \in Settings : OnSettings(c, m) PROVE Duties'
  BY <1>5, ConnectedDuty, SettingsDuty
<1>6. ASSUME NEW c \in Clients, ConnectionEnds(c) \/ OnProtocolError(c) \/ OnConnectTimeout(c) PROVE Duties'
  BY <1>6, PushedCallsDuty
<1>7. ASSUME NEW c \in Clients, OnConnectionDurationTimeout(c) \/ OnGoAway(c) PROVE Duties'
  BY <1>7, DrainEventDuty, PushedCallsDuty
<1>8. ASSUME NEW s \in Streams, DeleteStreamWrapper(s) PROVE Duties'
  <2>1. PICK c : c = on[s]
    OBVIOUS
  <2>2. c \in Clients /\ on' = [on EXCEPT ![s] = NoClient]
    BY <1>8, <2>1 DEF DeleteStreamWrapper, OnStreamClosed, IInv, ClientPart, ClientTyped
  <2>3. NumActiveStreams(c)' = NumActiveStreams(c) - 1
    BY <2>1, <2>2
  <2> QED BY <1>8, <2>1, <2>2, <2>3, StreamWrapperDuty
<1>9. CASE UpstreamReadyCallback \/ DrainAndDelete \/ DrainExistingConnections \/ Destroy
  BY <1>9, CallbackDuty, EndingDuty
<1>10. CASE MaybePreconnect
  BY <1>10, PreconnectDuty
<1>11. CASE UNCHANGED vars
  <2>1. Steady /\ stack' = stack
    BY <1>11 DEF vars, Steady, clientVars, streamVars, counterVars, poolVars
  <2> QED BY <2>1, StutterDuty
<1>12. UserCall => Duties'
  BY <1>2, <1>3, <1>4 DEF UserCall
<1>13. Event => Duties'
  BY <1>5, <1>6, <1>7, <1>8, <1>9, <1>10 DEF Event
<1> QED BY <1>1, <1>11, <1>12, <1>13 DEF Next

=============================================================================
