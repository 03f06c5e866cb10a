--------------------------- MODULE ConnPoolCalls ----------------------------
(***************************************************************************)
(* The books of the connection pool are kept by every step: by those that  *)
(* only continue other calls, those that create connections, queue, attach *)
(* and fail streams, and those that end streams, connections or the pool.  *)
(***************************************************************************)
EXTENDS ConnPoolBooks

(* Leaves are given to the Zenon prover, for at most 30 s, unless they name another. *)
USE ZenonT(30)

-----------------------------------------------------------------------------
(* Steps of the call stack *)

(* The step pushes only plain frames on what it keeps of the stack. *)
PlainStack ==
  /\ stack' \in Seq(Frames)
  /\ \A f \in Elements(stack') : f \in Elements(stack) \/ Plain(f)

(* A plain frame needs nothing. *)
LEMMA PlainStackStep ==
  ASSUME StackPart, PlainStack, deleted => deleted', \A f \in Elements(stack) : FrameOK(f)'
  PROVE  StackPart'
<1>1. ASSUME NEW f, Plain(f) PROVE FrameOK(f)' /\ f.op # "destroy"
  BY <1>1 DEF Plain, FrameOK
<1> QED BY <1>1 DEF PlainStack, StackPart

(* Pushing a sequence of plain frames. *)
LEMMA PlainPushSeq ==
  ASSUME NEW base \in Seq(Frames), Elements(base) \subseteq Elements(stack),
         NEW p \in Seq(Frames), \A h \in Elements(p) : Plain(h), stack' = p \o base
  PROVE  PlainStack
<1>1. p \o base \in Seq(Frames) /\ Elements(p \o base) = Elements(p) \cup Elements(base)
  BY SMTT(30), ElementsConcat
<1> QED BY <1>1 DEF PlainStack

(* Pushing up to two plain frames. *)
LEMMA PlainPush ==
  ASSUME NEW base \in Seq(Frames), Elements(base) \subseteq Elements(stack),
         NEW f \in Frames, Plain(f), NEW g \in Frames, Plain(g),
         \/ stack' = base \/ stack' = <<>> \o base
         \/ stack' = <<f>> \o base \/ stack' = <<f, g>> \o base
         \/ stack' = <<>> \/ stack' = <<f>> \/ stack' = <<f, g>>
  PROVE  PlainStack
<1>1. <<>> \in Seq(Frames) /\ <<f>> \in Seq(Frames) /\ <<f, g>> \in Seq(Frames)
  BY SMTT(30)
<1>2. /\ Elements(<<>>) = {} /\ Elements(<<f>>) = {f} /\ Elements(<<f, g>>) = {f, g}
  BY ElementsSmall
<1>4. CASE stack' = base
  BY <1>4 DEF PlainStack
<1>5. CASE stack' = <<>> \o base \/ stack' = <<f>> \o base \/ stack' = <<f, g>> \o base
  BY <1>1, <1>2, <1>5, PlainPushSeq
<1>6. CASE stack' = <<>> \/ stack' = <<f>> \/ stack' = <<f, g>>
  BY <1>1, <1>2, <1>6 DEF PlainStack
<1> QED BY <1>4, <1>5, <1>6

(* A step that leaves the queue, the capacities and the counters alone. *)
LEMMA QuietStep ==
  ASSUME IInv, UNCHANGED <<state, remaining, limit, debt, listed, on, counterVars, pending>>,
         configured' = configured, open' \subseteq open, held' = held,
         purging' \in Seq(Streams), PlainStack, deleted => deleted',
         {draining, deleted, idleCallbacks, readyCallback}' \subseteq BOOLEAN, cached' \in Nat
  PROVE  IInv'
<1>1. Books'
  BY NoClientStep DEF IInv, ClientPart, counterVars
<1>2. ClientPart'
  <2>1. ClientTyped'
    BY DEF IInv, ClientPart, ClientTyped
  <2>2. ActiveStreamsAreCounted'
    BY DEF IInv, ClientPart, ActiveStreamsAreCounted, counterVars
  <2> QED BY <1>1, <2>1, <2>2 DEF ClientPart
<1>3. \A f \in Elements(stack) : FrameOK(f)'
  BY DEF IInv, StackPart, FrameOK
<1>4. StackPart'
  BY <1>3, PlainStackStep DEF IInv
<1>5. QueuePart'
  BY DEF IInv, QueuePart, PoolTyped
<1> QED BY <1>2, <1>4, <1>5 DEF IInv

(* A step that changes only the stack. *)
LEMMA StackOnlyStep ==
  ASSUME IInv, UNCHANGED <<clientVars, streamVars, counterVars, poolVars>>, PlainStack
  PROVE  IInv'
<1>1. /\ UNCHANGED <<state, remaining, limit, debt, listed, on, counterVars, pending>>
      /\ configured' = configured /\ open' \subseteq open /\ held' = held
      /\ UNCHANGED <<purging, draining, deleted, idleCallbacks, readyCallback, cached>>
  BY DEF clientVars, streamVars, poolVars
<1>2. /\ purging' \in Seq(Streams) /\ cached' \in Nat
      /\ {draining, deleted, idleCallbacks, readyCallback}' \subseteq BOOLEAN
      /\ deleted => deleted'
  BY <1>1 DEF IInv, QueuePart, PoolTyped
<1> QED BY <1>1, <1>2, QuietStep

-----------------------------------------------------------------------------
(* The actions that leave clients and counters alone *)

(* Calls and events that only start or continue other calls. *)
LEMMA CallsStep ==
  ASSUME IInv,
         \/ UserReturns \/ RetryAfterPurge \/ CheckForIdleAndCloseIdleConnsIfDraining
         \/ CloseIdleConnectionsForDrainingPool \/ CloseNextClient
         \/ DrainExistingConnections
         \/ (\E s \in Streams : Cancel(s))
         \/ (\E c \in Clients : ConnectionEnds(c) \/ OnProtocolError(c) \/ OnConnectTimeout(c))
  PROVE  IInv'
<1>0. stack \in Seq(Frames)
  BY DEF IInv, StackPart
<1>1. CASE UserReturns
  <2>1. PlainStack
    BY <1>0, <1>1, RestTypes, PlainPush, PlainCalls DEF UserReturns
  <2> QED BY <1>1, <2>1, StackOnlyStep DEF UserReturns
<1>2. CASE RetryAfterPurge
  <2>1. TryCreate(3, NoStream) \in Frames /\ Plain(TryCreate(3, NoStream))
    BY SMTT(30), PlainCalls, PlainCallsOn
  <2>2. PlainStack
    BY <1>0, <1>2, <2>1, RestTypes, PlainPush DEF RetryAfterPurge
  <2> QED BY <1>2, <2>2, StackOnlyStep DEF RetryAfterPurge
<1>3. CASE CheckForIdleAndCloseIdleConnsIfDraining
  <2> DEFINE f == Call("closeIdle")
             g == Call("notifyIdle")
  <2>1. f \in Frames /\ Plain(f) /\ g \in Frames /\ Plain(g)
    BY PlainCalls, PlainCallsOn
  <2>2. Rest \in Seq(Frames) /\ Elements(Rest) \subseteq Elements(stack)
    BY <1>0, <1>3, RestTypes DEF CheckForIdleAndCloseIdleConnsIfDraining
  <2> DEFINE p == IF draining THEN <<f>> ELSE <<>>
             e == <<g>>
  <2>3. stack' = (p \o e) \o Rest
    BY <1>3 DEF CheckForIdleAndCloseIdleConnsIfDraining
  <2>4. /\ p \in Seq(Frames) /\ \A h \in Elements(p) : Plain(h)
        /\ e \in Seq(Frames) /\ \A h \in Elements(e) : Plain(h)
    <3> HIDE DEF f, g
    <3> QED BY SMTT(30), <2>1, ElementsSmall
  <2>5. PlainStack
    <3> HIDE DEF f, g, p, e
    <3>1. /\ p \o e \in Seq(Frames)
          /\ Elements(p \o e) = Elements(p) \cup Elements(e)
      BY <2>4, ElementsConcat
    <3>2. \A h \in Elements(p \o e) : Plain(h)
      BY <2>4, <3>1
    <3> QED BY <2>2, <2>3, <3>1, <3>2, PlainPushSeq
  <2> QED BY <1>3, <2>5, StackOnlyStep DEF CheckForIdleAndCloseIdleConnsIfDraining
<1>4. CASE CloseIdleConnectionsForDrainingPool
  <2>1. IdleClients \in SUBSET Clients
    BY DEF IInv, IdleClients, InState, ClientPart, ClientTyped
  <2>2. CloseAll(IdleClients) \in Frames /\ Plain(CloseAll(IdleClients))
    BY <2>1, PlainCalls, PlainCallsOn
  <2>3. PlainStack
    BY <1>0, <1>4, <2>2, RestTypes, PlainPush DEF CloseIdleConnectionsForDrainingPool
  <2> QED BY <1>4, <2>3, StackOnlyStep DEF CloseIdleConnectionsForDrainingPool
<1>5. CASE CloseNextClient
  <2>1. /\ Rest \in Seq(Frames) /\ Elements(Rest) \subseteq Elements(stack)
        /\ Head(stack).cs \in SUBSET Clients
    BY <1>0, <1>5, RestTypes DEF CloseNextClient
  <2>2. ASSUME stack' = Rest PROVE PlainStack
    BY <2>1, <2>2 DEF PlainStack
  <2>3. ASSUME NEW c \in Head(stack).cs,
               stack' = <<CallOn("close", c), CloseAll(Head(stack).cs \ {c})>> \o Rest
        PROVE  PlainStack
    <3> DEFINE f == CallOn("close", c)
               g == CloseAll(Head(stack).cs \ {c})
    <3>1. f \in Frames /\ Plain(f) /\ g \in Frames /\ Plain(g)
      BY <2>1, PlainCalls, PlainCallsOn
    <3>2. stack' = <<f, g>> \o Rest
      BY <2>3
    <3> HIDE DEF f, g
    <3> QED BY <2>1, <3>1, <3>2, PlainPush
  <2>4. PlainStack
    BY <1>5, <2>2, <2>3 DEF CloseNextClient
  <2> QED BY <1>5, <2>4, StackOnlyStep DEF CloseNextClient
<1>6. CASE DrainExistingConnections
  <2>1. /\ Call("closeIdle") \in Frames /\ Plain(Call("closeIdle"))
        /\ Call("drainRest") \in Frames /\ Plain(Call("drainRest"))
    BY PlainCalls, PlainCallsOn
  <2>2. PlainStack
    BY <1>0, <1>6, <2>1, PlainPush DEF DrainExistingConnections
  <2> QED BY <1>6, <2>2, StackOnlyStep DEF DrainExistingConnections
<1>7. ASSUME NEW s \in Streams, Cancel(s) PROVE IInv'
  <2>1. PICK op \in {"cancel", "cancelExcess"} : stack' = <<CallFor(op, s)>> \o stack
    BY <1>7 DEF Cancel
  <2>2. CallFor(op, s) \in Frames /\ Plain(CallFor(op, s))
    BY PlainCalls, PlainCallsOn
  <2>3. PlainStack
    BY <1>0, <2>1, <2>2, PlainPush
  <2> QED BY <1>7, <2>3, StackOnlyStep DEF Cancel
<1>8. ASSUME NEW c \in Clients, ConnectionEnds(c) PROVE IInv'
  <2>1. CallOn("close", c) \in Frames /\ Plain(CallOn("close", c))
    BY PlainCalls, PlainCallsOn
  <2>2. PlainStack
    BY <1>0, <1>8, <2>1, PlainPush DEF ConnectionEnds
  <2> QED BY <1>8, <2>2, StackOnlyStep DEF ConnectionEnds
<1>9. ASSUME NEW c \in Clients, OnProtocolError(c) PROVE IInv'
  <2>1. CallOnError("close", c) \in Frames /\ Plain(CallOnError("close", c))
    BY ErrorFrameType
  <2>2. PlainStack
    BY <1>0, <1>9, <2>1, PlainPush DEF OnProtocolError
  <2> QED BY <1>9, <2>2, StackOnlyStep DEF OnProtocolError
<1> QED BY <1>1, <1>2, <1>3, <1>4, <1>5, <1>6, <1>7, <1>8, <1>9 DEF OnConnectTimeout

(* Events that change the pool's flags. *)
LEMMA FlagsStep ==
  ASSUME IInv, CheckForIdleAndNotify \/ UpstreamReadyCallback \/ DrainAndDelete
  PROVE  IInv'
<1> DEFINE same == /\ UNCHANGED <<state, remaining, limit, debt, listed, on, counterVars, pending>>
                   /\ configured' = configured /\ open' \subseteq open /\ held' = held
                   /\ purging' \in Seq(Streams) /\ cached' \in Nat
           flags == /\ {draining, deleted, idleCallbacks, readyCallback}' \subseteq BOOLEAN
                    /\ deleted => deleted'
<1>0. /\ stack \in Seq(Frames) /\ purging \in Seq(Streams) /\ cached \in Nat
      /\ {draining, deleted, idleCallbacks, readyCallback} \subseteq BOOLEAN
  BY DEF IInv, StackPart, QueuePart, PoolTyped
<1>1. CASE CheckForIdleAndNotify
  <2>1. same /\ flags
    BY <1>0, <1>1 DEF CheckForIdleAndNotify, clientVars, streamVars
  <2>2. PlainStack
    BY <1>0, <1>1, RestTypes, PlainPush, PlainCalls DEF CheckForIdleAndNotify
  <2> QED BY <2>1, <2>2, QuietStep
<1>2. CASE UpstreamReadyCallback
  <2>1. same /\ flags
    BY <1>0, <1>2 DEF UpstreamReadyCallback, clientVars, streamVars
  <2>2. Call("upstreamReady") \in Frames /\ Plain(Call("upstreamReady"))
    BY PlainCalls, PlainCallsOn
  <2>3. PlainStack
    BY <1>0, <1>2, <2>2, PlainPush DEF UpstreamReadyCallback
  <2> QED BY <2>1, <2>3, QuietStep
<1>3. CASE DrainAndDelete
  <2>1. same /\ flags
    BY <1>0, <1>3 DEF DrainAndDelete, clientVars, streamVars
  <2>2. Call("checkIdle") \in Frames /\ Plain(Call("checkIdle"))
    BY PlainCalls, PlainCallsOn
  <2>3. PlainStack
    BY <1>0, <1>3, <2>2, PlainPush DEF DrainAndDelete
  <2> QED BY <2>1, <2>3, QuietStep
<1> QED BY <1>1, <1>2, <1>3

-----------------------------------------------------------------------------
(* The actions that change clients *)

(* A step that keeps the parts about clients and frames, and the queue. *)
LEMMA CombineStep ==
  ASSUME IInv, ClientPart', \A f \in Elements(stack) : FrameOK(f)', PlainStack,
         PoolTyped', pending' = pending, deleted => deleted',
         \A x \in Elements(pending) : on[x] = NoClient => on'[x] = NoClient
  PROVE  IInv'
<1>1. StackPart'
  BY PlainStackStep DEF IInv
<1>2. QueuePart'
  BY DEF IInv, QueuePart, Elements
<1> QED BY <1>1, <1>2 DEF IInv

(* tryCreateNewConnection with plain continuations. *)
LEMMA CreateStep ==
  ASSUME IInv, NEW g, NEW p, NEW q, NEW r, TryCreateNewConnection(g, p, q, r),
         UNCHANGED <<streamVars, poolVars>>,
         stack' = p => PlainStack, stack' = q => PlainStack, stack' = r => PlainStack
  PROVE  IInv'
<1>1. PlainStack
  BY DEF TryCreateNewConnection
<1>2. PoolTyped' /\ pending' = pending /\ on' = on /\ deleted' = deleted
  BY DEF IInv, QueuePart, PoolTyped, streamVars, poolVars
<1>3. CASE UNCHANGED <<clientVars, counterVars>>
  BY <1>1, <1>3, StackOnlyStep
<1>4. ASSUME NEW c \in Clients, CreateClient(c) PROVE IInv'
  <2>1. ClientPart' /\ \A f \in Elements(stack) : FrameOK(f)'
    BY <1>2, <1>4, CreateClientStep DEF IInv, QueuePart, PoolTyped
  <2> QED BY <1>1, <1>2, <2>1, CombineStep
<1> QED BY <1>3, <1>4 DEF TryCreateNewConnection

(* The two places that ask for connections. *)
LEMMA TryCreateStep ==
  ASSUME IInv, TryCreateNewConnections \/ MaybePreconnect
  PROVE  IInv'
<1>1. CASE TryCreateNewConnections
  <2> DEFINE n == Head(stack).n
             s == Head(stack).s
             f == TryCreate(n - 1, s)
             x == CallFor("cancelExcess", s)
             failed == IF s = NoStream THEN Rest ELSE <<x, User>> \o Rest
  <2>1. /\ Rest \in Seq(Frames) /\ Elements(Rest) \subseteq Elements(stack)
        /\ s \in Streams \cup {NoStream} /\ n \in 0..3
    BY <1>1, RestTypes DEF IInv, StackPart, TryCreateNewConnections
  <2>2. CASE n = 0
    <3>1. stack' = Rest /\ UNCHANGED <<clientVars, streamVars, counterVars, poolVars>>
      BY <1>1, <2>2 DEF TryCreateNewConnections
    <3>2. PlainStack
      BY <2>1, <3>1 DEF PlainStack
    <3> QED BY <3>1, <3>2, StackOnlyStep
  <2>3. CASE n # 0
    <3>1. /\ TryCreateNewConnection(0, <<f>> \o Rest, Rest, failed)
          /\ UNCHANGED <<streamVars, poolVars>>
      BY <1>1, <2>3 DEF TryCreateNewConnections
    <3>2. /\ f \in Frames /\ Plain(f) /\ x \in Frames /\ Plain(x)
          /\ User \in Frames /\ Plain(User)
      <4>1. n - 1 \in 0..3
        BY SMTT(30), <2>1, <2>3
      <4> QED BY <2>1, <4>1, PlainCalls, PlainCallsOn
    <3> HIDE DEF f, x
    <3>3. stack' = <<f>> \o Rest => PlainStack
      BY <2>1, <3>2, PlainPush
    <3>4. stack' = Rest => PlainStack
      BY <2>1 DEF PlainStack
    <3>5. stack' = failed => PlainStack
      BY <2>1, <3>2, <3>4, PlainPush
    <3> HIDE DEF failed
    <3> QED BY <3>1, <3>3, <3>4, <3>5, CreateStep
  <2> QED BY <2>2, <2>3
<1>2. CASE MaybePreconnect
  <2>1. stack' = <<>> => PlainStack
    BY SMTT(30), ElementsSmall DEF PlainStack
  <2> QED BY <1>2, <2>1, CreateStep DEF MaybePreconnect
<1> QED BY <1>1, <1>2

(* Closing a connection starts the calls that end its client. *)
LEMMA CloseStep ==
  ASSUME IInv, Close
  PROVE  IInv'
<1>1. TheClient \in Clients
  BY TheClientType DEF IInv, StackPart, Close, ClientOps
<1> DEFINE reset == [Head(stack) EXCEPT !.op = "reset"]
<1>2. /\ CallOn("lost", TheClient) \in Frames /\ Plain(CallOn("lost", TheClient))
  BY <1>1, PlainCalls, PlainCallsOn
<1>3. Rest \in Seq(Frames) /\ Elements(Rest) \subseteq Elements(stack)
  BY RestTypes DEF IInv, StackPart, Close
<1>7. reset \in Frames /\ Plain(reset)
  <2>1. Head(stack) \in Frames /\ Head(stack).op = "close"
    BY RestTypes DEF IInv, StackPart, Close
  <2> QED BY <2>1 DEF Frames, Ops, ClientOps, Plain
<1>4. \/ stack' = <<reset, CallOn("lost", TheClient)>> \o Rest
      \/ stack' = <<>> \o Rest
  BY DEF Close
<1> HIDE DEF reset
<1>5. PlainStack
  BY <1>2, <1>3, <1>4, <1>7, PlainPush
<1>6. /\ UNCHANGED <<state, remaining, limit, debt, listed, on, counterVars, pending>>
      /\ configured' = configured /\ open' \subseteq open /\ held' = held
      /\ purging' \in Seq(Streams) /\ cached' \in Nat
      /\ {draining, deleted, idleCallbacks, readyCallback}' \subseteq BOOLEAN
      /\ deleted' = deleted
  <2>1. /\ UNCHANGED <<state, remaining, limit, debt, listed, on, counterVars, pending>>
        /\ configured' = configured /\ open' = open \ {TheClient} /\ held' = held
        /\ purging' = purging /\ cached' = cached /\ draining' = draining
        /\ deleted' = deleted /\ idleCallbacks' = idleCallbacks /\ readyCallback' = readyCallback
    <3>1. UNCHANGED <<state, remaining, limit, configured, debt, listed, held, counterVars>>
      BY DEF Close
    <3>2. UNCHANGED <<on, pending, purging, draining, deleted, idleCallbacks, readyCallback, cached>>
      BY DEF Close, streamVars, poolVars
    <3>3. open' = open \ {TheClient}
      BY DEF Close
    <3> QED BY <3>1, <3>2, <3>3
  <2>2. /\ purging \in Seq(Streams) /\ cached \in Nat
        /\ {draining, deleted, idleCallbacks, readyCallback} \subseteq BOOLEAN
    BY DEF IInv, QueuePart, PoolTyped
  <2> QED BY <2>1, <2>2
<1> QED BY <1>5, <1>6, QuietStep

(* Reporting a failure to the user of a purged stream. *)
LEMMA PurgeStep ==
  ASSUME IInv, PurgePendingStreams
  PROVE  IInv'
<1>1. Rest \in Seq(Frames) /\ Elements(Rest) \subseteq Elements(stack) /\ stack \in Seq(Frames)
  BY RestTypes DEF IInv, StackPart, PurgePendingStreams
<1>2. User \in Frames /\ Plain(User)
  BY PlainCalls, PlainCallsOn
<1>3. stack' = <<User>> \o stack \/ stack' = Rest
  BY DEF PurgePendingStreams
<1>4. PlainStack
  BY <1>1, <1>2, <1>3, PlainPush
<1>5. purging \in Seq(Streams)
  BY DEF IInv, QueuePart, PoolTyped
<1>6. purging' \in Seq(Streams)
  <2>1. CASE purging = <<>>
    BY <1>5, <2>1 DEF PurgePendingStreams
  <2>2. CASE purging # <<>>
    <3>1. purging' = Tail(purging)
      BY <2>2 DEF PurgePendingStreams
    <3> QED BY <1>5, <2>2, <3>1, ElementsTail
  <2> QED BY <2>1, <2>2
<1>7. /\ UNCHANGED <<state, remaining, limit, debt, listed, on, counterVars, pending>>
      /\ configured' = configured /\ open' \subseteq open /\ held' = held
      /\ cached' \in Nat
      /\ {draining, deleted, idleCallbacks, readyCallback}' \subseteq BOOLEAN
      /\ deleted' = deleted
  <2>1. /\ UNCHANGED <<state, remaining, limit, debt, listed, on, counterVars, pending>>
        /\ configured' = configured /\ open' = open /\ held' = held
        /\ cached' = cached /\ draining' = draining
        /\ deleted' = deleted /\ idleCallbacks' = idleCallbacks /\ readyCallback' = readyCallback
    BY DEF PurgePendingStreams, clientVars, poolVars
  <2>2. cached \in Nat /\ {draining, deleted, idleCallbacks, readyCallback} \subseteq BOOLEAN
    BY DEF IInv, QueuePart, PoolTyped
  <2> QED BY <2>1, <2>2
<1> QED BY <1>4, <1>6, <1>7, QuietStep

-----------------------------------------------------------------------------
(* Attaching the queued streams *)

(* A queue keeps its streams distinct and unattached when its oldest       *)
(* stream leaves it and is attached.                                       *)
LEMMA QueueTail ==
  ASSUME QueuePart, ClientTyped, pending # <<>>, pending' = Tail(pending), PoolTyped',
         \A x \in Streams : x # Head(pending) => on'[x] = on[x]
  PROVE  QueuePart'
<1>1. pending \in Seq(Streams) /\ Len(pending) \in Nat /\ Len(pending) > 0
  BY SMTT(30) DEF QueuePart, PoolTyped
<1>2. Len(pending') = Len(pending) - 1
  BY SMTT(30), <1>1
<1>3. ASSUME NEW i \in 1..Len(pending')
      PROVE  /\ pending'[i] = pending[i + 1] /\ i + 1 \in 1..Len(pending)
             /\ pending[i + 1] \in Streams /\ pending[i + 1] # Head(pending)
  <2>1. pending'[i] = pending[i + 1] /\ i + 1 \in 1..Len(pending) /\ i + 1 # 1
    BY SMTT(30), <1>1, <1>2
  <2>2. Head(pending) = pending[1] /\ 1 \in 1..Len(pending)
    BY SMTT(30), <1>1
  <2> QED BY SMTT(30), <1>1, <2>1, <2>2 DEF QueuePart
<1>4. ASSUME NEW i \in 1..Len(pending'), NEW j \in 1..Len(pending'), pending'[i] = pending'[j]
      PROVE  i = j
  <2>1. i + 1 = j + 1
    BY SMTT(30), <1>3, <1>4 DEF QueuePart
  <2> QED BY SMTT(30), <2>1
<1>5. ASSUME NEW i \in 1..Len(pending') PROVE on'[pending'[i]] = NoClient
  BY SMTT(30), <1>3 DEF QueuePart
<1> QED BY <1>4, <1>5 DEF QueuePart

(* Serving the queue. *)
LEMMA UpstreamReadyStep ==
  ASSUME IInv, OnUpstreamReady
  PROVE  IInv'
<1>1. /\ Rest \in Seq(Frames) /\ Elements(Rest) \subseteq Elements(stack)
      /\ stack \in Seq(Frames)
  BY RestTypes DEF IInv, StackPart, OnUpstreamReady
<1>2. CASE pending # <<>> /\ InState("Ready") # {}
  <2>1. PICK c \in InState("Ready") : AttachStreamToClient(c, Head(pending), stack)
    BY <1>2 DEF OnUpstreamReady
  <2>2. pending \in Seq(Streams) /\ pending' = Tail(pending)
    BY <1>2 DEF OnUpstreamReady, IInv, QueuePart, PoolTyped
  <2>3. Head(pending) \in Streams /\ on[Head(pending)] = NoClient
    <3>1. 1 \in 1..Len(pending) /\ Head(pending) = pending[1]
      BY SMTT(30), <1>2, <2>2
    <3> QED BY SMTT(30), <2>2, <3>1 DEF IInv, QueuePart
  <2>4. ClientPart' /\ \A f \in Elements(stack) : FrameOK(f)'
    BY <2>1, <2>3, AttachStep DEF IInv
  <2>5. PlainStack
    <3>1. User \in Frames /\ Plain(User)
      BY PlainCalls, PlainCallsOn
    <3> QED BY <1>1, <2>1, <3>1, PlainPush DEF AttachStreamToClient
  <2>6. PoolTyped'
    <3>1. Tail(pending) \in Seq(Streams)
      BY SMTT(30), <1>2, <2>2
    <3> QED BY <2>2, <3>1 DEF OnUpstreamReady, poolVars, IInv, QueuePart, PoolTyped
  <2>7. \A x \in Streams : x # Head(pending) => on'[x] = on[x]
    BY <2>1 DEF AttachStreamToClient, IInv, ClientPart, ClientTyped
  <2>8. QueuePart'
    BY <1>2, <2>2, <2>6, <2>7, QueueTail DEF IInv, ClientPart
  <2>9. deleted' = deleted
    BY <1>2 DEF OnUpstreamReady, poolVars
  <2> QED BY <2>4, <2>5, <2>8, <2>9, PlainStackStep DEF IInv
<1>3. CASE ~(pending # <<>> /\ InState("Ready") # {})
  <2>1. /\ UNCHANGED <<clientVars, streamVars, counterVars, poolVars>>
        /\ stack' = <<TryCreate(3, NoStream)>> \o Rest \/ stack' = <<>> \o Rest
    BY <1>3 DEF OnUpstreamReady, streamVars
  <2>2. TryCreate(3, NoStream) \in Frames /\ Plain(TryCreate(3, NoStream))
    BY SMTT(30), PlainCalls, PlainCallsOn
  <2>3. PlainStack
    BY <1>1, <2>1, <2>2, PlainPush
  <2> QED BY <2>1, <2>3, StackOnlyStep
<1> QED BY <1>2, <1>3

-----------------------------------------------------------------------------
(* New streams, and streams that end *)

(* A user asks for a stream. *)
LEMMA NewStreamStep ==
  ASSUME IInv, NEW s \in Streams, NewStream(s)
  PROVE  IInv'
<1>1. /\ on[s] = NoClient /\ s \notin Elements(pending)
      /\ purging' = purging /\ UNCHANGED poolVars /\ deleted' = deleted
      /\ pending \in Seq(Streams) /\ stack \in Seq(Frames)
  BY DEF NewStream, FreeStream, IInv, QueuePart, PoolTyped, StackPart, poolVars
<1>2. User \in Frames /\ Plain(User)
  BY PlainCalls, PlainCallsOn
<1>3. ASSUME NEW c \in InState("Ready"), UNCHANGED pending,
             AttachStreamToClient(c, s, <<TryCreate(3, NoStream)>> \o stack)
      PROVE  IInv'
  <2>1. ClientPart' /\ \A f \in Elements(stack) : FrameOK(f)'
    BY <1>1, <1>3, AttachStep DEF IInv
  <2>2. TryCreate(3, NoStream) \in Frames /\ Plain(TryCreate(3, NoStream))
    BY SMTT(30), PlainCalls, PlainCallsOn
  <2>3. PlainStack
    <3> DEFINE f == TryCreate(3, NoStream)
    <3>1. stack' = <<User>> \o (<<f>> \o stack)
      BY <1>3 DEF AttachStreamToClient
    <3>2. f \in Frames /\ Plain(f)
      BY <2>2
    <3> HIDE DEF f
    <3> DEFINE m == <<f>> \o stack
    <3>3. m \in Seq(Frames) /\ Elements(m) = {f} \cup Elements(stack)
      BY SMTT(30), <1>1, <3>2, ElementsPush
    <3>4. stack' = <<User>> \o m
      BY <3>1
    <3> HIDE DEF m
    <3>5. stack' \in Seq(Frames) /\ Elements(stack') = {User} \cup Elements(m)
      BY SMTT(30), <1>2, <3>3, <3>4, ElementsPush
    <3> QED BY <1>2, <3>2, <3>3, <3>5 DEF PlainStack
  <2>4. PoolTyped'
    BY <1>1, <1>3 DEF IInv, QueuePart, PoolTyped, poolVars
  <2>5. \A x \in Elements(pending) : on[x] = NoClient => on'[x] = NoClient
    <3>1. /\ on' = [on EXCEPT ![s] = c] \/ on' = on
          /\ on \in [Streams -> Clients \cup {NoClient}]
      BY <1>3 DEF AttachStreamToClient, IInv, ClientPart, ClientTyped
    <3>2. Elements(pending) \subseteq Streams
      BY SMTT(30), <1>1 DEF Elements
    <3> QED BY <1>1, <3>1, <3>2
  <2> QED BY <1>1, <1>3, <2>1, <2>3, <2>4, <2>5, CombineStep
<1>4. ASSUME NEW room \in BOOLEAN,
             pending' = IF room THEN Append(pending, s) ELSE pending,
             stack' = <<IF room THEN TryCreate(3, s) ELSE User>> \o stack,
             UNCHANGED <<clientVars, counterVars, on>>
      PROVE  IInv'
  <2>1. TryCreate(3, s) \in Frames /\ Plain(TryCreate(3, s))
    BY SMTT(30), PlainCalls, PlainCallsOn
  <2>2. PlainStack
    BY <1>1, <1>2, <1>4, <2>1, PlainPush
  <2>3. Books'
    BY <1>4, NoClientStep DEF IInv, ClientPart, clientVars, counterVars
  <2>4. ClientPart' /\ \A f \in Elements(stack) : FrameOK(f)'
    BY <1>4, <2>3 DEF IInv, ClientPart, ClientTyped, ActiveStreamsAreCounted, clientVars,
                                  counterVars, StackPart, FrameOK
  <2>5. QueuePart'
    <3>1. CASE ~room
      BY <1>1, <1>4, <3>1 DEF IInv, QueuePart, PoolTyped, poolVars
    <3>2. CASE room
      <4>1. /\ pending' \in Seq(Streams) /\ Len(pending') = Len(pending) + 1
            /\ \A i \in 1..Len(pending) : pending'[i] = pending[i]
            /\ pending'[Len(pending) + 1] = s
        BY SMTT(30), <1>1, <1>4, <3>2
      <4>2. PoolTyped'
        BY <1>1, <4>1 DEF IInv, QueuePart, PoolTyped, poolVars
      <4>3. \A i \in 1..Len(pending) : pending[i] # s
        BY <1>1 DEF Elements
      <4>4. ASSUME NEW i \in 1..Len(pending'), NEW j \in 1..Len(pending'),
                   pending'[i] = pending'[j]
            PROVE  i = j
        BY SMTT(30), <1>1, <4>1, <4>3, <4>4 DEF IInv, QueuePart
      <4>5. ASSUME NEW i \in 1..Len(pending') PROVE on'[pending'[i]] = NoClient
        <5>1. on' = on
          BY <1>4
        <5>2. CASE i = Len(pending) + 1
          BY <1>1, <4>1, <5>1, <5>2
        <5>3. CASE i # Len(pending) + 1
          BY SMTT(30), <1>1, <4>1, <5>1, <5>3 DEF IInv, QueuePart
        <5> QED BY <5>2, <5>3
      <4> QED BY <4>2, <4>4, <4>5 DEF QueuePart
    <3> QED BY <3>1, <3>2
  <2> QED BY <1>1, <2>2, <2>4, <2>5, PlainStackStep DEF IInv
<1>5. \A used, max : MayHaveRoom(used, max) \subseteq BOOLEAN
  BY SMTT(30) DEF MayHaveRoom
<1> QED BY <1>3, <1>4, <1>5 DEF NewStream

(* A stack that adds only plain frames to the present one. *)
PlainOver(q) == q \in Seq(Frames) /\ \A f \in Elements(q) : f \in Elements(stack) \/ Plain(f)

(* Pushing a plain frame on such a stack. *)
LEMMA OverPush ==
  ASSUME NEW q, PlainOver(q), NEW f \in Frames, Plain(f)
  PROVE  PlainOver(<<f>> \o q) /\ PlainOver(<<>> \o q)
<1>1. <<f>> \o q \in Seq(Frames) /\ Elements(<<f>> \o q) = {f} \cup Elements(q)
  BY SMTT(30), ElementsPush DEF PlainOver
<1>2. <<>> \o q = q
  BY SMTT(30) DEF PlainOver
<1>3. PlainOver(<<f>> \o q)
  <2> DEFINE m == <<f>> \o q
  <2>1. m \in Seq(Frames) /\ Elements(m) = {f} \cup Elements(q)
    BY <1>1
  <2> HIDE DEF m
  <2>2. PlainOver(m)
    BY <2>1 DEF PlainOver
  <2> QED BY <2>2 DEF m
<1> QED BY <1>2, <1>3

(* The stacks the actions start from. *)
LEMMA OverBase ==
  ASSUME stack \in Seq(Frames)
  PROVE  PlainOver(stack) /\ PlainOver(<<>>) /\ (stack # <<>> => PlainOver(Rest))
<1>1. <<>> \in Seq(Frames) /\ Elements(<<>>) = {}
  BY SMTT(30), ElementsSmall
<1>2. stack # <<>> => Rest \in Seq(Frames) /\ Elements(Rest) \subseteq Elements(stack)
  BY ElementsTail DEF Rest
<1> QED BY <1>1, <1>2 DEF PlainOver

(* The calls onStreamClosed leaves to be made are plain. *)
LEMMA StreamClosedStack ==
  ASSUME NEW c \in Clients, NEW s, NEW rest, PlainOver(rest), OnStreamClosed(c, s, rest)
  PROVE  PlainStack
<1>1. /\ CallOn("close", c) \in Frames /\ Plain(CallOn("close", c))
      /\ Call("upstreamReady") \in Frames /\ Plain(Call("upstreamReady"))
  BY PlainCalls, PlainCallsOn
<1>2. \/ stack' = <<CallOn("close", c)>> \o rest
      \/ stack' = <<Call("upstreamReady")>> \o rest
      \/ stack' = <<>> \o rest
  BY DEF OnStreamClosed
<1>3. PlainOver(stack')
  BY <1>1, <1>2, OverPush
<1> QED BY <1>3 DEF PlainOver, PlainStack

(* A stream that ends, without the parts of the pool that it never touches. *)
LEMMA StreamEndsStep ==
  ASSUME IInv, NEW s \in Streams, on[s] # NoClient, NEW rest, PlainOver(rest),
         OnStreamClosed(on[s], s, rest), UNCHANGED <<pending, purging>>,
         UNCHANGED <<draining, deleted, idleCallbacks, cached>>, readyCallback' \in BOOLEAN
  PROVE  IInv'
<1>1. on[s] \in Clients
  BY DEF IInv, ClientPart, ClientTyped
<1>2. ClientPart' /\ \A f \in Elements(stack) : FrameOK(f)'
  BY <1>1, StreamClosedStep DEF IInv
<1>3. PlainStack
  BY <1>1, StreamClosedStack
<1>4. PoolTyped' /\ pending' = pending
  BY DEF IInv, QueuePart, PoolTyped
<1>5. \A x \in Elements(pending) : on[x] = NoClient => on'[x] = NoClient
  <2>1. Elements(pending) \subseteq Streams
    <3>1. pending \in Seq(Streams)
      BY DEF IInv, QueuePart, PoolTyped
    <3> QED BY SMTT(30), <3>1 DEF Elements
  <2>2. on' = [on EXCEPT ![s] = NoClient] /\ on \in [Streams -> Clients \cup {NoClient}]
    BY DEF OnStreamClosed, IInv, ClientPart, ClientTyped
  <2> QED BY <2>1, <2>2
<1> QED BY <1>2, <1>3, <1>4, <1>5, CombineStep

(* onStreamDestroy, with plain calls to follow it. *)
LEMMA StreamDestroyStep ==
  ASSUME IInv, NEW s \in Streams, on[s] # NoClient, NEW rest, PlainOver(rest),
         OnStreamDestroy(s, rest)
  PROVE  IInv'
<1> DEFINE q == (IF ClosedWithActiveRq(on[s]) THEN <<>> ELSE <<Call("checkIdle")>>) \o rest
<1>1. Call("checkIdle") \in Frames /\ Plain(Call("checkIdle"))
  BY PlainCalls, PlainCallsOn
<1>2. PlainOver(q)
  BY <1>1, OverPush
<1>3. OnStreamClosed(on[s], s, q) /\ UNCHANGED <<pending, purging, poolVars>>
  BY DEF OnStreamDestroy
<1>4. readyCallback' \in BOOLEAN
  BY <1>3 DEF poolVars, IInv, QueuePart, PoolTyped
<1> HIDE DEF q
<1> QED BY <1>2, <1>3, <1>4, StreamEndsStep DEF poolVars

(* The ways a stream leaves its client. *)
LEMMA EndStreamStep ==
  ASSUME IInv, NEW s \in Streams, EndStream(s) \/ DeleteStreamWrapper(s)
  PROVE  IInv'
<1>1. PlainOver(stack) /\ PlainOver(<<>>)
  BY OverBase DEF IInv, StackPart
<1>2. on[s] # NoClient /\ on[s] \in Clients
  BY DEF EndStream, DeleteStreamWrapper, IInv, ClientPart, ClientTyped
<1>3. CASE DeleteStreamWrapper(s)
  <2>1. OnStreamClosed(on[s], s, <<>>) /\ UNCHANGED <<pending, purging, poolVars>>
    BY <1>3 DEF DeleteStreamWrapper
  <2>2. readyCallback' \in BOOLEAN
    BY <2>1 DEF poolVars, IInv, QueuePart, PoolTyped
  <2> QED BY <1>1, <1>2, <2>1, <2>2, StreamEndsStep DEF poolVars
<1>4. CASE OnStreamDestroy(s, stack)
  BY <1>1, <1>2, <1>4, StreamDestroyStep
<1>5. CASE OnResetStream(s)
  <2>1. CallOn("close", on[s]) \in Frames /\ Plain(CallOn("close", on[s]))
    BY <1>2, PlainCalls, PlainCallsOn
  <2>2. PlainStack
    BY <1>5, <2>1, PlainPush DEF OnResetStream, IInv, StackPart
  <2> QED BY <1>5, <2>2, StackOnlyStep DEF OnResetStream
<1>6. CASE OnDecodeComplete(s)
  <2>1. Call("checkIdle") \in Frames /\ Plain(Call("checkIdle"))
    BY PlainCalls, PlainCallsOn
  <2>2. PlainOver(<<Call("checkIdle")>>)
    BY SMTT(30), <2>1, ElementsSmall DEF PlainOver
  <2> QED BY <1>2, <1>6, <2>2, StreamEndsStep DEF OnDecodeComplete
<1> QED BY <1>3, <1>4, <1>5, <1>6 DEF EndStream

(* The loop that resets the streams of a lost connection. *)
LEMMA ResetStep ==
  ASSUME IInv, ResetStreams
  PROVE  IInv'
<1>1. TheClient \in Clients
  BY TheClientType DEF IInv, StackPart, ResetStreams, ClientOps
<1>2. stack \in Seq(Frames) /\ Rest \in Seq(Frames) /\ Elements(Rest) \subseteq Elements(stack)
  BY RestTypes DEF IInv, StackPart, ResetStreams
<1>3. User \in Frames /\ Plain(User)
  BY PlainCalls, PlainCallsOn
<1>4. ASSUME NEW s \in Streams, on[s] = TheClient, OnStreamDestroy(s, <<User>> \o stack)
      PROVE  IInv'
  <2> DEFINE rest == <<User>> \o stack
  <2>1. PlainOver(rest)
    BY <1>2, <1>3, OverBase, OverPush
  <2>2. OnStreamDestroy(s, rest) /\ on[s] # NoClient
    BY <1>1, <1>4, ConnPoolAssumption
  <2> HIDE DEF rest
  <2> QED BY <2>1, <2>2, StreamDestroyStep
<1>5. CASE /\ stack' = <<User>> \o Rest \/ stack' = <<>> \o Rest
           /\ UNCHANGED <<clientVars, streamVars, counterVars, poolVars>>
  <2>1. PlainStack
    BY <1>2, <1>3, <1>5, PlainPush
  <2> QED BY <1>5, <2>1, StackOnlyStep
<1> QED BY <1>4, <1>5 DEF ResetStreams

-----------------------------------------------------------------------------
(* Cancelled streams, and drains *)

(* Clients and counters that a step leaves alone. *)
LEMMA SameClients ==
  ASSUME IInv, UNCHANGED <<clientVars, counterVars, on>>
  PROVE  ClientPart' /\ \A f \in Elements(stack) : FrameOK(f)'
<1>1. Books'
  BY NoClientStep DEF IInv, ClientPart, clientVars, counterVars
<1> QED BY <1>1 DEF IInv, ClientPart, ClientTyped, ActiveStreamsAreCounted, clientVars,
                    counterVars, StackPart, FrameOK

(* A pending stream is cancelled. *)
LEMMA CancelStep ==
  ASSUME IInv, OnPendingStreamCancel
  PROVE  IInv'
<1> DEFINE s == Head(stack).s
           queue == IF purging # <<>> THEN pending ELSE Without(pending, s)
<1>1. /\ pending' = queue /\ purging' = Without(purging, s) /\ UNCHANGED <<on, poolVars>>
      /\ deleted' = deleted
  BY DEF OnPendingStreamCancel, poolVars
<1>2. pending \in Seq(Streams) /\ purging \in Seq(Streams)
  BY DEF IInv, QueuePart, PoolTyped
<1> HIDE DEF s
<1>3. QueuePart'
  <2>1. purging' \in Seq(Streams)
    BY <1>1, <1>2, WithoutKeeps
  <2>2. CASE pending' = pending
    BY <1>1, <2>1, <2>2 DEF IInv, QueuePart, PoolTyped, poolVars
  <2>3. CASE pending' = Without(pending, s)
    <3>1. /\ pending' \in Seq(Streams)
          /\ \A k \in 1..Len(pending') : \E i \in 1..Len(pending) : pending'[k] = pending[i]
          /\ \A k, l \in 1..Len(pending') : pending'[k] = pending'[l] => k = l
      <4> DEFINE q == Without(pending, s)
      <4>1. \A i, j \in 1..Len(pending) : pending[i] = pending[j] => i = j
        BY DEF IInv, QueuePart
      <4>2. /\ q \in Seq(Streams)
            /\ \A k \in 1..Len(q) : \E i \in 1..Len(pending) : q[k] = pending[i]
            /\ (\A i, j \in 1..Len(pending) : pending[i] = pending[j] => i = j) =>
                 \A k, l \in 1..Len(q) : q[k] = q[l] => k = l
        BY <1>2, WithoutKeeps, Zenon
      <4>3. pending' = q
        BY <2>3
      <4> HIDE DEF q
      <4>4. \A k, l \in 1..Len(q) : q[k] = q[l] => k = l
        BY <4>1, <4>2, Zenon
      <4> QED BY <4>2, <4>3, <4>4
    <3>2. PoolTyped'
      BY <1>1, <2>1, <3>1 DEF IInv, QueuePart, PoolTyped, poolVars
    <3>3. \A k \in 1..Len(pending') : on'[pending'[k]] = NoClient
      BY SMTT(30), <1>1, <3>1 DEF IInv, QueuePart
    <3> QED BY <3>1, <3>2, <3>3 DEF QueuePart
  <2> QED BY <1>1, <2>2, <2>3
<1>4. Rest \in Seq(Frames) /\ Elements(Rest) \subseteq Elements(stack)
  BY RestTypes DEF IInv, StackPart, OnPendingStreamCancel
<1>5. Call("checkIdle") \in Frames /\ Plain(Call("checkIdle"))
  BY PlainCalls, PlainCallsOn
<1>6. CASE /\ stack' = <<Call("checkIdle")>> \o Rest
           /\ UNCHANGED <<clientVars, counterVars>>
  <2>1. ClientPart' /\ \A f \in Elements(stack) : FrameOK(f)'
    BY <1>1, <1>6, SameClients
  <2>2. PlainStack
    BY <1>4, <1>5, <1>6, PlainPush
  <2> QED BY <1>1, <1>3, <2>1, <2>2, PlainStackStep DEF IInv
<1>7. ASSUME NEW c \in InState("Connecting"), DrainClient(c),
             stack' = <<CallOn("close", c), Call("checkIdle")>> \o Rest
      PROVE  IInv'
  <2>1. c \in listed /\ c \in Clients
    BY DEF InState, IInv, ClientPart, ClientTyped
  <2>2. ClientPart' /\ \A f \in Elements(stack) : FrameOK(f)'
    BY <1>1, <1>7, <2>1, DrainStep DEF IInv
  <2>3. CallOn("close", c) \in Frames /\ Plain(CallOn("close", c))
    BY <2>1, PlainCalls, PlainCallsOn
  <2>4. PlainStack
    BY <1>4, <1>5, <1>7, <2>3, PlainPush
  <2> QED BY <1>1, <1>3, <2>2, <2>4, PlainStackStep DEF IInv
<1> QED BY <1>6, <1>7 DEF OnPendingStreamCancel

(* Draining a listed client, with plain continuations. *)
LEMMA DrainOneStep ==
  ASSUME IInv, NEW c \in listed, DrainClient(c), UNCHANGED <<streamVars, poolVars>>, PlainStack
  PROVE  IInv'
<1>1. ClientPart' /\ \A f \in Elements(stack) : FrameOK(f)'
  BY DrainStep DEF IInv, streamVars
<1>2. PoolTyped' /\ pending' = pending /\ on' = on /\ deleted' = deleted
  BY DEF IInv, QueuePart, PoolTyped, streamVars, poolVars
<1> QED BY <1>1, <1>2, CombineStep

(* The end of a connection's maximal duration, a GOAWAY frame, and the     *)
(* draining of the existing connections.                                   *)
LEMMA DrainEventsStep ==
  ASSUME IInv,
         \/ \E c \in Clients : OnConnectionDurationTimeout(c) \/ OnGoAway(c)
         \/ DrainRemainingClients
  PROVE  IInv'
<1>1. stack \in Seq(Frames)
  BY DEF IInv, StackPart
<1>2. ASSUME NEW c \in Clients PROVE CallOn("close", c) \in Frames /\ Plain(CallOn("close", c))
  BY PlainCalls, PlainCallsOn
<1>3. \A x : InState(x) \subseteq listed
  BY DEF InState
<1>4. ASSUME NEW c \in Clients, OnConnectionDurationTimeout(c) PROVE IInv'
  <2>1. stack' = <<CallOn("close", c)>> \/ stack' = <<>>
    BY <1>4 DEF OnConnectionDurationTimeout
  <2>2. PlainStack
    BY <1>1, <1>2, <2>1, PlainPush
  <2> QED BY <1>3, <1>4, <2>2, DrainOneStep DEF OnConnectionDurationTimeout
<1>5. ASSUME NEW c \in Clients, OnGoAway(c) PROVE IInv'
  <2>1. stack' = <<CallOn("close", c)>> \/ stack' = stack
    BY <1>5 DEF OnGoAway
  <2>2. PlainStack
    BY <1>1, <1>2, <2>1, PlainPush
  <2>3. CASE DrainClient(c)
    BY <1>3, <1>5, <2>2, <2>3, DrainOneStep DEF OnGoAway
  <2>4. CASE UNCHANGED <<clientVars, counterVars>>
    BY <1>5, <2>2, <2>4, StackOnlyStep DEF OnGoAway
  <2> QED BY <1>5, <2>3, <2>4 DEF OnGoAway
<1>6. ASSUME DrainRemainingClients PROVE IInv'
  <2>1. Rest \in Seq(Frames) /\ Elements(Rest) \subseteq Elements(stack)
    BY <1>1, <1>6, RestTypes DEF DrainRemainingClients
  <2>2. PlainStack
    <3>1. stack' = stack \/ stack' = Rest
      BY <1>6 DEF DrainRemainingClients
    <3> QED BY <1>1, <2>1, <3>1 DEF PlainStack
  <2>3. CASE UNCHANGED <<clientVars, counterVars>>
    BY <1>6, <2>2, <2>3, StackOnlyStep DEF DrainRemainingClients
  <2>4. ASSUME NEW c \in InState("Ready") \cup InState("Busy"), DrainClient(c) PROVE IInv'
    BY <1>3, <1>6, <2>2, <2>4, DrainOneStep DEF DrainRemainingClients
  <2> QED BY <1>6, <2>3, <2>4 DEF DrainRemainingClients
<1> QED BY <1>4, <1>5, <1>6

-----------------------------------------------------------------------------
(* Established connections *)

(* A connection is established. *)
LEMMA ConnectedStep ==
  ASSUME IInv, NEW c \in Clients, OnConnected(c)
  PROVE  IInv'
<1>1. ClientPart' /\ \A f \in Elements(stack) : FrameOK(f)'
  BY ConnectedClientStep DEF IInv
<1>2. PlainStack
  <2>1. /\ Call("upstreamReady") \in Frames /\ Plain(Call("upstreamReady"))
        /\ Call("checkIdle") \in Frames /\ Plain(Call("checkIdle"))
    BY PlainCalls, PlainCallsOn
  <2> DEFINE q == <<Call("checkIdle")>>
  <2>2. PlainOver(q)
    BY SMTT(30), <2>1, ElementsSmall DEF PlainOver
  <2>3. stack' = <<Call("upstreamReady")>> \o q \/ stack' = <<>> \o q
    BY DEF OnConnected
  <2> HIDE DEF q
  <2>4. PlainOver(stack')
    BY <2>1, <2>2, <2>3, OverPush
  <2> QED BY <2>4 DEF PlainOver, PlainStack
<1>3. PoolTyped' /\ pending' = pending /\ on' = on /\ deleted' = deleted
  BY DEF OnConnected, IInv, QueuePart, PoolTyped, streamVars, poolVars
<1> QED BY <1>1, <1>2, <1>3, CombineStep

(* A SETTINGS frame is received. *)
LEMMA SettingsStep ==
  ASSUME IInv, NEW c \in Clients, NEW m \in Settings, OnSettings(c, m)
  PROVE  IInv'
<1>1. ClientPart' /\ \A f \in Elements(stack) : FrameOK(f)'
  BY SettingsClientStep DEF IInv
<1>2. PlainStack
  BY DEF OnSettings, IInv, StackPart, PlainStack
<1>3. PoolTyped' /\ pending' = pending /\ on' = on /\ deleted' = deleted
  BY ConnPoolAssumption DEF OnSettings, IInv, QueuePart, PoolTyped, streamVars
<1> QED BY <1>1, <1>2, <1>3, CombineStep

-----------------------------------------------------------------------------
(* The end of a client *)

(* A step that pushes frames which are all right afterwards. *)
LEMMA PushStack ==
  ASSUME NEW base \in Seq(Frames), NEW p \in Seq(Frames), stack' = p \o base,
         StackPart, Elements(base) \subseteq Elements(stack), deleted => deleted',
         \A f \in Elements(base) : FrameOK(f)',
         \A f \in Elements(p) : FrameOK(f)' /\ f.op # "destroy"
  PROVE  StackPart'
<1>1. p \o base \in Seq(Frames) /\ Elements(p \o base) = Elements(p) \cup Elements(base)
  BY ElementsConcat
<1> QED BY <1>1 DEF StackPart

(* What the frames of a lost client need. *)
LEMMA LostFrames ==
  ASSUME NEW c \in Clients
  PROVE  /\ CallOn("release", c) \in Frames /\ CallOn("closed", c) \in Frames
         /\ {Call("purge"), Call("retry"), Call("notifyIdle")} \subseteq Frames
         /\ FrameOK(Call("purge"))' /\ FrameOK(Call("retry"))' /\ FrameOK(Call("notifyIdle"))'
         /\ remaining'[c] = 0 => FrameOK(CallOn("release", c))'
         /\ c \notin listed' => FrameOK(CallOn("closed", c))'
         /\ Call("purge").op # "destroy" /\ Call("retry").op # "destroy"
         /\ Call("notifyIdle").op # "destroy"
         /\ CallOn("release", c).op # "destroy" /\ CallOn("closed", c).op # "destroy"
<1>1. /\ CallOn("release", c) \in Frames /\ CallOn("closed", c) \in Frames
      /\ {Call("purge"), Call("retry"), Call("notifyIdle")} \subseteq Frames
  BY SMTT(30), PlainCalls, FrameTypes DEF Ops, ClientOps
<1> QED BY <1>1 DEF FrameOK, Call, CallOn, Frame

(* releaseResources and removeFromList.  The frame of the call says that   *)
(* the client has no capacity left.                                        *)
LEMMA ReleaseStep ==
  ASSUME IInv, ReleaseClient
  PROVE  IInv'
<1> DEFINE c == TheClient
<1>1. stack \in Seq(Frames) /\ c \in Clients /\ c \in Head(stack).cs
  BY TheClientType DEF IInv, StackPart, ReleaseClient, ClientOps
<1>2. Rest \in Seq(Frames) /\ Elements(Rest) \subseteq Elements(stack)
      /\ Head(stack) \in Elements(stack) /\ Head(stack).op = "release"
  BY <1>1, RestTypes DEF ReleaseClient
<1>3. remaining[c] = 0
  BY <1>1, <1>2 DEF IInv, StackPart, FrameOK
<1>4. /\ listed' = listed \ {c} /\ held' = held \ {c}
      /\ stack' = <<Call("notifyIdle"), CallOn("closed", c)>> \o Rest
      /\ UNCHANGED <<state, remaining, limit, configured, debt, open, streamVars, counterVars,
                     poolVars>>
  BY DEF ReleaseClient
<1> HIDE DEF c
<1>5. ClientTyped /\ NumActiveStreams(c) \in Nat /\ limit[c] \in Nat
      /\ totalCapacity \in Nat /\ connectingCapacity \in Nat
  BY <1>1, CapacityTypes, BooksTypes DEF IInv, ClientPart, ClientTyped
<1>6. CurrentUnusedCapacity(c) = 0 /\ remaining' = [remaining EXCEPT ![c] = 0]
  BY SMTT(30), <1>1, <1>3, <1>4, <1>5 DEF CurrentUnusedCapacity, UnusedCapacity, ClientTyped
<1>7. ClientPart' /\ \A f \in Elements(stack) : FrameOK(f)'
  <2>1. /\ totalCapacity' = totalCapacity - CurrentUnusedCapacity(c)
        /\ connectingCapacity' = IF state[c] = "Connecting"
                                   THEN connectingCapacity - CurrentUnusedCapacity(c)
                                   ELSE connectingCapacity
    BY SMTT(30), <1>4, <1>5, <1>6 DEF counterVars
  <2> QED BY <1>1, <1>4, <1>6, <2>1, GiveUpStep DEF IInv, streamVars, counterVars
<1>8. StackPart'
  <2> DEFINE p == <<Call("notifyIdle"), CallOn("closed", c)>>
  <2>1. p \in Seq(Frames) /\ Elements(p) = {Call("notifyIdle"), CallOn("closed", c)}
    BY SMTT(30), <1>1, LostFrames, ElementsSmall
  <2>2. stack' = p \o Rest /\ c \notin listed'
    BY <1>4
  <2> HIDE DEF p
  <2>3. \A f \in Elements(p) : FrameOK(f)' /\ f.op # "destroy"
    BY <1>1, <2>1, <2>2, LostFrames
  <2>4. \A f \in Elements(Rest) : FrameOK(f)'
    BY <1>2, <1>7
  <2> QED BY <1>2, <1>4, <2>1, <2>2, <2>3, <2>4, PushStack DEF IInv, poolVars
<1>9. QueuePart'
  BY <1>4 DEF IInv, QueuePart, PoolTyped, streamVars, poolVars
<1> QED BY <1>7, <1>8, <1>9 DEF IInv

(* The pool hears that a connection is lost. *)
LEMMA LostStep ==
  ASSUME IInv, OnConnectionLost
  PROVE  IInv'
<1> DEFINE c == TheClient
<1>1. stack \in Seq(Frames) /\ c \in Clients
  BY TheClientType DEF IInv, StackPart, OnConnectionLost, ClientOps
<1>2. Rest \in Seq(Frames) /\ Elements(Rest) \subseteq Elements(stack)
  BY <1>1, RestTypes DEF OnConnectionLost
<1>3. /\ remaining' = [remaining EXCEPT ![c] = 0]
      /\ totalCapacity' = totalCapacity - CurrentUnusedCapacity(c)
      /\ UNCHANGED <<state, limit, configured, debt, open, on, numActiveStreams, poolVars>>
      /\ deleted' = deleted
  BY DEF OnConnectionLost, poolVars
<1>4. \/ /\ state[c] = "Connecting" /\ UNCHANGED <<listed, held>> /\ PendingToPurge
         /\ connectingCapacity' = connectingCapacity - CurrentUnusedCapacity(c)
         /\ stack' = <<Call("purge"), Call("retry"), CallOn("release", c)>> \o Rest
      \/ /\ state[c] # "Connecting" /\ listed' = listed \ {c} /\ held' = held \ {c}
         /\ UNCHANGED <<connectingCapacity, pending, purging>>
         /\ stack' = <<Call("notifyIdle"), CallOn("closed", c)>> \o Rest
  BY DEF OnConnectionLost
<1> HIDE DEF c
<1>5. ClientPart' /\ remaining'[c] = 0 /\ \A f \in Elements(stack) : FrameOK(f)'
  BY <1>1, <1>3, <1>4, GiveUpStep DEF IInv
<1>6. \A f \in Elements(Rest) : FrameOK(f)'
  BY <1>2, <1>5
<1>7. CASE /\ PendingToPurge
           /\ stack' = <<Call("purge"), Call("retry"), CallOn("release", c)>> \o Rest
  <2> DEFINE p == <<Call("purge"), Call("retry"), CallOn("release", c)>>
  <2>1. p \in Seq(Frames) /\ Elements(p) = {Call("purge"), Call("retry"), CallOn("release", c)}
    BY SMTT(30), <1>1, LostFrames, ElementsSmall
  <2>2. stack' = p \o Rest
    BY <1>7
  <2> HIDE DEF p
  <2>3. \A f \in Elements(p) : FrameOK(f)' /\ f.op # "destroy"
    BY <1>1, <1>5, <2>1, LostFrames
  <2>4. StackPart'
    BY <1>2, <1>3, <1>6, <2>1, <2>2, <2>3, PushStack DEF IInv
  <2>5. pending' = <<>> /\ purging' \in Seq(Streams)
    BY SMTT(30), <1>7 DEF PendingToPurge, IInv, QueuePart, PoolTyped
  <2>6. QueuePart'
    BY SMTT(30), <1>3, <2>5 DEF IInv, QueuePart, PoolTyped, poolVars
  <2> QED BY <1>5, <2>4, <2>6 DEF IInv
<1>8. CASE /\ listed' = listed \ {c} /\ UNCHANGED <<pending, purging>>
           /\ stack' = <<Call("notifyIdle"), CallOn("closed", c)>> \o Rest
  <2> DEFINE p == <<Call("notifyIdle"), CallOn("closed", c)>>
  <2>1. p \in Seq(Frames) /\ Elements(p) = {Call("notifyIdle"), CallOn("closed", c)}
    BY SMTT(30), <1>1, LostFrames, ElementsSmall
  <2>2. stack' = p \o Rest /\ c \notin listed'
    BY <1>8
  <2> HIDE DEF p
  <2>3. \A f \in Elements(p) : FrameOK(f)' /\ f.op # "destroy"
    BY <1>1, <2>1, <2>2, LostFrames
  <2>4. StackPart'
    BY <1>2, <1>3, <1>6, <2>1, <2>2, <2>3, PushStack DEF IInv
  <2>5. QueuePart'
    BY <1>3, <1>8 DEF IInv, QueuePart, PoolTyped, poolVars
  <2> QED BY <1>5, <2>4, <2>5 DEF IInv
<1> QED BY <1>4, <1>7, <1>8

(* The lost client is marked closed.  The frame of the call says that it   *)
(* is in no list any more.                                                 *)
LEMMA ClosedStep ==
  ASSUME IInv, ClientClosed
  PROVE  IInv'
<1>1. PICK c \in Clients : c = TheClient /\ c \in Head(stack).cs /\ stack \in Seq(Frames)
  BY TheClientType DEF IInv, StackPart, ClientClosed, ClientOps
<1>2. Rest \in Seq(Frames) /\ Elements(Rest) \subseteq Elements(stack)
      /\ Head(stack) \in Elements(stack) /\ Head(stack).op = "closed"
  BY <1>1, RestTypes DEF ClientClosed
<1>3. c \notin listed
  BY <1>1, <1>2 DEF IInv, StackPart, FrameOK
<1>4. /\ state' = [state EXCEPT ![c] = "Closed"]
      /\ stack' = <<TryCreate(3, NoStream)>> \o Rest \/ stack' = <<>> \o Rest
      /\ UNCHANGED <<remaining, limit, configured, debt, listed, open, held, streamVars,
                     counterVars, poolVars>>
  BY <1>1 DEF ClientClosed
<1>5. ClientTyped /\ Books /\ totalCapacity \in Nat /\ connectingCapacity \in Nat
  BY BooksTypes DEF IInv, ClientPart
<1>6. ClientTyped' /\ state'[c] = "Closed" /\ on' = on
  BY <1>1, <1>4, <1>5 DEF ClientTyped, States, streamVars
<1>7. \A d \in Clients : NumActiveStreams(d)' = NumActiveStreams(d)
  BY <1>6 DEF NumActiveStreams
<1>8. ClientOK(c)'
  BY <1>1, <1>3, <1>4, <1>5, <1>6, <1>7 DEF Books, ClientOK
<1>9. /\ totalCapacity' = totalCapacity - TotalShare(c) + TotalShare(c)'
      /\ connectingCapacity' = connectingCapacity - ConnectingShare(c) + ConnectingShare(c)'
  BY SMTT(30), <1>3, <1>4, <1>5 DEF TotalShare, ConnectingShare, counterVars
<1>10. Books'
  <2>1. \A d \in Clients \ {c} :
          /\ state'[d] = state[d] /\ remaining'[d] = remaining[d]
          /\ limit'[d] = limit[d] /\ debt'[d] = debt[d]
    BY <1>4, <1>5 DEF ClientTyped
  <2> QED BY <1>1, <1>4, <1>5, <1>6, <1>7, <1>8, <1>9, <2>1, OneClientStep
<1>11. ClientPart' /\ \A f \in Elements(stack) : FrameOK(f)'
  BY <1>4, <1>6, <1>10
     DEF IInv, ClientPart, ActiveStreamsAreCounted, StackPart, FrameOK,
                           counterVars
<1>12. PlainStack
  <2>1. TryCreate(3, NoStream) \in Frames /\ Plain(TryCreate(3, NoStream))
    BY SMTT(30), PlainCalls, PlainCallsOn
  <2> QED BY <1>2, <1>4, <2>1, PlainPush
<1>13. PoolTyped' /\ pending' = pending /\ deleted' = deleted
  BY <1>4 DEF IInv, QueuePart, PoolTyped, streamVars, poolVars
<1> QED BY <1>6, <1>11, <1>12, <1>13, CombineStep

-----------------------------------------------------------------------------
(* Every step *)

(* The event loop destroys a deleted pool that is idle. *)
LEMMA DestroyStep ==
  ASSUME IInv, Destroy
  PROVE  IInv'
<1>1. /\ UNCHANGED <<clientVars, streamVars, counterVars>> /\ stack' = <<Call("destroy")>>
      /\ UNCHANGED <<draining, idleCallbacks, readyCallback, cached>> /\ deleted' = TRUE
  BY DEF Destroy
<1>2. ClientPart'
  BY <1>1, SameClients DEF streamVars
<1>3. QueuePart'
  BY <1>1 DEF IInv, QueuePart, PoolTyped, streamVars
<1>4. StackPart'
  <2>1. Call("destroy") \in Frames /\ FrameOK(Call("destroy"))'
    <3>1. "destroy" \in Ops \ ClientOps
      BY DEF Ops, ClientOps
    <3> QED BY <3>1, FrameTypes DEF FrameOK
  <2>2. stack' \in Seq(Frames) /\ Elements(stack') = {Call("destroy")}
    BY SMTT(30), <1>1, <2>1, ElementsSmall
  <2> QED BY <1>1, <2>1, <2>2 DEF StackPart
<1> QED BY <1>2, <1>3, <1>4 DEF IInv

(* destructAllConnections *)
LEMMA DestructStep ==
  ASSUME IInv, OrderPart, DestructAllConnections
  PROVE  IInv'
<1>1. stack \in Seq(Frames) /\ Rest \in Seq(Frames) /\ Elements(Rest) \subseteq Elements(stack)
  <2>1. Running("destroy")
    BY DEF DestructAllConnections
  <2>2. stack \in Seq(Frames)
    BY DEF IInv, StackPart
  <2> QED BY <2>1, <2>2, RestTypes
<1>2. ClientTyped /\ Books
  BY DEF IInv, ClientPart
<1>3. UNCHANGED <<state, remaining, limit, configured, listed, open, held>>
  BY DEF DestructAllConnections
<1>4. CASE listed # {}
  <2>1. PICK c \in listed : stack' = <<CallOn("close", c)>> \o stack
    BY <1>4 DEF DestructAllConnections
  <2>2. UNCHANGED <<clientVars, streamVars, counterVars, poolVars>>
    BY <1>3, <1>4 DEF DestructAllConnections, clientVars
  <2>3. c \in Clients
    BY <1>2 DEF ClientTyped
  <2>4. CallOn("close", c) \in Frames /\ Plain(CallOn("close", c))
    BY <2>3, PlainCalls, PlainCallsOn
  <2>5. PlainStack
    BY <1>1, <2>1, <2>4, PlainPush
  <2> QED BY <2>2, <2>5, StackOnlyStep
<1>5. CASE listed = {}
  <2>1. /\ debt' = [c \in Clients |-> 0]
        /\ on' = [s \in Streams |-> NoClient] /\ pending' = <<>> /\ purging' = <<>>
        /\ connectingCapacity' = 0 /\ totalCapacity' = 0 /\ numActiveStreams' = 0
        /\ draining' = FALSE /\ deleted' = FALSE
        /\ idleCallbacks' = TRUE /\ readyCallback' = FALSE
        /\ stack' = Rest /\ cached' = cached
    BY <1>5 DEF DestructAllConnections
  <2>2. ClientTyped'
    BY <1>2, <1>3, <2>1 DEF ClientTyped
  <2>3. \A c \in Clients : remaining'[c] = 0
    BY <1>2, <1>3, <1>5 DEF Books, ClientOK
  <2>4. ClientPart'
    BY <1>3, <1>5, <2>1, <2>2, <2>3, EmptyBooks
  <2>5. StackPart'
    <3>1. Elements(Rest) = {}
      BY <1>1, OutermostCall DEF DestructAllConnections, OrderPart
    <3> QED BY <1>1, <2>1, <3>1 DEF StackPart
  <2>6. QueuePart'
    <3>1. cached' \in Nat /\ pending' \in Seq(Streams) /\ purging' \in Seq(Streams)
      BY SMTT(30), <2>1 DEF IInv, QueuePart, PoolTyped
    <3>2. {draining, deleted, idleCallbacks, readyCallback}' \subseteq BOOLEAN
      BY <2>1
    <3>3. 1..Len(pending') = {}
      BY SMTT(30), <2>1
    <3> QED BY <3>1, <3>2, <3>3 DEF QueuePart, PoolTyped
  <2> QED BY <2>4, <2>5, <2>6 DEF IInv
<1> QED BY <1>4, <1>5

(* A new pool has no client, no stream and zero counters. *)
LEMMA InitInvariant ==
  ASSUME Init
  PROVE  IInv
<1> USE DEF Init
<1>1. ClientTyped
  BY DEF ClientTyped, States
<1>2. \A c \in Clients : NumActiveStreams(c) = 0
  <2> TAKE c \in Clients
  <2>1. {s \in Streams : on[s] = c} = {}
    BY ConnPoolAssumption
  <2> QED BY <2>1, FS_EmptySet DEF NumActiveStreams
<1>3. {s \in Streams : on[s] # NoClient} = {}
  OBVIOUS
<1>4. ActiveStreamsAreCounted
  BY <1>3, FS_EmptySet DEF ActiveStreamsAreCounted
<1>5. Units(listed) = {} /\ Units(InState("Connecting")) = {}
  BY DEF Units, InState
<1>6. Books
  <2>1. ASSUME NEW c \in Clients PROVE ClientOK(c)
    <3>1. /\ c \notin listed /\ remaining[c] = 0 /\ debt[c] = 0 /\ limit[c] = 0
      OBVIOUS
    <3> QED BY SMTT(30), <1>2, <3>1 DEF ClientOK
  <2> QED BY <1>5, <2>1, FS_EmptySet DEF Books
<1>7. StackPart
  BY SMTT(30) DEF StackPart, Elements
<1>8. QueuePart
  <2>1. pending \in Seq(Streams) /\ purging \in Seq(Streams) /\ cached \in Nat
    BY SMTT(30)
  <2>2. {draining, deleted, idleCallbacks, readyCallback} \subseteq BOOLEAN
    OBVIOUS
  <2>3. 1..Len(pending) = {}
    BY SMTT(30)
  <2> QED BY <2>1, <2>2, <2>3 DEF QueuePart, PoolTyped
<1> QED BY <1>1, <1>4, <1>6, <1>7, <1>8 DEF IInv, ClientPart

(* Every step of the pool keeps the invariant. *)
LEMMA StepInvariant ==
  ASSUME IInv, OrderPart, [Next]_vars
  PROVE  IInv'
<1>1. CASE Step
  <2>1. CASE TryCreateNewConnections
    BY <2>1, TryCreateStep
  <2>2. CASE OnUpstreamReady
    BY <2>2, UpstreamReadyStep
  <2>3. CASE OnPendingStreamCancel
    BY <2>3, CancelStep
  <2>4. CASE Close
    BY <2>4, CloseStep
  <2>5. CASE ResetStreams
    BY <2>5, ResetStep
  <2>6. CASE OnConnectionLost
    BY <2>6, LostStep
  <2>7. CASE PurgePendingStreams
    BY <2>7, PurgeStep
  <2>8. CASE ReleaseClient
    BY <2>8, ReleaseStep
  <2>9. CASE ClientClosed
    BY <2>9, ClosedStep
  <2>10. CASE \/ UserReturns \/ RetryAfterPurge \/ CheckForIdleAndCloseIdleConnsIfDraining
              \/ CloseIdleConnectionsForDrainingPool \/ CloseNextClient
    BY <2>10, CallsStep
  <2>11. CASE CheckForIdleAndNotify
    BY <2>11, FlagsStep
  <2>12. CASE DrainRemainingClients
    BY <2>12, DrainEventsStep
  <2>13. CASE DestructAllConnections
    BY <2>13, DestructStep
  <2> QED BY <1>1, <2>1, <2>2, <2>3, <2>4, <2>5, <2>6, <2>7, <2>8, <2>9, <2>10, <2>11, <2>12,
             <2>13 DEF Step
<1>2. CASE UserCall
  <2>1. PICK s \in Streams : NewStream(s) \/ Cancel(s) \/ EndStream(s)
    BY <1>2 DEF UserCall
  <2>2. CASE NewStream(s)
    BY <2>2, NewStreamStep
  <2>3. CASE Cancel(s)
    BY <2>3, CallsStep
  <2>4. CASE EndStream(s)
    BY <2>4, EndStreamStep
  <2> QED BY <2>1, <2>2, <2>3, <2>4
<1>3. CASE Event
  <2>1. ASSUME NEW c \in Clients, OnConnected(c) PROVE IInv'
    BY <2>1, ConnectedStep
  <2>2. ASSUME NEW c \in Clients,
               ConnectionEnds(c) \/ OnProtocolError(c) \/ OnConnectTimeout(c)
        PROVE  IInv'
    BY <2>2, CallsStep
  <2>3. ASSUME NEW c \in Clients, OnConnectionDurationTimeout(c) \/ OnGoAway(c) PROVE IInv'
    BY <2>3, DrainEventsStep
  <2>4. ASSUME NEW c \in Clients, NEW m \in Settings, OnSettings(c, m) PROVE IInv'
    BY <2>4, SettingsStep
  <2>5. ASSUME NEW s \in Streams, DeleteStreamWrapper(s) PROVE IInv'
    BY <2>5, EndStreamStep
  <2>6. CASE UpstreamReadyCallback \/ DrainAndDelete
    BY <2>6, FlagsStep
  <2>9. CASE Destroy
    BY <2>9, DestroyStep
  <2>7. CASE MaybePreconnect
    BY <2>7, TryCreateStep
  <2>8. CASE DrainExistingConnections
    BY <2>8, CallsStep
  <2> QED BY <1>3, <2>1, <2>2, <2>3, <2>4, <2>5, <2>6, <2>7, <2>8, <2>9 DEF Event
<1>4. CASE UNCHANGED vars
  <2>1. UNCHANGED <<clientVars, streamVars, counterVars, poolVars>> /\ stack' = stack
    BY <1>4 DEF vars
  <2>2. PlainStack
    BY <2>1 DEF IInv, StackPart, PlainStack
  <2> QED BY <2>1, <2>2, StackOnlyStep
<1> QED BY <1>1, <1>2, <1>3, <1>4 DEF Next

=============================================================================
