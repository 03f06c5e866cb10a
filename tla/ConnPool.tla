------------------------------ MODULE ConnPool ------------------------------
(***************************************************************************)
(* The upstream connection pool of one host, one priority and one worker   *)
(* thread: ConnectionPool::ConnPoolImplBase with its HTTP/1 and HTTP/2     *)
(* subclasses (no early data).                                             *)
(*                                                                         *)
(* The pool runs on one thread, but it calls back into its users in the    *)
(* middle of almost every operation, and a user may call the pool again    *)
(* from there.  The model therefore has the C++ call stack as a variable:  *)
(* `stack' holds what is left to do of the operations in progress, the top *)
(* frame runs next, and a "user" frame on top means that control is in a   *)
(* user's callback, where API calls are possible.  Events of the event     *)
(* loop (network, timers, deferred deletion) need an empty stack.          *)
(*                                                                         *)
(* Position in the client lists is abstracted: where the code takes        *)
(* list.front(), the model takes any member of the list.  The queue of     *)
(* pending streams keeps its order.                                        *)
(***************************************************************************)
EXTENDS Integers, Sequences, FiniteSets

CONSTANTS
  Clients,          \* ActiveClient objects; see FreeClient for the reuse of identities
  Streams,          \* streams that users may ask for
  NoClient, NoStream,
  Multiplexed,      \* TRUE: HTTP/2 pool, FALSE: HTTP/1 pool
  MaxConcurrentStreams,      \* http2 max_concurrent_streams; 1 for HTTP/1
  MaxRequestsPerConnection,  \* max_requests_per_connection (bounds remaining_streams_)
  Settings,         \* values a peer's SETTINGS_MAX_CONCURRENT_STREAMS takes
  UsesCache,        \* whether the HttpServerPropertiesCache is configured
  MaxConnections, MaxPendingRequests, MaxRequests,  \* circuit breakers
  RatioHalves,      \* per_upstream_preconnect_ratio, in halves (2 is 1.0, 3 is 1.5)
  GlobalRatioHalves,\* predictive_preconnect_ratio in halves; 0: not used
  MayShed,          \* the load shed point may fire
  MayFailToCreate,  \* instantiateActiveClient() may return nullptr
  RetryInPurge,     \* users may submit a new stream from onPoolFailure during a purge
  MaxDepth          \* bound on the call stack when a user calls the pool again

ASSUME ConnPoolAssumption ==
  /\ IsFiniteSet(Clients) /\ IsFiniteSet(Streams)
  /\ NoClient \notin Clients /\ NoStream \notin Streams
  /\ {Multiplexed, UsesCache, MayShed, MayFailToCreate, RetryInPurge} \subseteq BOOLEAN
  /\ MaxConcurrentStreams \in Nat \ {0} /\ MaxRequestsPerConnection \in Nat \ {0}
  /\ Settings \subseteq Nat
  /\ {MaxConnections, MaxPendingRequests, MaxRequests, MaxDepth} \subseteq Nat
  /\ RatioHalves \in Nat /\ RatioHalves >= 2
  /\ GlobalRatioHalves \in Nat
  /\ ~Multiplexed => MaxConcurrentStreams = 1

VARIABLES
  state,        \* state_ of a client
  remaining,    \* remaining_streams_
  limit,        \* concurrent_stream_limit_
  configured,   \* configured_stream_limit_
  debt,         \* capacity_debt_
  listed,       \* clients in one of connecting_/ready_/busy_clients_
  open,         \* clients whose network connection is not yet closed
  held,         \* clients that still hold a unit of the connections() resource
  on,           \* the client a stream is attached to, or NoClient
  pending,      \* pending_streams_ (and pending_stream_queue_), oldest first
  purging,      \* pending_streams_to_purge_
  connectingCapacity, \* connecting_stream_capacity_
  totalCapacity,      \* connecting_and_connected_stream_capacity_
  numActiveStreams,   \* num_active_streams_
  draining,     \* is_draining_for_deletion_
  deleted,      \* deferred_deleting_, or already in the destructor
  idleCallbacks,\* idle_callbacks_ not empty
  readyCallback,\* upstream_ready_cb_ is scheduled
  cached,       \* concurrency the properties cache holds for the origin (0: none)
  stack         \* the calls in progress, innermost first

clientVars == <<state, remaining, limit, configured, debt, listed, open, held>>
streamVars == <<on, pending, purging>>
counterVars == <<connectingCapacity, totalCapacity, numActiveStreams>>
poolVars == <<draining, deleted, idleCallbacks, readyCallback, cached>>
vars == <<clientVars, streamVars, counterVars, poolVars, stack>>

-----------------------------------------------------------------------------
(* Clients and their capacity *)

States == {"Connecting", "Ready", "Busy", "Draining", "Closed"}

Elements(q) == {q[i] : i \in 1..Len(q)}

(* A queue without the first occurrence of s. *)
Without(q, s) ==
  IF s \in Elements(q)
    THEN LET i == CHOOSE k \in 1..Len(q) : q[k] = s
         IN SubSeq(q, 1, i - 1) \o SubSeq(q, i + 1, Len(q))
    ELSE q

InState(st) == {c \in listed : state[c] = st}

NumActiveStreams(c) == Cardinality({s \in Streams : on[s] = c})

(* Mutant: the limit may be below the number of active streams. *)
UnusedCapacityUnclamped(left, lim, act) == IF left < lim - act THEN left ELSE lim - act

(* What a client with `left' streams to its lifetime limit, concurrency    *)
(* limit `lim' and `act' active streams can still take.                    *)
UnusedCapacity(left, lim, act) ==
  IF lim <= act THEN 0 ELSE IF left < lim - act THEN left ELSE lim - act

CurrentUnusedCapacity(c) == UnusedCapacity(remaining[c], limit[c], NumActiveStreams(c))

(* An HTTP/2 client starts with the configured maximum as its concurrency  *)
(* limit and with the cached (or lifetime) limit as its configured limit:  *)
(* in this order the constructors pass them on.                            *)
InitialStreamsLimit ==
  CHOOSE l \in {MaxConcurrentStreams, MaxRequestsPerConnection, cached} \ {0} :
    \A k \in {MaxConcurrentStreams, MaxRequestsPerConnection, cached} \ {0} : l <= k

(* What SETTINGS with limit `lim' leaves a client with `act' streams.  The *)
(* mutant forgets the streams above the limit.                             *)
NoCapacityDebt(lim, act) == 0
CapacityDebt(lim, act) == IF lim < act THEN act - lim ELSE 0

(* isIdleImpl; the mutant forgets the queue. *)
HasNoClients == listed = {}
IsIdle == pending = <<>> /\ listed = {}

-----------------------------------------------------------------------------
(* Frames of the call stack *)

Frame(op, cs, s, n) == [op |-> op, cs |-> cs, s |-> s, n |-> n]
Call(op) == Frame(op, {}, NoStream, 0)
CallOn(op, c) == Frame(op, {c}, NoStream, 0)
CallFor(op, s) == Frame(op, {}, s, 0)
CallOnError(op, c) == Frame(op, {c}, NoStream, 1)  \* because of protocol_error_

User == Call("user")                     \* control is in a user's callback
TryCreate(n, s) == Frame("tryCreate", {}, s, n)  \* n attempts left; for stream s
CloseAll(cs) == Frame("closeAll", cs, NoStream, 0)

Ops == {"user", "tryCreate", "upstreamReady", "purge", "retry", "release", "closed",
        "notifyIdle", "checkIdle", "closeIdle", "closeAll", "drainRest", "close", "reset",
        "lost", "cancel", "cancelExcess", "destroy"}

ClientOps == {"close", "reset", "lost", "release", "closed"}

Frames ==
  {f \in [op : Ops, cs : SUBSET Clients, s : Streams \cup {NoStream}, n : 0..3] :
     f.op \in ClientOps => f.cs # {}}

Running(op) == stack # <<>> /\ Head(stack).op = op
TheClient == CHOOSE c \in Head(stack).cs : TRUE
Rest == Tail(stack)

Quiescent == stack = <<>>
MayCall == Quiescent \/ (Running("user") /\ Len(stack) <= MaxDepth)

-----------------------------------------------------------------------------
Init ==
  /\ state = [c \in Clients |-> "Closed"]
  /\ remaining = [c \in Clients |-> 0]
  /\ limit = [c \in Clients |-> 0]
  /\ configured = [c \in Clients |-> 0]
  /\ debt = [c \in Clients |-> 0]
  /\ listed = {} /\ open = {} /\ held = {}
  /\ on = [s \in Streams |-> NoClient]
  /\ pending = <<>> /\ purging = <<>>
  /\ connectingCapacity = 0 /\ totalCapacity = 0 /\ numActiveStreams = 0
  /\ draining = FALSE /\ deleted = FALSE
  /\ idleCallbacks = TRUE /\ readyCallback = FALSE /\ cached = 0
  /\ stack = <<>>

-----------------------------------------------------------------------------
(* Creating connections *)

(* The two demand formulas of shouldCreateNewConnection: what is queued    *)
(* exceeds what is being connected, and the preconnect ratio.              *)
OnDemand == Len(pending) > connectingCapacity

(* Mutant: the active streams are left out of the demand. *)
ShouldConnectIgnoringActive(ratioHalves, anticipated) ==
  (Len(pending) + anticipated) * ratioHalves > 2 * (totalCapacity + numActiveStreams)

ShouldConnect(ratioHalves, anticipated) ==
  (Len(pending) + numActiveStreams + anticipated) * ratioHalves
    > 2 * (totalCapacity + numActiveStreams)

(* Host health and the cluster's preconnect policy change at any time, and *)
(* they choose between the two formulas.                                   *)
ShouldCreateNewConnection(globalHalves) ==
  {OnDemand, IF globalHalves # 0 THEN ShouldConnect(globalHalves, 1)
                                 ELSE ShouldConnect(RatioHalves, 0)}

(* Other pools of the cluster share the circuit breakers: they may be full *)
(* at any time, and have room only if this pool's own use leaves room.     *)
MayHaveRoom(used, max) == {FALSE} \cup {used < max}

(* A client identity stands for a new object when nothing refers to the    *)
(* closed one it stood for: no call in progress and no stream.             *)
FreeClient(c) ==
  /\ state[c] = "Closed"
  /\ \A s \in Streams : on[s] # c
  /\ \A f \in Elements(stack) : c \notin f.cs

(* instantiateActiveClient and the bookkeeping of the new client. *)
CreateClient(c) ==
  /\ FreeClient(c)
  /\ state' = [state EXCEPT ![c] = "Connecting"]
  /\ remaining' = [remaining EXCEPT ![c] = MaxRequestsPerConnection]
  /\ limit' = [limit EXCEPT ![c] = MaxConcurrentStreams]
  /\ configured' = [configured EXCEPT ![c] = InitialStreamsLimit]
  /\ debt' = [debt EXCEPT ![c] = 0]
  /\ listed' = listed \cup {c} /\ open' = open \cup {c} /\ held' = held \cup {c}
  /\ LET unused == UnusedCapacity(MaxRequestsPerConnection, MaxConcurrentStreams, 0)
     IN /\ totalCapacity' = totalCapacity + unused
        /\ connectingCapacity' = connectingCapacity + unused
  /\ UNCHANGED numActiveStreams

(* tryCreateNewConnection, with the stack to continue with when it creates *)
(* a connection within the limits, when it stops, and when the attempt is  *)
(* shed or fails.                                                          *)
TryCreateNewConnection(globalHalves, created, stopped, failed) ==
  \E wanted \in ShouldCreateNewConnection(globalHalves),
     room \in MayHaveRoom(Cardinality(held), MaxConnections) :
    \/ /\ ~wanted
       /\ stack' = stopped /\ UNCHANGED <<clientVars, counterVars>>
    \/ /\ wanted /\ MayShed
       /\ stack' = failed /\ UNCHANGED <<clientVars, counterVars>>
    \/ /\ wanted /\ (room \/ listed = {}) /\ MayFailToCreate
       /\ stack' = failed /\ UNCHANGED <<clientVars, counterVars>>
    \/ /\ wanted /\ (room \/ listed = {})
       /\ \E c \in Clients : CreateClient(c)
       /\ stack' = IF room THEN created ELSE stopped
    \/ /\ wanted /\ ~room /\ listed # {}
       /\ stack' = stopped /\ UNCHANGED <<clientVars, counterVars>>

(* One round of tryCreateNewConnections, which makes at most three.  The   *)
(* frame with no attempt left is the end of a loop that created three.     *)
(* When it runs for a stream that newStreamImpl just queued, a failed      *)
(* attempt cancels that stream and tells its user.                         *)
TryCreateNewConnections ==
  /\ Running("tryCreate")
  /\ LET n == Head(stack).n
         s == Head(stack).s
     IN IF n = 0
          THEN stack' = Rest /\ UNCHANGED <<clientVars, counterVars>>
          ELSE TryCreateNewConnection(0, <<TryCreate(n - 1, s)>> \o Rest, Rest,
                 IF s = NoStream THEN Rest ELSE <<CallFor("cancelExcess", s), User>> \o Rest)
  /\ UNCHANGED <<streamVars, poolVars>>

(* ClusterManagerImpl asks for a connection ahead of the next stream. *)
MaybePreconnect ==
  /\ Quiescent /\ ~deleted /\ ~draining /\ GlobalRatioHalves # 0
  /\ TryCreateNewConnection(GlobalRatioHalves, <<>>, <<>>, <<>>)
  /\ UNCHANGED <<streamVars, poolVars>>

-----------------------------------------------------------------------------
(* Attaching and releasing streams *)

(* attachStreamToClient: the stream is refused when the requests breaker   *)
(* is full; otherwise it takes one unit of the client's capacity.  Either  *)
(* way its user is called.                                                 *)
AttachStreamToClient(c, s, rest) ==
  /\ \E room \in MayHaveRoom(numActiveStreams, MaxRequests) :
       IF room
         THEN /\ remaining' = [remaining EXCEPT ![c] = @ - 1]
              /\ state' = [state EXCEPT ![c] =
                             IF remaining[c] = 1 THEN "Draining"
                             ELSE IF CurrentUnusedCapacity(c) = 1 THEN "Busy" ELSE @]
              /\ totalCapacity' = totalCapacity - 1
              /\ numActiveStreams' = numActiveStreams + 1
              /\ on' = [on EXCEPT ![s] = c]
         ELSE UNCHANGED <<remaining, state, totalCapacity, numActiveStreams, on>>
  /\ stack' = <<User>> \o rest
  /\ UNCHANGED <<limit, configured, debt, listed, open, held, connectingCapacity>>

(* onStreamClosed for a stream the codec has already taken off the client. *)
(* Closing a stream returns capacity only if concurrency was what limited  *)
(* the client, and first pays back the debt left by a lowered limit.  An   *)
(* HTTP/1 client attaches the next stream later, from upstream_ready_cb_.  *)
OnStreamClosed(c, s, rest) ==
  LET act == NumActiveStreams(c) - 1
      limited == limit[c] < act + 1 \/ remaining[c] > limit[c] - act - 1
      absorbed == limited /\ debt[c] > 0
      wakes == state[c] = "Busy" /\ UnusedCapacity(remaining[c], limit[c], act) > 0
  IN /\ on' = [on EXCEPT ![s] = NoClient]
     /\ numActiveStreams' = numActiveStreams - 1
     /\ debt' = [debt EXCEPT ![c] = IF absorbed THEN @ - 1 ELSE @]
     /\ totalCapacity' = IF limited /\ ~absorbed THEN totalCapacity + 1 ELSE totalCapacity
     /\ state' = [state EXCEPT ![c] = IF wakes THEN "Ready" ELSE @]
     /\ stack' = (IF state[c] = "Draining" /\ act = 0 THEN <<CallOn("close", c)>>
                  ELSE IF wakes /\ Multiplexed THEN <<Call("upstreamReady")>>
                  ELSE <<>>) \o rest
     /\ UNCHANGED <<remaining, limit, configured, listed, open, held, connectingCapacity>>

(* Mutant: one stream is attached per call. *)
OnUpstreamReadyOnce ==
  /\ Running("upstreamReady")
  /\ IF pending # <<>> /\ InState("Ready") # {}
       THEN /\ \E c \in InState("Ready") : AttachStreamToClient(c, Head(pending), Rest)
            /\ pending' = Tail(pending)
       ELSE stack' = Rest /\ UNCHANGED <<clientVars, counterVars, on, pending>>
  /\ UNCHANGED <<purging, poolVars>>

(* onUpstreamReady: pending streams go to ready clients, oldest first. *)
OnUpstreamReady ==
  /\ Running("upstreamReady")
  /\ IF pending # <<>> /\ InState("Ready") # {}
       THEN /\ \E c \in InState("Ready") : AttachStreamToClient(c, Head(pending), stack)
            /\ pending' = Tail(pending)
       ELSE /\ stack' = (IF pending # <<>> THEN <<TryCreate(3, NoStream)>> ELSE <<>>) \o Rest
            /\ UNCHANGED <<clientVars, counterVars, on, pending>>
  /\ UNCHANGED <<purging, poolVars>>

(* upstream_ready_cb_ fires. *)
UpstreamReadyCallback ==
  /\ Quiescent /\ readyCallback
  /\ readyCallback' = FALSE
  /\ stack' = <<Call("upstreamReady")>>
  /\ UNCHANGED <<clientVars, streamVars, counterVars, draining, deleted, idleCallbacks, cached>>

-----------------------------------------------------------------------------
(* The users' calls *)

FreeStream(s) == on[s] = NoClient /\ s \notin Elements(pending) \cup Elements(purging)

(* newStreamImpl: a ready client takes the stream at once, and the pool    *)
(* considers preconnecting; otherwise the stream is queued (unless the     *)
(* breaker for pending requests is full) and a connection made if needed.  *)
NewStream(s) ==
  /\ MayCall /\ FreeStream(s) /\ ~draining /\ ~deleted
  /\ RetryInPurge \/ purging = <<>>
  /\ \/ /\ \E c \in InState("Ready") :
             AttachStreamToClient(c, s, <<TryCreate(3, NoStream)>> \o stack)
        /\ UNCHANGED pending
     \/ /\ InState("Ready") = {}
        /\ \E room \in MayHaveRoom(Len(pending) + Len(purging), MaxPendingRequests) :
             /\ pending' = IF room THEN Append(pending, s) ELSE pending
             /\ stack' = <<IF room THEN TryCreate(3, s) ELSE User>> \o stack
        /\ UNCHANGED <<clientVars, counterVars, on>>
  /\ UNCHANGED <<purging, poolVars>>

(* PendingStream::cancel, called by the stream's user.  During a purge     *)
(* users cancel streams that are being purged.                             *)
Cancel(s) ==
  /\ MayCall
  /\ s \in Elements(IF purging # <<>> THEN purging ELSE pending)
  /\ \E op \in {"cancel", "cancelExcess"} : stack' = <<CallFor(op, s)>> \o stack
  /\ UNCHANGED <<clientVars, streamVars, counterVars, poolVars>>

(* connectingConnectionIsExcess *)
ConnectingConnectionIsExcess(c, queued) ==
  (queued + numActiveStreams) * RatioHalves
    <= 2 * (connectingCapacity - CurrentUnusedCapacity(c) + numActiveStreams)

(* Mutant: the capacity of a draining client stays in the counters. *)
DrainClientKeepingCapacity(c) ==
  /\ state' = [state EXCEPT ![c] = "Draining"]
  /\ remaining' = [remaining EXCEPT ![c] = 0]
  /\ UNCHANGED <<limit, configured, debt, listed, open, held, counterVars>>

(* transitionActiveClientState(client, Draining), with ActiveClient::drain: *)
(* the client's unused capacity leaves the pool.                           *)
DrainClient(c) ==
  /\ state' = [state EXCEPT ![c] = "Draining"]
  /\ remaining' = [remaining EXCEPT ![c] = 0]
  /\ totalCapacity' = totalCapacity - CurrentUnusedCapacity(c)
  /\ connectingCapacity' = IF state[c] = "Connecting"
                             THEN connectingCapacity - CurrentUnusedCapacity(c)
                             ELSE connectingCapacity
  /\ UNCHANGED <<limit, configured, debt, listed, open, held, numActiveStreams>>

(* onPendingStreamCancel *)
OnPendingStreamCancel ==
  /\ Running("cancel") \/ Running("cancelExcess")
  /\ LET s == Head(stack).s
         queue == IF purging # <<>> THEN pending ELSE Without(pending, s)
     IN /\ pending' = queue
        /\ purging' = Without(purging, s)
        /\ IF Running("cancelExcess") /\ InState("Connecting") # {}
             THEN \E c \in InState("Connecting") :
                    IF ConnectingConnectionIsExcess(c, Len(queue))
                      THEN /\ DrainClient(c)
                           /\ stack' = <<CallOn("close", c), Call("checkIdle")>> \o Rest
                      ELSE /\ stack' = <<Call("checkIdle")>> \o Rest
                           /\ UNCHANGED <<clientVars, counterVars>>
             ELSE /\ stack' = <<Call("checkIdle")>> \o Rest
                  /\ UNCHANGED <<clientVars, counterVars>>
  /\ UNCHANGED <<on, poolVars>>

(* closed_with_active_rq_, set by the first reset of a lost connection     *)
(* unless the codec closed it because of a protocol error.                 *)
ClosedWithActiveRq(c) ==
  c \notin open /\ CallOnError("reset", c) \notin Elements(stack)

(* MultiplexedActiveClientBase::onStreamDestroy, with what follows it. *)
OnStreamDestroy(s, rest) ==
  /\ OnStreamClosed(on[s], s,
       (IF ClosedWithActiveRq(on[s]) THEN <<>> ELSE <<Call("checkIdle")>>) \o rest)
  /\ UNCHANGED <<pending, purging, poolVars>>

(* HTTP/1: a reset, or a response that ends the connection, closes it. *)
OnResetStream(s) ==
  /\ on[s] \in open
  /\ stack' = <<CallOn("close", on[s])>> \o stack
  /\ UNCHANGED <<clientVars, streamVars, counterVars, poolVars>>

(* HTTP/1: the response is complete and the connection is kept; the next   *)
(* stream is attached by a later callback.                                 *)
OnDecodeComplete(s) ==
  /\ on[s] \in open /\ Quiescent
  /\ readyCallback' = TRUE
  /\ OnStreamClosed(on[s], s, <<Call("checkIdle")>>)
  /\ UNCHANGED <<pending, purging, draining, deleted, idleCallbacks, cached>>

(* A stream ends, by its response or by a reset. *)
EndStream(s) ==
  /\ MayCall /\ on[s] # NoClient
  /\ \/ Multiplexed /\ OnStreamDestroy(s, stack)
     \/ ~Multiplexed /\ (OnResetStream(s) \/ OnDecodeComplete(s))

UserReturns ==
  /\ Running("user")
  /\ stack' = Rest
  /\ UNCHANGED <<clientVars, streamVars, counterVars, poolVars>>

-----------------------------------------------------------------------------
(* Connections: connected, lost, told to stop *)

(* onConnectionEvent, Connected *)
OnConnected(c) ==
  /\ Quiescent /\ c \in InState("Connecting")
  /\ connectingCapacity' = connectingCapacity - CurrentUnusedCapacity(c)
  /\ LET ready == CurrentUnusedCapacity(c) > 0
     IN /\ state' = [state EXCEPT ![c] = IF ready THEN "Ready" ELSE "Busy"]
        /\ stack' = (IF ready THEN <<Call("upstreamReady")>> ELSE <<>>) \o <<Call("checkIdle")>>
  /\ UNCHANGED <<remaining, limit, configured, debt, listed, open, held, streamVars,
                 totalCapacity, numActiveStreams, poolVars>>

(* The peer closes a connection, or its idle timer does. *)
ConnectionEnds(c) ==
  /\ Quiescent /\ c \in open
  /\ stack' = <<CallOn("close", c)>>
  /\ UNCHANGED <<clientVars, streamVars, counterVars, poolVars>>

(* CodecClient::onData: the codec rejects what the peer sent. *)
OnProtocolError(c) ==
  /\ Multiplexed /\ Quiescent /\ c \in open /\ state[c] # "Connecting"
  /\ stack' = <<CallOnError("close", c)>>
  /\ UNCHANGED <<clientVars, streamVars, counterVars, poolVars>>

(* ActiveClient::onConnectTimeout *)
OnConnectTimeout(c) == c \in InState("Connecting") /\ ConnectionEnds(c)

(* CodecClient::close: a closed connection ignores it.  The codec's        *)
(* callbacks see the event first and reset the streams, then the pool's.   *)
Close ==
  /\ Running("close")
  /\ open' = open \ {TheClient}
  /\ stack' = (IF TheClient \in open
                 THEN <<[Head(stack) EXCEPT !.op = "reset"], CallOn("lost", TheClient)>>
                 ELSE <<>>) \o Rest
  /\ UNCHANGED <<state, remaining, limit, configured, debt, listed, held, streamVars,
                 counterVars, poolVars>>

(* Mutant: the loop does not look again after a callback. *)
ResetStreamsOnce ==
  /\ Running("reset")
  /\ LET streams == {s \in Streams : on[s] = TheClient}
     IN IF streams # {} /\ Multiplexed
          THEN \E s \in streams : OnStreamDestroy(s, <<User>> \o Rest)
          ELSE /\ stack' = (IF streams # {} THEN <<User>> ELSE <<>>) \o Rest
               /\ UNCHANGED <<clientVars, streamVars, counterVars, poolVars>>

(* The loop in CodecClient::onEvent that resets the requests of a lost     *)
(* connection.  HTTP/2 streams leave the client at once; the one HTTP/1    *)
(* stream stays until its wrapper is deleted.                              *)
ResetStreams ==
  /\ Running("reset")
  /\ LET c == TheClient
         streams == {s \in Streams : on[s] = c}
     IN IF streams # {} /\ Multiplexed
          THEN \E s \in streams : OnStreamDestroy(s, <<User>> \o stack)
          ELSE /\ stack' = (IF streams # {} THEN <<User>> ELSE <<>>) \o Rest
               /\ UNCHANGED <<clientVars, streamVars, counterVars, poolVars>>

(* purgePendingStreams moves the queue to the list of streams to fail, so  *)
(* that a stream a user submits meanwhile is not failed.  The mutant       *)
(* leaves the streams in the queue.                                        *)
PendingToPurgeCopied == pending' = pending /\ purging' = purging \o pending
PendingToPurge == pending' = <<>> /\ purging' = purging \o pending

(* onConnectionEvent, LocalClose and RemoteClose.  The client's capacity   *)
(* leaves the pool.  If it was still connecting, the pending streams are   *)
(* failed first, and the pool may connect again, while the client is still *)
(* in its list; then its resources are released and it leaves the list.    *)
OnConnectionLost ==
  /\ Running("lost")
  /\ LET c == TheClient
         unused == CurrentUnusedCapacity(c)
     IN /\ remaining' = [remaining EXCEPT ![c] = 0]
        /\ totalCapacity' = totalCapacity - unused
        /\ IF state[c] = "Connecting"
             THEN /\ connectingCapacity' = connectingCapacity - unused
                  /\ PendingToPurge
                  /\ stack' = <<Call("purge"), Call("retry"), CallOn("release", c)>> \o Rest
                  /\ UNCHANGED <<listed, held>>
             ELSE /\ listed' = listed \ {c} /\ held' = held \ {c}
                  /\ stack' = <<Call("notifyIdle"), CallOn("closed", c)>> \o Rest
                  /\ UNCHANGED <<connectingCapacity, pending, purging>>
  /\ UNCHANGED <<state, limit, configured, debt, open, on, numActiveStreams, poolVars>>

(* purgePendingStreams: one stream's failure is reported per step. *)
PurgePendingStreams ==
  /\ Running("purge")
  /\ IF purging # <<>>
       THEN purging' = Tail(purging) /\ stack' = <<User>> \o stack
       ELSE purging' = purging /\ stack' = Rest
  /\ UNCHANGED <<clientVars, on, pending, counterVars, poolVars>>

(* After the purge: preconnect again, unless the pool is draining. *)
RetryAfterPurge ==
  /\ Running("retry")
  /\ stack' = (IF draining THEN <<>> ELSE <<TryCreate(3, NoStream)>>) \o Rest
  /\ UNCHANGED <<clientVars, streamVars, counterVars, poolVars>>

(* releaseResources and removeFromList, for a client that was connecting. *)
ReleaseClient ==
  /\ Running("release")
  /\ listed' = listed \ {TheClient} /\ held' = held \ {TheClient}
  /\ stack' = <<Call("notifyIdle"), CallOn("closed", TheClient)>> \o Rest
  /\ UNCHANGED <<state, remaining, limit, configured, debt, open, streamVars, counterVars,
                 poolVars>>

(* Mutant: a draining pool does not reconnect for its queue. *)
ClientClosedUnlessDraining ==
  /\ Running("closed")
  /\ state' = [state EXCEPT ![TheClient] = "Closed"]
  /\ stack' = (IF pending # <<>> /\ ~draining THEN <<TryCreate(3, NoStream)>> ELSE <<>>) \o Rest
  /\ UNCHANGED <<remaining, limit, configured, debt, listed, open, held, streamVars,
                 counterVars, poolVars>>

(* The end of onConnectionEvent for a lost connection. *)
ClientClosed ==
  /\ Running("closed")
  /\ state' = [state EXCEPT ![TheClient] = "Closed"]
  /\ stack' = (IF pending # <<>> THEN <<TryCreate(3, NoStream)>> ELSE <<>>) \o Rest
  /\ UNCHANGED <<remaining, limit, configured, debt, listed, open, held, streamVars,
                 counterVars, poolVars>>

(* Mutant: the wrapper's destructor does not report the stream. *)
DeleteStreamWrapperSilently(s) ==
  /\ Quiescent /\ on[s] # NoClient /\ on[s] \notin listed
  /\ on' = [on EXCEPT ![s] = NoClient]
  /\ UNCHANGED <<clientVars, counterVars, pending, purging, poolVars, stack>>

(* Deferred deletion runs the destructor of the HTTP/1 stream wrapper that *)
(* releaseResources moved away from a lost client.                         *)
DeleteStreamWrapper(s) ==
  /\ Quiescent /\ on[s] # NoClient /\ on[s] \notin listed
  /\ OnStreamClosed(on[s], s, <<>>)
  /\ UNCHANGED <<pending, purging, poolVars>>

(* ActiveClient::onConnectionDurationTimeout (the timer runs from the      *)
(* Connected event to the loss of the connection) *)
OnConnectionDurationTimeout(c) ==
  /\ Quiescent /\ c \in InState("Ready") \cup InState("Busy")
  /\ DrainClient(c)
  /\ stack' = IF NumActiveStreams(c) = 0 THEN <<CallOn("close", c)>> ELSE <<>>
  /\ UNCHANGED <<streamVars, poolVars>>

(* Mutant: GOAWAY drains a client that has no stream. *)
OnGoAwayAlwaysDrains(c) ==
  /\ Multiplexed /\ Quiescent /\ c \in InState("Ready") \cup InState("Busy")
  /\ DrainClient(c)
  /\ UNCHANGED <<streamVars, poolVars, stack>>

(* MultiplexedActiveClientBase::onGoAway *)
OnGoAway(c) ==
  /\ Multiplexed /\ Quiescent /\ c \in InState("Ready") \cup InState("Busy")
  /\ IF NumActiveStreams(c) = 0
       THEN stack' = <<CallOn("close", c)>> /\ UNCHANGED <<clientVars, counterVars>>
       ELSE stack' = stack /\ DrainClient(c)
  /\ UNCHANGED <<streamVars, poolVars>>

(* MultiplexedActiveClientBase::onSettings.  A limit below the number of   *)
(* active streams leaves a debt.  A client that becomes ready is moved to  *)
(* its list, and nothing else happens.                                     *)
OnSettings(c, m) ==
  /\ Multiplexed /\ Quiescent /\ c \in listed /\ state[c] # "Connecting"
  /\ LET lim == IF m < configured[c] THEN m ELSE configured[c]
         act == NumActiveStreams(c)
         unused == UnusedCapacity(remaining[c], lim, act)
     IN /\ limit' = [limit EXCEPT ![c] = lim]
        /\ debt' = [debt EXCEPT ![c] = CapacityDebt(lim, act)]
        /\ totalCapacity' = totalCapacity - CurrentUnusedCapacity(c) + unused
        /\ state' = [state EXCEPT ![c] = IF @ = "Ready" /\ unused = 0 THEN "Busy"
                                         ELSE IF @ = "Busy" /\ unused > 0 THEN "Ready" ELSE @]
  /\ cached' = IF UsesCache THEN m ELSE cached
  /\ UNCHANGED <<remaining, configured, listed, open, held, streamVars, connectingCapacity,
                 numActiveStreams, draining, deleted, idleCallbacks, readyCallback, stack>>

-----------------------------------------------------------------------------
(* Going idle, draining, destruction *)

(* checkForIdleAndNotify.  The one idle callback is the cluster manager's: *)
(* it takes the pool out of its map and queues it for deletion.            *)
CheckForIdleAndNotify ==
  /\ Running("notifyIdle")
  /\ idleCallbacks' = (idleCallbacks /\ ~IsIdle)
  /\ deleted' = (deleted \/ (idleCallbacks /\ IsIdle))
  /\ stack' = Rest
  /\ UNCHANGED <<clientVars, streamVars, counterVars, draining, readyCallback, cached>>

(* Mutant: idle connections of a draining pool are left open. *)
CheckForIdleOnly ==
  /\ Running("checkIdle")
  /\ stack' = <<Call("notifyIdle")>> \o Rest
  /\ UNCHANGED <<clientVars, streamVars, counterVars, poolVars>>

(* checkForIdleAndCloseIdleConnsIfDraining *)
CheckForIdleAndCloseIdleConnsIfDraining ==
  /\ Running("checkIdle")
  /\ stack' = (IF draining THEN <<Call("closeIdle")>> ELSE <<>>) \o <<Call("notifyIdle")>> \o Rest
  /\ UNCHANGED <<clientVars, streamVars, counterVars, poolVars>>

(* Mutant: nothing is closed while a stream is queued. *)
IdleClientsUnlessQueued ==
  IF pending = <<>>
    THEN {c \in InState("Ready") : NumActiveStreams(c) = 0} \cup InState("Connecting")
    ELSE {}

(* closeIdleConnectionsForDrainingPool closes the ready clients without    *)
(* streams and, if nothing is queued, the connecting ones.                 *)
IdleClients ==
  {c \in InState("Ready") : NumActiveStreams(c) = 0}
    \cup (IF pending = <<>> THEN InState("Connecting") ELSE {})

CloseIdleConnectionsForDrainingPool ==
  /\ Running("closeIdle")
  /\ stack' = <<CloseAll(IdleClients)>> \o Rest
  /\ UNCHANGED <<clientVars, streamVars, counterVars, poolVars>>

CloseNextClient ==
  /\ Running("closeAll")
  /\ IF Head(stack).cs = {}
       THEN stack' = Rest
       ELSE \E c \in Head(stack).cs :
              stack' = <<CallOn("close", c), CloseAll(Head(stack).cs \ {c})>> \o Rest
  /\ UNCHANGED <<clientVars, streamVars, counterVars, poolVars>>

(* drainConnectionsImpl(DrainAndDelete) *)
DrainAndDelete ==
  /\ Quiescent /\ ~deleted /\ ~draining
  /\ draining' = TRUE
  /\ stack' = <<Call("checkIdle")>>
  /\ UNCHANGED <<clientVars, streamVars, counterVars, deleted, idleCallbacks, readyCallback,
                 cached>>

(* drainConnectionsImpl(DrainExistingConnections) *)
DrainExistingConnections ==
  /\ Quiescent /\ ~deleted
  /\ stack' = <<Call("closeIdle"), Call("drainRest")>>
  /\ UNCHANGED <<clientVars, streamVars, counterVars, poolVars>>

(* drainClients for the ready list and the loop over the busy list *)
DrainRemainingClients ==
  /\ Running("drainRest")
  /\ LET rest == InState("Ready") \cup InState("Busy")
     IN IF rest # {}
          THEN stack' = stack /\ \E c \in rest : DrainClient(c)
          ELSE stack' = Rest /\ UNCHANGED <<clientVars, counterVars>>
  /\ UNCHANGED <<streamVars, poolVars>>

(* The pool object is destroyed: deferred deletion after the idle callback *)
(* (its clients and wrappers were queued before it), or ConnPoolMap's      *)
(* freeOnePool, which takes a pool with no pending and no active stream.   *)
Destroy ==
  /\ Quiescent
  /\ \A s \in Streams : on[s] # NoClient => on[s] \in listed
  /\ deleted \/ (pending = <<>> /\ numActiveStreams = 0)
  /\ deleted' = TRUE
  /\ stack' = <<Call("destroy")>>
  /\ UNCHANGED <<clientVars, streamVars, counterVars, draining, idleCallbacks, readyCallback,
                 cached>>

(* destructAllConnections; at its end the next user of the host gets a new *)
(* pool.                                                                   *)
DestructAllConnections ==
  /\ Running("destroy")
  /\ IF listed # {}
       THEN /\ \E c \in listed : stack' = <<CallOn("close", c)>> \o stack
            /\ UNCHANGED <<debt, streamVars, counterVars, poolVars>>
       ELSE /\ debt' = [c \in Clients |-> 0]
            /\ on' = [s \in Streams |-> NoClient] /\ pending' = <<>> /\ purging' = <<>>
            /\ connectingCapacity' = 0 /\ totalCapacity' = 0 /\ numActiveStreams' = 0
            /\ draining' = FALSE /\ deleted' = FALSE
            /\ idleCallbacks' = TRUE /\ readyCallback' = FALSE
            /\ stack' = Rest /\ UNCHANGED cached
  /\ UNCHANGED <<state, remaining, limit, configured, listed, open, held>>

-----------------------------------------------------------------------------
Step ==
  \/ TryCreateNewConnections \/ OnUpstreamReady \/ OnPendingStreamCancel
  \/ UserReturns \/ Close \/ ResetStreams \/ OnConnectionLost \/ PurgePendingStreams
  \/ RetryAfterPurge \/ ReleaseClient \/ ClientClosed \/ CheckForIdleAndNotify
  \/ CheckForIdleAndCloseIdleConnsIfDraining \/ CloseIdleConnectionsForDrainingPool
  \/ CloseNextClient \/ DrainRemainingClients \/ DestructAllConnections

UserCall == \E s \in Streams : NewStream(s) \/ Cancel(s) \/ EndStream(s)

Event ==
  \/ \E c \in Clients :
       \/ OnConnected(c) \/ ConnectionEnds(c) \/ OnProtocolError(c) \/ OnConnectTimeout(c)
       \/ OnConnectionDurationTimeout(c) \/ OnGoAway(c)
       \/ \E m \in Settings : OnSettings(c, m)
  \/ \E s \in Streams : DeleteStreamWrapper(s)
  \/ UpstreamReadyCallback \/ MaybePreconnect
  \/ DrainAndDelete \/ DrainExistingConnections \/ Destroy

Next == Step \/ UserCall \/ Event

Spec == Init /\ [][Next]_vars

(* A call in progress runs to its end.  The event loop handles every timer *)
(* and every queued callback or deletion in the end, however busy it is;   *)
(* a connecting client always has its connect timer armed.  Streams end:   *)
(* the router's timeouts see to that.                                      *)
Fairness ==
  /\ WF_vars(Step)
  /\ SF_vars(\E c \in Clients : OnConnectTimeout(c))
  /\ SF_vars(Quiescent /\ \E s \in Streams : EndStream(s))
  /\ SF_vars(\E s \in Streams : DeleteStreamWrapper(s))
  /\ SF_vars(UpstreamReadyCallback)
  /\ SF_vars(deleted /\ Destroy)

FairSpec == Spec /\ Fairness

-----------------------------------------------------------------------------
(* Properties *)

(* The variables have the types of the members they model; in particular   *)
(* no capacity counter is ever decremented below zero.                     *)
TypeOK ==
  /\ state \in [Clients -> States]
  /\ remaining \in [Clients -> Nat] /\ limit \in [Clients -> Nat]
  /\ configured \in [Clients -> Nat] /\ debt \in [Clients -> Nat]
  /\ listed \subseteq Clients /\ open \subseteq Clients /\ held \subseteq Clients
  /\ on \in [Streams -> Clients \cup {NoClient}]
  /\ pending \in Seq(Streams) /\ purging \in Seq(Streams)
  /\ connectingCapacity \in Nat /\ totalCapacity \in Nat /\ numActiveStreams \in Nat
  /\ {draining, deleted, idleCallbacks, readyCallback} \subseteq BOOLEAN
  /\ cached \in Nat
  /\ stack \in Seq(Frames)

(* The set whose size is the capacity of the clients in S. *)
Units(S) == UNION {{c} \X (1..CurrentUnusedCapacity(c)) : c \in S}

(* assertCapacityCountsAreCorrect, in every state and not only where the   *)
(* code calls it: both capacity counters are the sums over the client      *)
(* lists, a busy or draining client has no capacity, a ready one has.      *)
CapacityCountsAreCorrect ==
  /\ connectingCapacity = Cardinality(Units(InState("Connecting")))
  /\ totalCapacity = Cardinality(Units(listed))
  /\ \A c \in InState("Busy") \cup InState("Draining") : CurrentUnusedCapacity(c) = 0
  /\ \A c \in InState("Ready") : CurrentUnusedCapacity(c) > 0

(* num_active_streams_ counts the streams attached to clients, including   *)
(* those of lost HTTP/1 connections until their wrapper is deleted.        *)
ActiveStreamsAreCounted ==
  numActiveStreams = Cardinality({s \in Streams : on[s] # NoClient})

(* Every stream is in one place: queued once, about to be failed once,     *)
(* attached to one client, or none of these, through purges, retries from  *)
(* callbacks and cancellations.                                            *)
StreamIsInOnePlace ==
  LET q == purging \o pending
  IN /\ \A i, j \in 1..Len(q) : q[i] = q[j] => i = j
     /\ \A i \in 1..Len(q) : on[q[i]] = NoClient

(* capacity_debt_ is the number of active streams above the limit that the *)
(* peer's SETTINGS imposed, however streams, SETTINGS frames and drains    *)
(* interleave: this is what makes onStreamClosed add the right capacity.   *)
DebtIsExact ==
  \A c \in Clients : debt[c] = IF NumActiveStreams(c) > limit[c]
                                  THEN NumActiveStreams(c) - limit[c] ELSE 0

(* A stream that sits on a closed HTTP/2 connection, even one attached     *)
(* after it closed, is still going to be reset by the codec's loop.        *)
StreamsOfLostConnectionsAreReset ==
  Multiplexed => \A s \in Streams :
    on[s] # NoClient /\ on[s] \notin open =>
      \E f \in Elements(stack) : f.op = "reset" /\ on[s] \in f.cs

(* The ENVOY_BUG at the end of newStreamImpl: when a stream was queued and *)
(* the queue exceeds the connecting capacity, no health or preconnect      *)
(* setting makes the pool decide that no connection is needed.             *)
QueuedStreamGetsConnection ==
  Running("tryCreate") /\ Head(stack).n = 3 /\ Head(stack).s # NoStream /\ OnDemand
    => FALSE \notin ShouldCreateNewConnection(0)

(* The stream given to onPendingStreamCancel is in the list it is removed  *)
(* from (linked_object.h: "This item should be in this list").             *)
CancelledStreamIsInList ==
  Running("cancel") \/ Running("cancelExcess") =>
    Head(stack).s \in Elements(IF purging # <<>> THEN purging ELSE pending)

(* The ENVOY_BUGs of deleteIsPendingImpl and of the destructor: a pool     *)
(* that is queued for deletion stays idle and owns no capacity.            *)
DeletedPoolStaysIdle ==
  deleted /\ Call("destroy") \notin Elements(stack)
    => pending = <<>> /\ listed = {} /\ totalCapacity = 0 /\ connectingCapacity = 0

(* The destructor's loop ends with nothing queued and no capacity left. *)
DestructorLeavesNothing ==
  Running("destroy") /\ listed = {} =>
    pending = <<>> /\ purging = <<>> /\ totalCapacity = 0 /\ connectingCapacity = 0

(* "to prevent pending streams being queued to this upstream with no way   *)
(* to be processed": when the pool is at rest a queued stream has a        *)
(* client, whatever the circuit breakers did.                              *)
QueuedStreamHasClient == Quiescent /\ pending # <<>> => listed # {}

(* onUpstreamReady is "called when an upstream is ready to serve pending   *)
(* streams": at rest, streams wait beside a ready client only if the       *)
(* callback that will attach them is scheduled.                            *)
ReadyClientServesQueue ==
  Quiescent /\ pending # <<>> /\ InState("Ready") # {} => readyCallback

(* A draining client "will be closed when all streams complete": at rest   *)
(* no client is left draining without a stream whose end would close it.   *)
DrainingClientHasStreams ==
  Quiescent => \A c \in InState("Draining") : NumActiveStreams(c) > 0

(* The ASSERT of drainClients: the ready clients that are left once the    *)
(* idle ones were closed serve streams.                                    *)
DrainedClientsAreNotIdle ==
  Running("drainRest") => \A c \in InState("Ready") : NumActiveStreams(c) > 0

(* A pool that drains for deletion and has not gone idle is waiting for    *)
(* something that will end: a connection attempt, a queued stream or an    *)
(* active one.                                                             *)
DrainingPoolHasWork ==
  Quiescent /\ draining /\ ~deleted =>
    pending # <<>> \/ InState("Connecting") # {} \/ \E s \in Streams : on[s] \in listed

(* The ASSERT of tryCreateNewConnections: a pool that drains for deletion  *)
(* does not create three connections in a row.                             *)
DrainingPoolDoesNotPreconnect ==
  Running("tryCreate") /\ Head(stack).n = 0 => ~draining

(* DrainAndDelete gracefully completes all requests and closes all         *)
(* connections "in preparation for deletion": a pool that drains is        *)
(* destroyed in the end (the model then continues with a new pool).        *)
DrainedPoolIsDestroyed == draining ~> ~draining

=============================================================================
