------------------------- MODULE ConnPoolInvariant --------------------------
(***************************************************************************)
(* The inductive invariant of the connection pool, in two parts: the books *)
(* (clients, capacities and counters) and the duties of the calls in       *)
(* progress.                                                               *)
(***************************************************************************)
EXTENDS ConnPool

-----------------------------------------------------------------------------
(* The books *)

(* TypeOK without the counters, whose types follow from the sums. *)
ClientTyped ==
  /\ state \in [Clients -> States]
  /\ remaining \in [Clients -> Nat] /\ limit \in [Clients -> Nat]
  /\ configured \in [Clients -> Nat] /\ debt \in [Clients -> Nat]
  /\ listed \subseteq Clients /\ open \subseteq Clients /\ held \subseteq Clients
  /\ on \in [Streams -> Clients \cup {NoClient}]

PoolTyped ==
  /\ pending \in Seq(Streams) /\ purging \in Seq(Streams)
  /\ {draining, deleted, idleCallbacks, readyCallback} \subseteq BOOLEAN
  /\ cached \in Nat

(* What holds of each client: outside the lists it has no lifetime left    *)
(* (so a late onStreamClosed adds nothing), while connecting it has no     *)
(* stream, its debt is exact, and its capacity fits its state.             *)
ClientOK(c) ==
  /\ c \notin listed => remaining[c] = 0
  /\ c \in listed => state[c] # "Closed"
  /\ state[c] = "Connecting" => NumActiveStreams(c) = 0
  /\ debt[c] = IF NumActiveStreams(c) > limit[c] THEN NumActiveStreams(c) - limit[c] ELSE 0
  /\ c \in listed /\ state[c] = "Draining" => remaining[c] = 0
  /\ c \in listed /\ state[c] = "Busy" => CurrentUnusedCapacity(c) = 0
  /\ c \in listed /\ state[c] = "Ready" => CurrentUnusedCapacity(c) > 0

(* The clients and the counters of the pool. *)
Books ==
  /\ \A c \in Clients : ClientOK(c)
  /\ connectingCapacity = Cardinality(Units(InState("Connecting")))
  /\ totalCapacity = Cardinality(Units(listed))

ClientPart == ClientTyped /\ Books /\ ActiveStreamsAreCounted

(* What a call in progress relies on: a client about to be released has    *)
(* given up its capacity, one about to be marked closed has left its list, *)
(* and a pool that is being destructed is deleted.                         *)
FrameOK(f) ==
  /\ f.op = "release" => \A c \in f.cs : remaining[c] = 0
  /\ f.op = "closed" => \A c \in f.cs : c \notin listed

StackPart ==
  /\ stack \in Seq(Frames)
  /\ \A f \in Elements(stack) : FrameOK(f) /\ (f.op = "destroy" => deleted /\ f = Call("destroy"))

(* Queued streams are queued once and are not attached. *)
QueuePart ==
  /\ PoolTyped
  /\ \A i, j \in 1..Len(pending) : pending[i] = pending[j] => i = j
  /\ \A i \in 1..Len(pending) : on[pending[i]] = NoClient

IInv == ClientPart /\ StackPart /\ QueuePart

(* Frames that need no invariant of their own. *)
Plain(f) == f.op # "release" /\ f.op # "closed" /\ f.op # "destroy"

(* What the books say of the sizes of sets. *)
Counted ==
  /\ \A c \in Clients : NumActiveStreams(c) \in Nat /\ CurrentUnusedCapacity(c) \in Nat
  /\ \A c \in Clients : NumActiveStreams(c) = 0 <=> \A s \in Streams : on[s] # c
  /\ connectingCapacity \in Nat /\ totalCapacity \in Nat /\ numActiveStreams \in Nat
  /\ listed = {} => totalCapacity = 0 /\ connectingCapacity = 0

-----------------------------------------------------------------------------
(* The duties *)

(* The attempt to connect for a stream that was queued just now. *)
Fresh(f) == f.op = "tryCreate" /\ f.n = 3 /\ f.s # NoStream

(* Frame f may be directly above frame g: what a drain or the destructor   *)
(* calls returns to the event loop, newStreamImpl tries to connect at once,*)
(* and the streams of a lost HTTP/2 connection are reset first.            *)
Above(f, g) ==
  /\ f.op # "destroy" /\ f.op # "drainRest"
  /\ ~Fresh(g)
  /\ Multiplexed /\ g.op = "lost" => f.op = "reset" /\ f.cs = g.cs

Orderly(q) == \A i \in 1..(Len(q) - 1) : Above(q[i], q[i + 1])

Doing(ops) == \E f \in Elements(stack) : f.op \in ops
DoingTo(ops, c) == \E f \in Elements(stack) : f.op \in ops /\ c \in f.cs

(* The calls are nested as they should be, each concerns the one client it *)
(* is about, and no client is ready when the pool connects for a stream.   *)
OrderPart ==
  /\ Orderly(stack)
  /\ \A f \in Elements(stack) : f.op \in ClientOps => \E c \in Clients : f.cs = {c}
  /\ \A f \in Elements(stack) : Fresh(f) => InState("Ready") = {}

(* Streams are being purged as long as there are any to purge; they are in *)
(* no other place, and a pool that is deleted has none and got none.       *)
PurgePart ==
  /\ purging # <<>> => Doing({"purge"})
  /\ deleted => pending = <<>>
  /\ ~deleted => idleCallbacks

PlacePart ==
  /\ \A i, j \in 1..Len(purging) : purging[i] = purging[j] => i = j
  /\ \A i \in 1..Len(purging) : on[purging[i]] = NoClient
  /\ Elements(purging) \cap Elements(pending) = {}

(* A client whose connection is closed is about to leave its list; once    *)
(* its streams were failed it never serves again; and streams on a closed  *)
(* connection are about to be reset.                                       *)
LostListed == \A c \in listed \ open : DoingTo({"lost", "release"}, c)

LostDone ==
  \A f \in Elements(stack) : f.op = "release" =>
    \A c \in f.cs : state[c] # "Ready" /\ state[c] # "Busy"

LostPart == LostListed /\ LostDone /\ StreamsOfLostConnectionsAreReset

(* While drainConnectionsImpl closes the idle connections no user is called,  *)
(* and the ready connections without streams are those it is closing.      *)
DrainOps == {"drainRest", "closeIdle", "closeAll", "close", "reset", "lost", "purge", "retry",
             "release", "notifyIdle", "closed", "tryCreate"}

DrainFrame(f) ==
  /\ f.op \in DrainOps
  /\ f.op = "tryCreate" => f.s = NoStream
  /\ f.op \in {"closeAll", "close", "reset", "lost"} =>
       \A c \in f.cs : NumActiveStreams(c) = 0 /\ (state[c] = "Connecting" => pending = <<>>)

Tended(c) == DoingTo({"closeAll", "close", "lost"}, c)

IdleTended ==
  \A c \in InState("Ready") : NumActiveStreams(c) = 0 => Doing({"closeIdle"}) \/ Tended(c)

DrainPart ==
  Doing({"drainRest"}) =>
    purging = <<>> /\ (\A f \in Elements(stack) : DrainFrame(f)) /\ IdleTended

(* If no peer lowers the concurrency limit to zero, a busy or connecting   *)
(* client has streams left to its lifetime limit, ...                      *)
LimitPart ==
  0 \notin Settings => \A c \in listed :
    /\ limit[c] > 0 /\ configured[c] > 0
    /\ state[c] = "Busy" => remaining[c] > 0
    /\ state[c] = "Connecting" => remaining[c] > 0 \/ DoingTo({"release"}, c)

(* ... a draining client without streams is being closed, and so is an     *)
(* idle client of a draining pool; ...                                     *)
DrainedClosing ==
  0 \notin Settings => \A c \in InState("Draining") : NumActiveStreams(c) = 0 =>
    DoingTo({"close", "lost", "release"}, c)

IdleClosing ==
  0 \notin Settings /\ draining /\ ~deleted =>
    \A c \in InState("Ready") : NumActiveStreams(c) = 0 =>
      Doing({"checkIdle", "closeIdle"}) \/ Tended(c)

(* ... and a draining pool that has become idle is about to notice.        *)
EmptyPart ==
  draining /\ ~deleted /\ listed = {} /\ pending = <<>> =>
    Doing({"checkIdle", "notifyIdle", "release"})

(* If connections can be made, the pool is about to make one for a queue   *)
(* that has no client.                                                     *)
Connecting(f) == f.op = "closed" \/ (f.op = "tryCreate" /\ f.n # 0)

DemandPart ==
  ~MayShed /\ ~MayFailToCreate =>
    (pending # <<>> /\ listed = {} => \E f \in Elements(stack) : Connecting(f))

(* An HTTP/1 pool with a ready client is about to serve its queue. *)
ReadyPart ==
  ~Multiplexed =>
    (pending # <<>> /\ InState("Ready") # {} => readyCallback \/ Doing({"upstreamReady"}))

(* A pool that does not preconnect makes no connection once it is deleted. *)
DeletedPart ==
  RatioHalves = 2 => (deleted /\ ~Doing({"destroy"}) => listed = {})

Duties ==
  /\ OrderPart /\ PurgePart /\ PlacePart /\ LostPart /\ DrainPart
  /\ LimitPart /\ DrainedClosing /\ IdleClosing /\ EmptyPart
  /\ DemandPart /\ ReadyPart /\ DeletedPart

=============================================================================
