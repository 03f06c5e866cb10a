--------------------------- MODULE ConnPoolProofs ---------------------------
(***************************************************************************)
(* The theorems about the connection pool.  The books (ConnPoolCalls) and  *)
(* the duties (ConnPoolDuties) are inductive together: a step keeps the    *)
(* books if the calls in progress are nested as they should be, and keeps  *)
(* the duties if the books count the streams of every client.  Each        *)
(* property then follows from the invariants of a single state.            *)
(***************************************************************************)
EXTENDS ConnPoolCalls, ConnPoolDuties

(* Leaves are given to the Zenon prover, for at most 30 s, unless they name another. *)
USE ZenonT(30)

-----------------------------------------------------------------------------
(* The invariants *)

(* The inductive invariant holds in every reachable state. *)
THEOREM Invariance == Spec => [](IInv /\ Duties)
<1>1. Init => IInv /\ Duties
  BY InitInvariant, InitDuties
<1>2. IInv /\ Duties /\ [Next]_vars => IInv'
  <2>1. Duties => OrderPart
    BY DEF Duties
  <2> QED BY <2>1, StepInvariant
<1>3. IInv => Counted
  BY Counting
<1>4. ASSUME IInv, Counted, Counted', Duties, [Next]_vars PROVE Duties'
  <2>1. \A s \in Streams, c \in Clients : on[s] = c /\ on' = [on EXCEPT ![s] = NoClient]
           => NumActiveStreams(c)' = NumActiveStreams(c) - 1
    BY <1>4, DetachCounts
  <2> QED BY <1>4, <2>1, NextDuties
<1> QED BY <1>1, <1>2, <1>3, <1>4, PTL DEF Spec

-----------------------------------------------------------------------------
(* The books *)

(* The members of the pool keep their types; in particular neither         *)
(* capacity counter, the debt nor num_active_streams_ is ever decremented  *)
(* below zero, whatever the interleaving of callbacks.                     *)
THEOREM TypeCorrect == Spec => []TypeOK
<1>1. IInv /\ Duties => TypeOK
  BY TypesHold
<1> QED BY <1>1, Invariance, PTL

(* What assertCapacityCountsAreCorrect asserts holds in every state: the   *)
(* two capacity counters are the sums over the client lists, and a client  *)
(* has capacity exactly when its list says so.                             *)
THEOREM CapacityCorrect == Spec => []CapacityCountsAreCorrect
<1>1. IInv /\ Duties => CapacityCountsAreCorrect
  BY CapacityHolds
<1> QED BY <1>1, Invariance, PTL

(* capacity_debt_ is exact: onStreamClosed pays back only streams above    *)
(* the limit of the last SETTINGS frame.                                   *)
THEOREM DebtCorrect == Spec => []DebtIsExact
<1>1. IInv => DebtIsExact
  BY DEF IInv, ClientPart, Books, ClientOK, DebtIsExact
<1> QED BY <1>1, Invariance, PTL

(* num_active_streams_ is the number of attached streams, through resets,  *)
(* purges and deferred deletions.                                          *)
THEOREM CountCorrect == Spec => []ActiveStreamsAreCounted
<1>1. IInv => ActiveStreamsAreCounted
  BY DEF IInv, ClientPart
<1> QED BY <1>1, Invariance, PTL

-----------------------------------------------------------------------------
(* Streams and calls in progress *)

(* A stream waits in one queue at most, once, and is then attached to no   *)
(* client: newStream, cancel, purge and onUpstreamReady move it, none of   *)
(* them copies it.                                                         *)
THEOREM OnePlace == Spec => []StreamIsInOnePlace
<1>1. Duties => PlacePart
  BY DEF Duties
<1>2. IInv /\ Duties => StreamIsInOnePlace
  BY <1>1, PlaceHolds
<1> QED BY <1>2, Invariance, PTL

(* A stream on a closed HTTP/2 connection, even one attached while its     *)
(* connection was being closed, is reset before the close returns.         *)
THEOREM LostStreamsAreReset == Spec => []StreamsOfLostConnectionsAreReset
<1>1. Duties => StreamsOfLostConnectionsAreReset
  BY DEF Duties, LostPart
<1> QED BY <1>1, Invariance, PTL

(* The destructor's loop ends with nothing queued and no capacity left. *)
THEOREM DestructionIsComplete == Spec => []DestructorLeavesNothing
<1>1. IInv => Counted
  BY Counting
<1>2. Duties => OrderPart /\ PurgePart
  BY DEF Duties
<1>3. IInv /\ Duties => DestructorLeavesNothing
  BY <1>1, <1>2, DestructionHolds
<1> QED BY <1>3, Invariance, PTL

(* The ready clients that drainConnectionsImpl leaves once it has closed   *)
(* the idle ones serve streams.                                            *)
THEOREM DrainedAreActive == Spec => []DrainedClientsAreNotIdle
<1>1. IInv => Counted
  BY Counting
<1>2. Duties => OrderPart /\ DrainPart
  BY DEF Duties
<1>3. IInv /\ Duties => DrainedClientsAreNotIdle
  BY <1>1, <1>2, DrainedHolds
<1> QED BY <1>3, Invariance, PTL

(* The ENVOY_BUG at the end of newStreamImpl: when a stream was queued and *)
(* the queue exceeds the connecting capacity, neither formula of           *)
(* shouldCreateNewConnection refuses a connection.  No client is ready     *)
(* then, so all the capacity of the pool is connecting capacity.           *)
THEOREM QueuedGetsConnection == Spec => []QueuedStreamGetsConnection
<1>1. IInv => Counted
  BY Counting
<1>2. Duties => OrderPart
  BY DEF Duties
<1>3. IInv /\ Duties => QueuedStreamGetsConnection
  BY <1>1, <1>2, DemandHolds
<1> QED BY <1>3, Invariance, PTL

-----------------------------------------------------------------------------
(* The pool at rest *)

(* If no peer lowers its concurrency limit to zero, a draining client has  *)
(* a stream left, whose end will close it.                                 *)
THEOREM DrainingHasStreams ==
  ASSUME 0 \notin Settings
  PROVE  Spec => []DrainingClientHasStreams
<1>1. IInv => Counted
  BY Counting
<1>2. Duties => DrainedClosing
  BY DEF Duties
<1>3. IInv /\ Duties => DrainingClientHasStreams
  BY <1>1, <1>2, DrainingHolds
<1> QED BY <1>3, Invariance, PTL

(* Under the same condition, a pool that drains for deletion and has not   *)
(* gone idle is waiting for something that will end: a connection attempt, *)
(* a queued stream or an active one.                                       *)
THEOREM DrainingHasWork ==
  ASSUME 0 \notin Settings
  PROVE  Spec => []DrainingPoolHasWork
<1>1. IInv => Counted
  BY Counting
<1>2. Duties => LimitPart /\ DrainedClosing /\ IdleClosing /\ EmptyPart
  BY DEF Duties
<1>3. IInv /\ Duties => DrainingPoolHasWork
  BY <1>1, <1>2, WorkHolds
<1> QED BY <1>3, Invariance, PTL

(* If overload shedding and failing clients do not keep the pool from      *)
(* connecting, a stream is queued beside a client that may come to serve   *)
(* it.                                                                     *)
THEOREM QueuedHasClient ==
  ASSUME ~MayShed, ~MayFailToCreate
  PROVE  Spec => []QueuedStreamHasClient
<1>1. DemandPart => QueuedStreamHasClient
  BY NoCalls DEF DemandPart, QueuedStreamHasClient
<1>2. Duties => DemandPart
  BY DEF Duties
<1> QED BY <1>1, <1>2, Invariance, PTL

(* In an HTTP/1 pool at rest, streams wait beside a ready client only if   *)
(* the callback that will attach them is scheduled.                        *)
THEOREM ReadyServesQueue ==
  ASSUME ~Multiplexed
  PROVE  Spec => []ReadyClientServesQueue
<1>1. ReadyPart => ReadyClientServesQueue
  BY NoCalls DEF ReadyPart, ReadyClientServesQueue
<1>2. Duties => ReadyPart
  BY DEF Duties
<1> QED BY <1>1, <1>2, Invariance, PTL

(* A pool that does not preconnect stays idle once it is queued for        *)
(* deletion, until its destructor runs: it has no stream, no client and no *)
(* capacity.                                                               *)
THEOREM DeletedStaysIdle ==
  ASSUME RatioHalves = 2
  PROVE  Spec => []DeletedPoolStaysIdle
<1>1. IInv => Counted
  BY Counting
<1>2. Duties => PurgePart /\ DeletedPart
  BY DEF Duties
<1>3. IInv /\ Duties => DeletedPoolStaysIdle
  BY <1>1, <1>2, DeletedHolds
<1> QED BY <1>3, Invariance, PTL

=============================================================================
