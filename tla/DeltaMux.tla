------------------------------ MODULE DeltaMux ------------------------------
(***************************************************************************)
(* The delta xDS client: NewGrpcMuxImpl with one subscription              *)
(* (DeltaSubscriptionState and WatchMap), its PausableAckQueue and         *)
(* GrpcStream, and the management server at the other end.                 *)
(*                                                                         *)
(* The client runs on the main thread.  While a response is delivered to   *)
(* the watches their callbacks may call back into the client, to add,      *)
(* change or remove watches and to pause or resume it; everything else     *)
(* waits for the delivery to end.  The stream may break at any other time, *)
(* and the messages under way are lost.                                    *)
(***************************************************************************)
EXTENDS DeltaSubscription, Sequences, FiniteSets

CONSTANTS
  Watches,          \* watches of the subscription
  Interests,        \* the sets of names each watch may be interested in; {} is everything
  WildcardNames,    \* the resources the server includes in the wildcard
  TtlNames,         \* resources the server sends with a TTL
  None,
  RateLimited,      \* rate_limiting_enabled_ of the stream
  MaxChanges,       \* bound on changes of resources on the server
  MaxBreaks,        \* bound on broken streams
  MaxInterests,     \* bound on changes of interest
  MaxContexts,      \* bound on changes of the dynamic context
  MaxHeartbeats,    \* bound on heartbeats of the server
  MaxEvents,        \* bound on all of these together
  MaxPauses,        \* bound on pauses that are nested
  MaxOutstanding    \* responses the server sends before it waits for an ACK

\* DeltaDiscoveryRequest, the ack apart
Requests ==
  [ack : BOOLEAN \cup {None},
   body : [subscribe : SUBSET AllNames, unsubscribe : SUBSET AllNames,
           versions : [Names -> 0..MaxVersion]]]
\* DeltaDiscoveryResponse
Responses == [content : [Names -> Absent..MaxVersion], heartbeats : SUBSET Names]
\* A response with the names each watch is still to get
Deliveries == [response : Responses, todo : [Watches -> SUBSET Names]]

ASSUME DeltaMuxAssumption ==
  /\ IsFiniteSet(Watches) /\ IsFiniteSet(Names)
  /\ Interests \in [Watches -> SUBSET SUBSET AllNames]
  /\ WildcardNames \cup TtlNames \subseteq Names
  /\ RateLimited \in BOOLEAN
  /\ {MaxChanges, MaxBreaks, MaxInterests, MaxContexts, MaxHeartbeats,
      MaxEvents, MaxPauses, MaxOutstanding} \subseteq Nat
  /\ MaxChanges < MaxVersion
  /\ None \notin BOOLEAN \cup Deliveries /\ \A names \in SUBSET AllNames : None # names

VARIABLES
  interest,     \* resource_names_ of every watch in watches_, None for the others
  sub,          \* the DeltaSubscriptionState
  acks,         \* storage_ of pausable_ack_queue_: TRUE for an ACK, FALSE for a NACK
  pauses,       \* pauses_ of the type, whose pauses may be nested
  sendVersions, \* should_send_initial_resource_versions_
  connected,    \* grpc_stream_ has a stream
  limited,      \* a request waits for drain_request_timer_
  delivering,   \* the response being delivered, with what each watch is still to get, or None
  requests,     \* requests on their way to the server
  responses,    \* responses on their way to the client
  server,       \* what the server keeps for the stream
  resources,    \* version of every resource of the server, 0 for one that does not exist
  held,         \* the resources the user of each watch has a copy of
  switched,     \* history: interest in the wildcard changed on this stream
  missed,       \* history: names that were rejected or expired since they were last accepted
  counts        \* history: what the bounds bound

clientVars == <<interest, sub, acks, pauses, sendVersions, connected, limited, delivering>>
serverVars == <<server, resources>>
vars == <<clientVars, requests, responses, serverVars, held, switched, missed, counts>>

\* What the bounds bound, and one more of it.  A change of the dynamic context, which asks for
\* one more request and nothing else, counts twice.
Counted == {"changes", "breaks", "interests", "contexts", "heartbeats"}
Events ==
  counts["changes"] + counts["breaks"] + counts["interests"] + 2 * counts["contexts"]
    + counts["heartbeats"]
Increment(what) ==
  /\ Events + (IF what = "contexts" THEN 2 ELSE 1) <= MaxEvents
  /\ counts' = [counts EXCEPT ![what] = @ + 1]

-----------------------------------------------------------------------------
(* Sending *)

\* NewGrpcMuxImpl::trySendDiscoveryRequests from subscription state s and acks a, onto the
\* requests r.  The first request has the first ack and what is pending, the others an ack
\* each.  The rate limit may stop it before any of them, and starts the drain timer.
TrySendDiscoveryRequests(s, a, r) ==
  LET wanted == IF pauses' > 0 \/ ~connected' THEN 0
                ELSE IF SubscriptionUpdatePending(s) /\ a = <<>> THEN 1 ELSE Len(a)
      ackOf(i) == IF i \in DOMAIN a THEN a[i] ELSE None
      after == AfterRequest(s)
      request(i) == [ack |-> ackOf(i), body |-> NextRequest(IF i = 1 THEN s ELSE after)]
  IN \E n \in IF RateLimited THEN 0..wanted ELSE {wanted} :
       /\ requests' = r \o [i \in 1..n |-> request(i)]
       /\ acks' = SubSeq(a, n + 1, Len(a))
       /\ sub' = IF n = 0 THEN s ELSE after
       /\ limited' = (n < wanted)

\* The drain timer of a rate limited stream, with NewGrpcMuxImpl::onWriteable
OnWriteable ==
  /\ limited /\ delivering = None
  /\ UNCHANGED <<interest, pauses, sendVersions, connected, delivering>>
  /\ TrySendDiscoveryRequests(sub, acks, requests)
  /\ UNCHANGED <<responses, serverVars, held, switched, missed, counts>>

\* NewGrpcMuxImpl::pause
Pause ==
  /\ pauses < MaxPauses
  /\ pauses' = pauses + 1
  /\ UNCHANGED <<interest, sub, acks, sendVersions, connected, limited, delivering, requests,
                 responses, serverVars, held, switched, missed, counts>>

\* Mutant: what was held back by the pause waits for the next reason to send.
ResumeWithoutSending ==
  /\ pauses > 0
  /\ pauses' = pauses - 1
  /\ UNCHANGED <<interest, sub, acks, sendVersions, connected, limited, delivering, requests,
                 responses, serverVars, held, switched, missed, counts>>

\* The ScopedResume of a pause() is destroyed; the last one sends what was held back.
Resume ==
  /\ pauses > 0
  /\ pauses' = pauses - 1
  /\ UNCHANGED <<interest, sendVersions, connected, delivering>>
  /\ IF pauses = 1 THEN TrySendDiscoveryRequests(sub, acks, requests)
                   ELSE UNCHANGED <<sub, acks, limited, requests>>
  /\ UNCHANGED <<responses, serverVars, held, switched, missed, counts>>

\* NewGrpcMuxImpl::onDynamicContextUpdate
OnDynamicContextUpdate ==
  /\ delivering = None
  /\ counts["contexts"] < MaxContexts /\ Increment("contexts")
  /\ UNCHANGED <<interest, pauses, sendVersions, connected, delivering>>
  /\ TrySendDiscoveryRequests([sub EXCEPT !.contextChanged = TRUE], acks, requests)
  /\ UNCHANGED <<responses, serverVars, held, switched, missed>>

-----------------------------------------------------------------------------
(* Watches *)

Named(int, n) == {w \in Watches : int[w] # None /\ n \in int[w]}
IsWildcardWatch(names) == names = {} \/ Wildcard \in names
\* The watch gets what the client knows of the name.
Interested(names, n) == IsWildcardWatch(names) \/ n \in names

\* WatchMap::updateWatchInterest and what NewGrpcMuxImpl::updateWatch does with its result
UpdateInterest(w, names) ==
  LET new == [interest EXCEPT ![w] = names]
      added == {n \in AllNames : Named(interest, n) = {} /\ Named(new, n) # {}}
      removed == {n \in AllNames : Named(interest, n) # {} /\ Named(new, n) = {}}
      s == UpdateSubscriptionInterest(sub, added, removed)
  IN /\ IF SubscriptionUpdatePending(s)
        THEN TrySendDiscoveryRequests(s, acks, requests)
        ELSE sub' = s /\ UNCHANGED <<acks, limited, requests>>
     /\ switched' = (switched \/ Wildcard \in added \cup removed)

\* NewGrpcMuxImpl::addWatch, or updateWatch of a watch that is there
UpdateWatch(w, names) ==
  /\ names \in Interests[w] /\ names # interest[w]
  /\ counts["interests"] < MaxInterests /\ Increment("interests")
  /\ UNCHANGED <<pauses, sendVersions, connected, delivering>>
  /\ interest' = [interest EXCEPT ![w] = names]
  /\ UpdateInterest(w, names)
  /\ held' = [held EXCEPT ![w] = {n \in @ : Interested(names, n)}]
  /\ UNCHANGED <<responses, serverVars, missed>>

\* NewGrpcMuxImpl::removeWatch.  During a delivery WatchMap only marks the watch, which gets
\* nothing any more.
RemoveWatch(w) ==
  /\ interest[w] # None
  /\ UNCHANGED <<pauses, sendVersions, connected>>
  /\ interest' = [interest EXCEPT ![w] = None]
  /\ UpdateInterest(w, None)
  /\ delivering' = IF delivering = None THEN None ELSE [delivering EXCEPT !.todo[w] = {}]
  /\ held' = [held EXCEPT ![w] = {}]
  /\ UNCHANGED <<responses, serverVars, missed, counts>>

-----------------------------------------------------------------------------
(* Responses *)

\* NewGrpcMuxImpl::kickOffAck
KickOffAck(s, ok) == TrySendDiscoveryRequests(s, Append(acks, ok), requests)

\* The names a response is about
Mentioned(r) == {n \in Names : r.content[n] # Absent}

\* DeltaSubscriptionState::handleBadResponse
Reject(r) ==
  /\ KickOffAck(sub, FALSE)
  /\ delivering' = None
  /\ missed' = missed \cup Mentioned(r)
  /\ UNCHANGED switched

\* The response is refused before any watch sees it: a validator fails, or a resource without
\* a body is not a heartbeat for the version the client has.
RefuseResponse ==
  /\ connected /\ delivering = None /\ responses # <<>>
  /\ responses' = Tail(responses)
  /\ UNCHANGED <<interest, pauses, sendVersions, connected>>
  /\ Reject(Head(responses))
  /\ UNCHANGED <<serverVars, held, counts>>

\* The beginning of handleGoodResponse, and WatchMap::onConfigUpdate up to its first callback
BeginResponse ==
  /\ connected /\ delivering = None /\ responses # <<>>
  /\ LET r == Head(responses)
         updated == Mentioned(r) \ r.heartbeats
     IN /\ \A n \in r.heartbeats : IsHeartbeatResponse(sub, n, r.content[n])
        /\ delivering' = [response |-> r,
                          todo |-> [w \in Watches |->
                            IF interest[w] = None THEN {}
                            ELSE {n \in updated : Interested(interest[w], n)}]]
  /\ responses' = Tail(responses)
  /\ UNCHANGED <<interest, sub, acks, pauses, sendVersions, connected, limited, requests, serverVars,
                 held, switched, missed, counts>>

\* A watch takes its part of the update.
DeliverTo(w) ==
  /\ delivering # None
  /\ delivering.todo[w] # {}
  /\ LET names == delivering.todo[w]
         has == {n \in names : delivering.response.content[n] > 0}
     IN held' = [held EXCEPT ![w] = (@ \ names) \cup {n \in has : Interested(interest[w], n)}]
  /\ delivering' = [delivering EXCEPT !.todo[w] = {}]
  /\ UNCHANGED <<interest, sub, acks, pauses, sendVersions, connected, limited, requests, responses,
                 serverVars, switched, missed, counts>>

\* onConfigUpdate of a watch fails, and the exception ends the delivery.  An update of
\* heartbeats only is an empty update for the watches of the wildcard.
FailTo(w) ==
  /\ delivering # None
  /\ \/ delivering.todo[w] # {}
     \/ /\ Mentioned(delivering.response) = delivering.response.heartbeats
        /\ interest[w] # None /\ IsWildcardWatch(interest[w])
  /\ UNCHANGED <<interest, pauses, sendVersions, connected>>
  /\ Reject(delivering.response)
  /\ UNCHANGED <<responses, serverVars, held, counts>>

\* The end of handleGoodResponse, and of onDiscoveryResponse
EndResponse ==
  /\ delivering # None
  /\ \A w \in Watches : delivering.todo[w] = {}
  /\ UNCHANGED <<interest, pauses, sendVersions, connected>>
  /\ LET r == delivering.response IN
       /\ KickOffAck(AcceptResponse(sub, r, TtlNames), TRUE)
       /\ missed' = missed \ (Mentioned(r) \ r.heartbeats)
  /\ delivering' = None
  /\ UNCHANGED switched
  /\ UNCHANGED <<responses, serverVars, held, counts>>

\* The timer of ttl_: the watches learn that a resource the client knows is gone.
TtlExpired(n) ==
  /\ delivering = None
  /\ n \in sub.ttl
  /\ sub' = ExpireResource(sub, n)
  /\ held' = IF {sub.requested[n], sub.wildcard[n], sub.ambiguous[n]} = {Absent} THEN held
             ELSE [w \in Watches |->
               IF interest[w] # None /\ Interested(interest[w], n) THEN held[w] \ {n} ELSE held[w]]
  /\ missed' = missed \cup {n}
  /\ UNCHANGED switched
  /\ UNCHANGED <<interest, acks, pauses, sendVersions, connected, limited, delivering, requests,
                 responses, serverVars, counts>>

-----------------------------------------------------------------------------
(* The stream *)

\* The server as a new stream finds it
NewServer == [started |-> FALSE, subscribed |-> {}, known |-> [n \in Names |-> 0], unacked |-> 0]

\* Mutant: the ACKs of the last stream are sent on the new one.
OnStreamEstablishedKeepingAcks ==
  /\ connected' = TRUE
  /\ UNCHANGED <<interest, pauses, sendVersions, delivering>>
  /\ TrySendDiscoveryRequests(MarkStreamFresh(sub, sendVersions), acks, <<>>)
  /\ responses' = <<>> /\ server' = NewServer
  /\ switched' = FALSE
  /\ UNCHANGED <<resources, held, missed>>

\* NewGrpcMuxImpl::onStreamEstablished
OnStreamEstablished ==
  /\ connected' = TRUE
  /\ UNCHANGED <<interest, pauses, sendVersions, delivering>>
  /\ TrySendDiscoveryRequests(MarkStreamFresh(sub, sendVersions), <<>>, <<>>)
  /\ responses' = <<>> /\ server' = NewServer
  /\ switched' = FALSE
  /\ UNCHANGED <<resources, held, missed>>

\* GrpcStream::establishNewStream, from start() or the retry timer
EstablishNewStream ==
  /\ ~connected /\ delivering = None
  /\ OnStreamEstablished
  /\ UNCHANGED counts

\* The end of NewGrpcMuxImpl::onEstablishmentFailure.  The next stream goes to the same
\* server, or to the other one of GrpcMuxFailover.
OnEstablishmentFailure(same) == sendVersions' = same

\* GrpcStream::establishNewStream without a stream
EstablishNewStreamFails(same) ==
  /\ ~connected /\ delivering = None
  /\ OnEstablishmentFailure(same)
  /\ UNCHANGED <<interest, sub, acks, pauses, connected, limited, delivering, requests, responses,
                 serverVars, held, switched, missed, counts>>

\* GrpcStream::onRemoteClose
OnRemoteClose(same) ==
  /\ connected /\ delivering = None
  /\ counts["breaks"] < MaxBreaks /\ Increment("breaks")
  /\ connected' = FALSE
  /\ OnEstablishmentFailure(same)
  /\ requests' = <<>> /\ responses' = <<>>
  /\ UNCHANGED <<interest, sub, acks, pauses, limited, delivering, serverVars, held, switched,
                 missed>>

\* NewGrpcMuxImpl::updateMuxSource: the stream is closed and one to the new source opened.
UpdateMuxSource ==
  /\ delivering = None
  /\ counts["breaks"] < MaxBreaks /\ Increment("breaks")
  /\ OnStreamEstablished

-----------------------------------------------------------------------------
(* The management server, from the protocol the client is written for *)

Unknown == -1

Tracked(subscribed, n) == subscribed \cap {n, Wildcard} # {}
\* What a client with these subscriptions is to have of a resource
Offered(n) ==
  IF n \in server.subscribed \/ (Wildcard \in server.subscribed /\ n \in WildcardNames)
  THEN resources[n] ELSE 0
ToSend == {n \in Names : Tracked(server.subscribed, n) /\ server.known[n] # Offered(n)}

\* A first request without names is a subscription to the wildcard.  What is
\* subscribed to is sent again, unless the first request of the stream says that the client
\* has it.
ServerReceives ==
  /\ connected /\ requests # <<>>
  /\ LET r == Head(requests).body
         first == ~server.started
         subscribed == IF first /\ r.subscribe = {} THEN {Wildcard}
                       ELSE (server.subscribed \cup r.subscribe) \ r.unsubscribe
         known(n) == IF first /\ r.versions[n] > 0 THEN r.versions[n]
                     ELSE IF n \in r.subscribe THEN Unknown
                     ELSE IF ~Tracked(subscribed, n) THEN 0
                     ELSE IF n \in r.unsubscribe THEN Unknown
                     ELSE IF Wildcard \in r.subscribe /\ server.known[n] # 0 THEN Unknown
                     ELSE server.known[n]
     IN server' = [started |-> TRUE, subscribed |-> subscribed,
                   known |-> [n \in Names |-> known(n)],
                   unacked |-> server.unacked - (IF Head(requests).ack = None THEN 0 ELSE 1)]
  /\ requests' = Tail(requests)
  /\ UNCHANGED <<clientVars, responses, resources, held, switched, missed, counts>>

\* A response with some of what the client is to have, and perhaps a heartbeat
ServerResponds(names, heartbeats) ==
  /\ connected /\ server.started
  /\ server.unacked < MaxOutstanding
  /\ names \subseteq ToSend
  /\ IF heartbeats = {} THEN UNCHANGED counts
     ELSE counts["heartbeats"] < MaxHeartbeats /\ Increment("heartbeats")
  /\ \A n \in heartbeats : n \in TtlNames \ ToSend /\ Tracked(server.subscribed, n) /\ Offered(n) > 0
  /\ names \cup heartbeats # {}
  /\ server' = [server EXCEPT !.unacked = @ + 1,
                              !.known = [n \in Names |-> IF n \in names THEN Offered(n) ELSE @[n]]]
  /\ responses' = Append(responses,
       [content |-> [n \in Names |-> IF n \in names \cup heartbeats THEN Offered(n) ELSE Absent],
        heartbeats |-> heartbeats])
  /\ UNCHANGED <<clientVars, requests, resources, held, switched, missed>>

\* A resource gets a new version or is removed.
ServerChanges(n, exists) ==
  /\ counts["changes"] < MaxChanges /\ Increment("changes")
  /\ exists \/ resources[n] # 0
  /\ resources' = [resources EXCEPT ![n] = IF exists THEN counts["changes"] + 2 ELSE 0]
  /\ UNCHANGED <<clientVars, requests, responses, server, held, switched, missed>>

-----------------------------------------------------------------------------
\* The first addWatch makes the subscription.
Init ==
  /\ \E first \in Watches : \E names \in Interests[first] :
       /\ interest = [w \in Watches |-> IF w = first THEN names ELSE None]
       /\ sub = UpdateSubscriptionInterest(NewSubscription, names, {})
  /\ acks = <<>> /\ pauses = 0 /\ sendVersions = TRUE
  /\ connected = FALSE /\ limited = FALSE /\ delivering = None
  /\ requests = <<>> /\ responses = <<>>
  /\ server = NewServer
  /\ resources \in [Names -> 0..1]
  /\ held = [w \in Watches |-> {}]
  /\ switched = FALSE /\ missed = {}
  /\ counts = [what \in Counted |-> 0]

Next ==
  \/ OnWriteable \/ Pause \/ Resume \/ OnDynamicContextUpdate
  \/ \E w \in Watches : \/ \E names \in Interests[w] : UpdateWatch(w, names)
                        \/ RemoveWatch(w) \/ DeliverTo(w) \/ FailTo(w)
  \/ RefuseResponse \/ BeginResponse \/ EndResponse
  \/ \E n \in Names : TtlExpired(n)
  \/ EstablishNewStream \/ UpdateMuxSource
  \/ \E same \in BOOLEAN : EstablishNewStreamFails(same) \/ OnRemoteClose(same)
  \/ ServerReceives
  \/ \E names, heartbeats \in SUBSET Names : ServerResponds(names, heartbeats)
  \/ \E n \in Names, exists \in BOOLEAN : ServerChanges(n, exists)

Spec == Init /\ [][Next]_vars

\* The main thread takes what the stream has for it and its callbacks return, the retry timer
\* fires, and the server answers.  Every ScopedResume is destroyed, and pauses do not overlap
\* for ever: nested ones are scopes of one turn of the main thread, and the cluster manager
\* pauses CDS once at a time.  The token bucket of a rate limited stream fills up again: of the
\* drain timer's attempts without end, some find a token.
FairSpec ==
  /\ Spec
  /\ WF_vars(\/ EstablishNewStream \/ BeginResponse \/ RefuseResponse \/ EndResponse
             \/ \E w \in Watches : DeliverTo(w) \/ FailTo(w))
  /\ WF_vars(Resume) /\ SF_vars(Resume /\ pauses' = 0)
  /\ WF_vars(ServerReceives \/ \E names \in SUBSET Names : ServerResponds(names, {}))
  /\ SF_vars(OnWriteable /\ requests' # requests)

-----------------------------------------------------------------------------
(* Properties *)

\* Every variable has its type.
TypeOK ==
  /\ interest \in [Watches -> (SUBSET AllNames) \cup {None}]
  /\ sub \in SubscriptionStates
  /\ acks \in Seq(BOOLEAN) /\ pauses \in 0..MaxPauses
  /\ {sendVersions, connected, limited, switched} \subseteq BOOLEAN
  /\ responses \in Seq(Responses)
  /\ server.known \in [Names -> Unknown..MaxVersion] /\ server.unacked \in 0..MaxOutstanding
  /\ held \in [Watches -> SUBSET Names] /\ missed \subseteq Names

\* A resource is requested, or a wildcard resource, or ambiguous, never two of them, as the
\* ASSERTs after every move say.
CategoriesAreDisjoint ==
  \A n \in Names :
    /\ sub.requested[n] # Absent => sub.wildcard[n] = Absent /\ sub.ambiguous[n] = Absent
    /\ sub.wildcard[n] # Absent => sub.ambiguous[n] = Absent

\* "The keys of this map are exactly the resource names we are currently interested in":
\* the names the watches have between them, and perhaps the wildcard.
RequestedIsInterest ==
  LET wanted == {n \in AllNames : Named(interest, n) # {}}
  IN wanted \subseteq Requested(sub) /\ Requested(sub) \subseteq wanted \cup {Wildcard}

\* The subscriptions server srv has when it has read the requests reqs: the names it has or
\* gets in some request and that request and the later ones do not unsubscribe.
SubscribedAfter(srv, reqs) ==
  LET got(i) == IF i = 0 THEN srv.subscribed
                ELSE IF i = 1 /\ ~srv.started /\ reqs[1].body.subscribe = {} THEN {Wildcard}
                ELSE reqs[i].body.subscribe
  IN {n \in AllNames : \E i \in 0..Len(reqs) :
        n \in got(i) /\ \A j \in DOMAIN reqs : j >= i => n \notin reqs[j].body.unsubscribe}

\* What the server knows, with the requests under way and what is still to be sent, is what
\* the client is interested in, whatever was added, removed and added again in between.  The
\* server may think of the wildcard on top.
ServerLearnsInterest ==
  connected /\ sub.sent =>
    LET learned == (SubscribedAfter(server, requests) \cup sub.added) \ sub.removed
    IN Requested(sub) \subseteq learned /\ learned \subseteq Requested(sub) \cup {Wildcard}

\* Every response of the stream is answered once: it is under way, being delivered, waits
\* for its ACK to be sent, or its ACK is under way.
EveryResponseIsAcked ==
  connected =>
    server.unacked = Len(responses) + (IF delivering = None THEN 0 ELSE 1) + Len(acks)
                     + Cardinality({i \in DOMAIN requests : requests[i].ack # None})

Quiet ==
  /\ connected /\ delivering = None
  /\ requests = <<>> /\ responses = <<>> /\ acks = <<>>
  /\ ~SubscriptionUpdatePending(sub)
  /\ ToSend = {}

\* When all is said, the version the client has for a resource is the one of the server,
\* also after streams that broke half way.  A wildcard resource the server no longer has is
\* forgotten if the stream began with the versions of the client, and with the wildcard: a
\* response to an earlier subscription may be taken for one to the wildcard.
QuietClientIsUpToDate ==
  Quiet => \A n \in Names \ missed :
    /\ n \in Requested(sub) => sub.requested[n] = Offered(n)
    /\ n \notin Requested(sub) /\ Wildcard \in Requested(sub) /\ sub.sendVersions /\ ~switched =>
         InitialResourceVersions(sub)[n] = Offered(n)

\* "Our user may have forgotten its copy of the resource after instructing us to remove it,
\* and need to be reminded of it": on the first stream the user of a watch gets every
\* resource of the names it alone asks for, even one the client had already.  (A name added
\* while the stream is down is reported to the server with its version, and not sent again.)
NamedResourceIsHeld ==
  Quiet /\ counts["breaks"] = 0 => \A n \in Names \ missed, w \in Watches :
    Named(interest, n) = {w} /\ sub.requested[n] > 0 => n \in held[w]

\* "The invariant of the code here is that this code is executed only when
\* subscriptionUpdatePending actually returns true, which in our case can only happen if the
\* requested resources state_ isn't empty": a client that wants nothing makes no request on
\* a new stream, where it would be one for everything.
FirstRequestHasInterest ==
  [][~server'.started /\ requests = <<>> /\ requests' # <<>> => Requested(sub') # {}]_vars

\* When interests, resources and streams stop changing, client and server come to rest.
ComesToRest == <>[]Quiet

=============================================================================
