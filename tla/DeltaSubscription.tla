------------------------- MODULE DeltaSubscription -------------------------
(***************************************************************************)
(* The state of one delta xDS subscription, DeltaSubscriptionState, as a   *)
(* record and the functions that take it to its next state.                *)
(*                                                                         *)
(* A resource map is a function on all names: Absent for a name without an *)
(* entry, 0 for an entry that waits for the server, else the version.      *)
(***************************************************************************)
EXTENDS Integers

CONSTANTS
  Names,        \* resource names
  Wildcard,     \* the name "*"
  MaxVersion    \* bound on the versions of resources

AllNames == Names \cup {Wildcard}
Absent == -1
Waiting == 0

ASSUME DeltaSubscriptionAssumption ==
  /\ Wildcard \notin Names
  /\ MaxVersion \in Nat

\* The members of DeltaSubscriptionState; ttl is the set of names ttl_ has a deadline for.
SubscriptionStates ==
  [requested : [AllNames -> Absent..MaxVersion],
   wildcard : [Names -> {Absent} \cup 1..MaxVersion],
   ambiguous : [Names -> {Absent} \cup 1..MaxVersion],
   added : SUBSET AllNames,
   removed : SUBSET AllNames,
   legacy : BOOLEAN,
   sent : BOOLEAN,
   sendVersions : BOOLEAN,
   contextChanged : BOOLEAN,
   ttl : SUBSET Names]

NewSubscription ==
  [requested |-> [n \in AllNames |-> Absent],
   wildcard |-> [n \in Names |-> Absent],
   ambiguous |-> [n \in Names |-> Absent],
   added |-> {}, removed |-> {}, legacy |-> TRUE, sent |-> FALSE, sendVersions |-> TRUE,
   contextChanged |-> FALSE, ttl |-> {}]

Requested(s) == {n \in AllNames : s.requested[n] # Absent}

-----------------------------------------------------------------------------
(* Interest *)

\* Mutant: a name that is added again stays in names_removed_.
UpdateSubscriptionInterestKeepingRemoval(s, add, remove) ==
  [s EXCEPT !.requested = [n \in AllNames |-> IF n \in remove THEN Absent
                                              ELSE IF n \in add THEN Waiting ELSE @[n]],
            !.added = (@ \cup add) \ remove,
            !.removed = @ \cup (remove \cap Requested(s)),
            !.legacy = @ /\ add \subseteq {Wildcard} /\ remove \cap Requested(s) = {}]

\* Mutant: a name the client has a version of is not asked for again.
UpdateSubscriptionInterestSkippingKnown(s, add, remove) ==
  LET had == {n \in Names : s.wildcard[n] # Absent}
  IN [s EXCEPT !.requested = [n \in AllNames |-> IF n \in remove THEN Absent
                                                 ELSE IF n \in add \cap had THEN s.wildcard[n]
                                                 ELSE IF n \in add THEN Waiting ELSE @[n]],
               !.wildcard = [n \in Names |-> IF n \in add THEN Absent ELSE @[n]],
               !.added = (@ \cup (add \ had)) \ remove,
               !.removed = (@ \ add) \cup (remove \cap Requested(s)),
               !.legacy = @ /\ add \subseteq {Wildcard} /\ remove \cap Requested(s) = {}]

\* Mutant: a wildcard resource stays where it is when it is requested by name.
UpdateSubscriptionInterestKeepingWildcard(s, add, remove) ==
  [s EXCEPT !.requested = [n \in AllNames |-> IF n \in remove THEN Absent
                                              ELSE IF n \in add THEN Waiting ELSE @[n]],
            !.added = (@ \cup add) \ remove,
            !.removed = (@ \ add) \cup (remove \cap Requested(s)),
            !.legacy = @ /\ add \subseteq {Wildcard} /\ remove \cap Requested(s) = {}]

\* DeltaSubscriptionState::updateSubscriptionInterest, for disjoint sets of names
UpdateSubscriptionInterest(s, add, remove) ==
  LET known(n) == IF n = Wildcard THEN Waiting
                  ELSE IF s.wildcard[n] # Absent THEN s.wildcard[n]
                  ELSE IF s.ambiguous[n] # Absent THEN s.ambiguous[n] ELSE Waiting
      erased == remove \cap Requested(s)
      hasWildcard == Wildcard \in Requested(s) \cup add
      dropWildcard == Wildcard \in remove
  IN [s EXCEPT
        !.requested = [n \in AllNames |-> IF n \in remove THEN Absent
                                          ELSE IF n \in add THEN known(n) ELSE @[n]],
        !.wildcard = [n \in Names |-> IF dropWildcard \/ n \in add THEN Absent ELSE @[n]],
        !.ambiguous = [n \in Names |->
          IF dropWildcard \/ (n \in add /\ s.wildcard[n] = Absent) THEN Absent
          ELSE IF hasWildcard /\ n \in erased /\ s.requested[n] # Waiting THEN s.requested[n]
          ELSE @[n]],
        !.added = (@ \cup add) \ remove,
        !.removed = (@ \ add) \cup erased,
        !.legacy = @ /\ add \subseteq {Wildcard} /\ erased = {}]

\* DeltaSubscriptionState::subscriptionUpdatePending
SubscriptionUpdatePending(s) ==
  \/ s.added # {} \/ s.removed # {}
  \/ ~s.sent /\ (Requested(s) # {} \/ s.legacy)
  \/ s.sent /\ s.contextChanged

\* Mutant: the new stream is taken for one that has had its first request.
MarkStreamFreshKeepingSent(s, sendVersions) == [s EXCEPT !.sendVersions = sendVersions]

\* DeltaSubscriptionState::markStreamFresh
MarkStreamFresh(s, sendVersions) == [s EXCEPT !.sent = FALSE, !.sendVersions = sendVersions]

-----------------------------------------------------------------------------
(* Requests *)

\* DeltaSubscriptionState::isInitialRequestForLegacyWildcard, without its side effect
IsLegacyWildcard(s) ==
  s.legacy \/ (s.added = {} /\ s.removed = {} /\ Requested(s) = {Wildcard})

\* The versions reported to a new server, 0 for none
InitialResourceVersions(s) ==
  LET entry(n) == IF s.ambiguous[n] # Absent THEN s.ambiguous[n]
                  ELSE IF s.wildcard[n] # Absent THEN s.wildcard[n]
                  ELSE IF s.requested[n] # Absent THEN s.requested[n] ELSE 0
  IN [n \in Names |-> IF s.sendVersions THEN entry(n) ELSE 0]

\* DeltaSubscriptionState::getNextRequestAckless: the request
NextRequest(s) ==
  IF s.sent
  THEN [subscribe |-> s.added, unsubscribe |-> s.removed, versions |-> [n \in Names |-> 0]]
  ELSE [subscribe |-> IF IsLegacyWildcard(s) THEN {} ELSE s.added \cup Requested(s),
        unsubscribe |-> {},
        versions |-> InitialResourceVersions(s)]

\* DeltaSubscriptionState::getNextRequestAckless: the state after it
AfterRequest(s) ==
  [s EXCEPT !.sent = TRUE, !.added = {}, !.removed = {}, !.contextChanged = FALSE,
            !.requested[Wildcard] = IF ~s.sent /\ s.legacy THEN Waiting ELSE @]

-----------------------------------------------------------------------------
(* Responses.  A response has a version for every resource it adds, 0 for a resource it    *)
(* removes, Absent for the others, and the set of its heartbeats: names without a resource, *)
(* at the version of the content.                                                           *)

\* DeltaSubscriptionState::isHeartbeatResponse
IsHeartbeatResponse(s, n, version) ==
  IF s.requested[n] # Absent THEN s.requested[n] = version
  ELSE IF s.wildcard[n] # Absent THEN s.wildcard[n] = version
  ELSE s.ambiguous[n] = version

\* Mutant: the versions of a response are taken whether its names are wanted or not.
AcceptResponseForAll(s, response, withTtl) ==
  [s EXCEPT !.requested = [n \in AllNames |-> IF n \in Names /\ response.content[n] # Absent
                                              THEN response.content[n] ELSE @[n]]]

\* The end of DeltaSubscriptionState::handleGoodResponse, with addResourceStateFromServer.
\* withTtl is the set of names whose resources come with a TTL.
AcceptResponse(s, response, withTtl) ==
  LET content == response.content
      taken == {n \in Names : content[n] > 0 /\ ({n, Wildcard} \cap Requested(s) # {})}
      gone == {n \in Names : content[n] = 0}
      implicit == taken \ Requested(s)
  IN [s EXCEPT
        !.requested = [n \in AllNames |->
          IF n \in taken /\ @[n] # Absent THEN content[n]
          ELSE IF n \in gone /\ @[n] # Absent THEN Waiting ELSE @[n]],
        !.wildcard = [n \in Names |->
          IF n \in implicit THEN content[n]
          ELSE IF n \in gone \ Requested(s) /\ s.ambiguous[n] = Absent THEN Absent ELSE @[n]],
        !.ambiguous = [n \in Names |->
          IF n \in implicit \cup (gone \ Requested(s)) THEN Absent ELSE @[n]],
        !.ttl = (@ \ taken) \cup (taken \cap withTtl)]

\* The callback of ttl_ for a name whose time has come
ExpireResource(s, n) ==
  IF n \in Requested(s)
  THEN [s EXCEPT !.requested[n] = Waiting, !.ttl = @ \ {n}]
  ELSE [s EXCEPT !.wildcard[n] = Absent, !.ambiguous[n] = Absent, !.ttl = @ \ {n}]

=============================================================================
