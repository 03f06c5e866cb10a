--------------------------- MODULE DeltaMuxProofs ---------------------------
(***************************************************************************)
(* The delta xDS client and its server, for every set of names, watches    *)
(* and interests: the state of the subscription is consistent, it is what  *)
(* the watches want, the server learns it, and every response is answered  *)
(* once.                                                                   *)
(***************************************************************************)
EXTENDS DeltaMux, FiniteSetTheorems, TLAPS

(* Leaves are given to the Zenon prover, for at most 30 s, unless they name another. *)
USE ZenonT(30)

-----------------------------------------------------------------------------
(* The inductive invariant *)

Disjoint(s) ==
  \A n \in Names :
    /\ s.requested[n] # Absent => s.wildcard[n] = Absent /\ s.ambiguous[n] = Absent
    /\ s.wildcard[n] # Absent => s.ambiguous[n] = Absent

(* A subscription that still counts as a legacy wildcard one asked for no  *)
(* name, and what is to be subscribed to is requested.                     *)
SubOK(s) ==
  /\ s \in SubscriptionStates
  /\ Disjoint(s)
  /\ s.added \subseteq Requested(s)
  /\ s.legacy => Requested(s) \subseteq {Wildcard}

(* What the server is told is what the client wants, from the first        *)
(* request of the stream on.                                               *)
Learns(s, reqs, srv) ==
  LET learned == (SubscribedAfter(srv, reqs) \cup s.added) \ s.removed
  IN Requested(s) \subseteq learned /\ learned \subseteq Requested(s) \cup {Wildcard}

StreamOK(s, reqs, srv) ==
  /\ IF s.sent THEN (srv.started \/ reqs # <<>>) /\ Learns(s, reqs, srv)
     ELSE ~srv.started /\ reqs = <<>>
  /\ ~srv.started => srv.subscribed = {} /\ (reqs # <<>> => reqs[1].body.unsubscribe = {})

Servers ==
  [started : BOOLEAN, subscribed : SUBSET AllNames, known : [Names -> Unknown..MaxVersion],
   unacked : Int]

SentTyped == acks \in Seq(BOOLEAN) /\ requests \in Seq(Requests) /\ limited \in BOOLEAN

RestTyped ==
  /\ interest \in [Watches -> (SUBSET AllNames) \cup {None}]
  /\ pauses \in 0..MaxPauses
  /\ sendVersions \in BOOLEAN /\ connected \in BOOLEAN /\ switched \in BOOLEAN
  /\ delivering \in Deliveries \cup {None}
  /\ responses \in Seq(Responses)
  /\ server \in Servers
  /\ resources \in [Names -> 0..MaxVersion]
  /\ held \in [Watches -> SUBSET Names] /\ missed \subseteq Names
  /\ counts \in [Counted -> Nat]

(* The names the watches want are requested, and perhaps the wildcard. *)
Fits(s, int) ==
  LET wanted == {n \in AllNames : Named(int, n) # {}}
  IN wanted \subseteq Requested(s) /\ Requested(s) \subseteq wanted \cup {Wildcard}

InterestInv ==
  /\ SentTyped /\ RestTyped
  /\ SubOK(sub)
  /\ Fits(sub, interest)
  /\ connected => StreamOK(sub, requests, server)

-----------------------------------------------------------------------------
(* The operations on the subscription *)

(* DeltaSubscriptionState::updateSubscriptionInterest keeps the state      *)
(* consistent, and adds and removes the names it is told to.               *)
LEMMA InterestUpdated ==
  ASSUME NEW s, SubOK(s), NEW add \in SUBSET AllNames, NEW remove \in SUBSET AllNames,
         add \cap remove = {}
  PROVE  LET t == UpdateSubscriptionInterest(s, add, remove)
         IN /\ SubOK(t)
            /\ Requested(t) = (Requested(s) \cup add) \ remove
            /\ t.sent = s.sent
            /\ t.added = (s.added \cup add) \ remove
            /\ t.removed = (s.removed \ add) \cup (remove \cap Requested(s))
<1> DEFINE t == UpdateSubscriptionInterest(s, add, remove)
<1> USE DeltaSubscriptionAssumption DEF AllNames, Absent, Waiting
<1>1. s \in SubscriptionStates /\ Disjoint(s)
  BY DEF SubOK
<1>2. t \in SubscriptionStates
  <2>1. t.requested \in [AllNames -> Absent..MaxVersion]
    BY SMTT(30), <1>1 DEF UpdateSubscriptionInterest, SubscriptionStates
  <2>2. t.wildcard \in [Names -> {Absent} \cup 1..MaxVersion]
    BY <1>1 DEF UpdateSubscriptionInterest, SubscriptionStates
  <2>3. t.ambiguous \in [Names -> {Absent} \cup 1..MaxVersion]
    BY SMTT(30), <1>1 DEF UpdateSubscriptionInterest, SubscriptionStates, Requested
  <2>4. t.added \in SUBSET AllNames /\ t.removed \in SUBSET AllNames /\ t.legacy \in BOOLEAN
    BY <1>1 DEF UpdateSubscriptionInterest, SubscriptionStates, Requested
  <2>5. t = [s EXCEPT !.requested = t.requested, !.wildcard = t.wildcard,
                      !.ambiguous = t.ambiguous, !.added = t.added, !.removed = t.removed,
                      !.legacy = t.legacy]
    BY <1>1 DEF UpdateSubscriptionInterest, SubscriptionStates
  <2> HIDE DEF t, AllNames, Absent
  <2> QED BY <1>1, <2>1, <2>2, <2>3, <2>4, <2>5 DEF SubscriptionStates
<1> DEFINE known(n) == IF n = Wildcard THEN Waiting
                       ELSE IF s.wildcard[n] # Absent THEN s.wildcard[n]
                       ELSE IF s.ambiguous[n] # Absent THEN s.ambiguous[n] ELSE Waiting
<1>a. \A n \in AllNames : t.requested[n] = IF n \in remove THEN Absent
                                           ELSE IF n \in add THEN known(n) ELSE s.requested[n]
  BY <1>1 DEF UpdateSubscriptionInterest, SubscriptionStates
<1>b. \A n \in Names :
        /\ t.wildcard[n] # Absent => n \notin add /\ s.wildcard[n] # Absent
        /\ t.ambiguous[n] # Absent =>
              \/ s.ambiguous[n] # Absent /\ (n \in add => s.wildcard[n] # Absent)
              \/ n \in remove /\ s.requested[n] # Absent
  BY <1>1 DEF UpdateSubscriptionInterest, SubscriptionStates, Requested
<1>c. \A n \in AllNames : known(n) # Absent
  BY SMTT(30), <1>1 DEF SubscriptionStates
<1>3. Requested(t) = (Requested(s) \cup add) \ remove
  <2> HIDE DEF t, known, AllNames
  <2> QED BY <1>a, <1>c DEF Requested
<1>4. Disjoint(t)
  <2> HIDE DEF t, known, Absent, Waiting
  <2> QED BY <1>1, <1>a, <1>b, <1>c DEF Disjoint, AllNames
<1>5. /\ t.sent = s.sent
      /\ t.added = (s.added \cup add) \ remove
      /\ t.removed = (s.removed \ add) \cup (remove \cap Requested(s))
      /\ t.legacy = (s.legacy /\ add \subseteq {Wildcard} /\ remove \cap Requested(s) = {})
  BY <1>1 DEF UpdateSubscriptionInterest, SubscriptionStates
<1>6. SubOK(t)
  <2> HIDE DEF t, AllNames, Absent
  <2>1. s.added \subseteq Requested(s) /\ (s.legacy => Requested(s) \subseteq {Wildcard})
    BY DEF SubOK
  <2>2. t.legacy => s.legacy /\ add \subseteq {Wildcard}
    BY <1>5
  <2>3. t.added \subseteq Requested(t) /\ (t.legacy => Requested(t) \subseteq {Wildcard})
    BY <1>3, <1>5, <2>1, <2>2
  <2> QED BY <1>2, <1>4, <2>3 DEF SubOK
<1> QED BY <1>3, <1>5, <1>6

(* The state after DeltaSubscriptionState::getNextRequestAckless: a legacy *)
(* wildcard request puts the wildcard among the requested names.           *)
LEMMA RequestTaken ==
  ASSUME NEW s, SubOK(s)
  PROVE  LET t == AfterRequest(s)
         IN /\ SubOK(t)
            /\ Requested(t) = Requested(s) \cup (IF ~s.sent /\ s.legacy THEN {Wildcard} ELSE {})
            /\ t.sent /\ t.added = {} /\ t.removed = {}
<1> DEFINE t == AfterRequest(s)
<1> USE DeltaSubscriptionAssumption DEF AllNames, Absent, Waiting
<1>1. s \in SubscriptionStates /\ Disjoint(s)
  BY DEF SubOK
<1>2. t \in SubscriptionStates
  <2>1. t.requested \in [AllNames -> Absent..MaxVersion]
    BY SMTT(30), <1>1 DEF AfterRequest, SubscriptionStates
  <2>2. t = [s EXCEPT !.requested = t.requested, !.sent = TRUE, !.added = {}, !.removed = {},
                      !.contextChanged = FALSE]
    BY <1>1 DEF AfterRequest, SubscriptionStates
  <2> HIDE DEF t, AllNames, Absent
  <2> QED BY <1>1, <2>1, <2>2 DEF SubscriptionStates
<1>3. Requested(t) = Requested(s) \cup (IF ~s.sent /\ s.legacy THEN {Wildcard} ELSE {})
  BY SMTT(30), <1>1 DEF AfterRequest, SubscriptionStates, Requested
<1>4. Disjoint(t)
  <2>1. /\ \A n \in Names : t.requested[n] = s.requested[n]
        /\ t.wildcard = s.wildcard /\ t.ambiguous = s.ambiguous
    BY <1>1 DEF AfterRequest, SubscriptionStates
  <2> QED BY <1>1, <2>1 DEF Disjoint
<1>5. t.sent /\ t.added = {} /\ t.removed = {} /\ t.legacy = s.legacy
  BY <1>1 DEF AfterRequest, SubscriptionStates
<1>6. SubOK(t)
  <2> HIDE DEF t
  <2> QED BY <1>2, <1>3, <1>4, <1>5 DEF SubOK
<1> QED BY <1>3, <1>5, <1>6

(* handleGoodResponse changes what is known of names, not which are        *)
(* requested.                                                              *)
LEMMA ResponseAccepted ==
  ASSUME NEW s, SubOK(s), NEW r \in Responses, NEW withTtl \in SUBSET Names
  PROVE  LET t == AcceptResponse(s, r, withTtl)
         IN /\ SubOK(t)
            /\ Requested(t) = Requested(s)
            /\ t.sent = s.sent /\ t.added = s.added /\ t.removed = s.removed
<1> DEFINE t == AcceptResponse(s, r, withTtl)
<1> USE DeltaSubscriptionAssumption DEF AllNames, Absent, Waiting
<1>1. s \in SubscriptionStates /\ Disjoint(s) /\ r.content \in [Names -> Absent..MaxVersion]
  BY DEF SubOK, Responses
<1>2. t \in SubscriptionStates
  <2>1. t.requested \in [AllNames -> Absent..MaxVersion]
    BY <1>1 DEF AcceptResponse, SubscriptionStates
  <2>2. t.wildcard \in [Names -> {Absent} \cup 1..MaxVersion]
    BY SMTT(30), <1>1 DEF AcceptResponse, SubscriptionStates
  <2>3. t.ambiguous \in [Names -> {Absent} \cup 1..MaxVersion]
    BY <1>1 DEF AcceptResponse, SubscriptionStates
  <2>4. t.ttl \in SUBSET Names
    BY <1>1 DEF AcceptResponse, SubscriptionStates
  <2>5. t = [s EXCEPT !.requested = t.requested, !.wildcard = t.wildcard,
                      !.ambiguous = t.ambiguous, !.ttl = t.ttl]
    BY <1>1 DEF AcceptResponse, SubscriptionStates
  <2> HIDE DEF t, AllNames, Absent
  <2> QED BY <1>1, <2>1, <2>2, <2>3, <2>4, <2>5 DEF SubscriptionStates
<1>a. \A n \in AllNames : t.requested[n] = Absent <=> s.requested[n] = Absent
  BY SMTT(30), <1>1 DEF AcceptResponse, SubscriptionStates
<1>b. \A n \in Names :
        /\ t.wildcard[n] # Absent =>
             \/ s.requested[n] = Absent /\ t.ambiguous[n] = Absent
             \/ s.wildcard[n] # Absent
        /\ t.ambiguous[n] # Absent => s.ambiguous[n] # Absent
  BY <1>1 DEF AcceptResponse, SubscriptionStates, Requested
<1>3. Requested(t) = Requested(s)
  <2> HIDE DEF t
  <2> QED BY <1>a DEF Requested
<1>4. Disjoint(t)
  <2> HIDE DEF t
  <2> QED BY <1>1, <1>a, <1>b DEF Disjoint, AllNames
<1>5. t.sent = s.sent /\ t.added = s.added /\ t.removed = s.removed /\ t.legacy = s.legacy
  BY <1>1 DEF AcceptResponse, SubscriptionStates
<1>6. SubOK(t)
  <2> HIDE DEF t
  <2> QED BY <1>2, <1>3, <1>4, <1>5 DEF SubOK
<1> QED BY <1>3, <1>5, <1>6

(* A TTL that runs out changes what is known of one name.                  *)
LEMMA ResourceExpired ==
  ASSUME NEW s, SubOK(s), NEW n \in Names
  PROVE  LET t == ExpireResource(s, n)
         IN /\ SubOK(t)
            /\ Requested(t) = Requested(s)
            /\ t.sent = s.sent /\ t.added = s.added /\ t.removed = s.removed
<1> DEFINE t == ExpireResource(s, n)
<1> USE DeltaSubscriptionAssumption DEF AllNames, Absent, Waiting
<1>1. s \in SubscriptionStates /\ Disjoint(s)
  BY DEF SubOK
<1>2. t \in SubscriptionStates
  <2>1. t.requested \in [AllNames -> Absent..MaxVersion]
    BY SMTT(30), <1>1 DEF ExpireResource, SubscriptionStates
  <2>2. /\ t.wildcard \in [Names -> {Absent} \cup 1..MaxVersion]
        /\ t.ambiguous \in [Names -> {Absent} \cup 1..MaxVersion]
    BY <1>1 DEF ExpireResource, SubscriptionStates
  <2>3. t.ttl \in SUBSET Names
    BY <1>1 DEF ExpireResource, SubscriptionStates
  <2>4. t = [s EXCEPT !.requested = t.requested, !.wildcard = t.wildcard,
                      !.ambiguous = t.ambiguous, !.ttl = t.ttl]
    BY ZenonT(90), <1>1 DEF ExpireResource, SubscriptionStates
  <2> HIDE DEF t, AllNames, Absent
  <2> QED BY <1>1, <2>1, <2>2, <2>3, <2>4 DEF SubscriptionStates
<1>a. \A m \in AllNames : t.requested[m] = Absent <=> s.requested[m] = Absent
  BY SMTT(30), <1>1 DEF ExpireResource, SubscriptionStates, Requested
<1>b. \A m \in Names : /\ t.wildcard[m] # Absent => s.wildcard[m] # Absent
                       /\ t.ambiguous[m] # Absent => s.ambiguous[m] # Absent
  BY <1>1 DEF ExpireResource, SubscriptionStates
<1>3. Requested(t) = Requested(s)
  <2> HIDE DEF t
  <2> QED BY <1>a DEF Requested
<1>4. Disjoint(t)
  <2> HIDE DEF t
  <2> QED BY <1>1, <1>a, <1>b DEF Disjoint, AllNames
<1>5. t.sent = s.sent /\ t.added = s.added /\ t.removed = s.removed /\ t.legacy = s.legacy
  BY <1>1 DEF ExpireResource, SubscriptionStates
<1>6. SubOK(t)
  <2> HIDE DEF t
  <2> QED BY <1>2, <1>3, <1>4, <1>5 DEF SubOK
<1> QED BY <1>3, <1>5, <1>6

-----------------------------------------------------------------------------
(* What the server learns from a sequence of requests *)

(* The terms of SubscribedAfter *)
Got(srv, reqs, i) ==
  IF i = 0 THEN srv.subscribed
  ELSE IF i = 1 /\ ~srv.started /\ reqs[1].body.subscribe = {} THEN {Wildcard}
  ELSE reqs[i].body.subscribe
Keeps(reqs, i, n) == \A j \in DOMAIN reqs : j >= i => n \notin reqs[j].body.unsubscribe

(* SubscribedAfter in these terms. *)
LEMMA SubscribedTerms ==
  ASSUME NEW srv, NEW reqs
  PROVE  SubscribedAfter(srv, reqs) =
           {n \in AllNames : \E i \in 0..Len(reqs) : n \in Got(srv, reqs, i) /\ Keeps(reqs, i, n)}
  BY DEF SubscribedAfter, Got, Keeps

(* What the server has when it has read all requests does not change when *)
(* it reads the first of them.                                             *)
LEMMA RequestRead ==
  ASSUME NEW srv, NEW next, NEW reqs \in Seq(Requests), reqs # <<>>,
         srv.subscribed \in SUBSET AllNames,
         ~srv.started => srv.subscribed = {} /\ reqs[1].body.unsubscribe = {},
         next.started,
         next.subscribed = IF ~srv.started /\ reqs[1].body.subscribe = {} THEN {Wildcard}
                           ELSE (srv.subscribed \cup reqs[1].body.subscribe) \ reqs[1].body.unsubscribe
  PROVE  SubscribedAfter(next, Tail(reqs)) = SubscribedAfter(srv, reqs)
<1> DEFINE t == Tail(reqs)
<1>1. Len(reqs) \in Nat /\ Len(reqs) > 0 /\ Len(t) = Len(reqs) - 1 /\ \A i \in 1..Len(t) : t[i] = reqs[i+1]
  BY SMTT(30)
<1>2. DOMAIN t = 1..Len(t) /\ DOMAIN reqs = 1..Len(reqs)
  BY SMTT(30)
<1> HIDE DEF t
<1>3. ASSUME NEW n \in AllNames, NEW i \in 0..Len(t)
      PROVE  Keeps(t, i, n) <=> Keeps(reqs, IF i = 0 THEN 2 ELSE i + 1, n)
  <2>1. ASSUME Keeps(t, i, n), NEW j \in 1..Len(reqs), j >= IF i = 0 THEN 2 ELSE i + 1
        PROVE  n \notin reqs[j].body.unsubscribe
    <3>1. j - 1 \in 1..Len(t) /\ j - 1 >= i /\ t[j - 1] = reqs[j]
      BY SMTT(30), <1>1, <2>1
    <3> QED BY <1>2, <2>1, <3>1 DEF Keeps
  <2>2. ASSUME Keeps(reqs, IF i = 0 THEN 2 ELSE i + 1, n), NEW j \in 1..Len(t), j >= i
        PROVE  n \notin t[j].body.unsubscribe
    <3>1. j + 1 \in 1..Len(reqs) /\ (j + 1 >= IF i = 0 THEN 2 ELSE i + 1) /\ t[j] = reqs[j + 1]
      BY SMTT(30), <1>1, <2>2
    <3> QED BY <1>2, <2>2, <3>1 DEF Keeps
  <2> QED BY <1>2, <2>1, <2>2 DEF Keeps
<1>4. ASSUME NEW i \in 1..Len(t)
      PROVE  Got(next, t, i) = Got(srv, reqs, i + 1)
  BY SMTT(30), <1>1 DEF Got
<1>5. ASSUME NEW n \in AllNames
      PROVE n \in Got(next, t, 0) /\ Keeps(t, 0, n) <=> \E i \in 0..1 : n \in Got(srv, reqs, i) /\ Keeps(reqs, i, n)
  <2>1. Keeps(t, 0, n) <=> Keeps(reqs, 2, n)
    BY SMTT(30), <1>1, <1>3
  <2>2. Keeps(reqs, 0, n) <=> Keeps(reqs, 1, n)
    BY SMTT(30), <1>2 DEF Keeps
  <2>3. Keeps(reqs, 1, n) <=> Keeps(reqs, 2, n) /\ n \notin reqs[1].body.unsubscribe
    BY SMTT(30), <1>1, <1>2 DEF Keeps
  <2>4. /\ Got(next, t, 0) = next.subscribed /\ Got(srv, reqs, 0) = srv.subscribed
        /\ Got(srv, reqs, 1) = IF ~srv.started /\ reqs[1].body.subscribe = {} THEN {Wildcard}
                               ELSE reqs[1].body.subscribe
    BY SMTT(30) DEF Got
  <2>5. n \in next.subscribed <=> /\ n \in Got(srv, reqs, 0) \/ n \in Got(srv, reqs, 1)
                                  /\ n \notin reqs[1].body.unsubscribe
    BY <2>4
  <2> QED BY SMTT(30), <2>1, <2>2, <2>3, <2>4, <2>5
<1>6. ASSUME NEW n \in AllNames
      PROVE  n \in SubscribedAfter(next, t) <=> n \in SubscribedAfter(srv, reqs)
  <2>1. ASSUME NEW i \in 1..Len(t), n \in Got(next, t, i), Keeps(t, i, n)
        PROVE  i + 1 \in 0..Len(reqs) /\ n \in Got(srv, reqs, i + 1) /\ Keeps(reqs, i + 1, n)
    BY SMTT(30), <1>1, <1>3, <1>4, <2>1
  <2>2. ASSUME NEW i \in 2..Len(reqs), n \in Got(srv, reqs, i), Keeps(reqs, i, n)
        PROVE  i - 1 \in 0..Len(t) /\ n \in Got(next, t, i - 1) /\ Keeps(t, i - 1, n)
    <3>1. i - 1 \in 1..Len(t) /\ (i - 1) + 1 = i
      BY SMTT(30), <1>1
    <3> QED BY SMTT(30), <1>3, <1>4, <2>2, <3>1
  <2>3. ASSUME NEW i \in 0..Len(t) PROVE i = 0 \/ i \in 1..Len(t)
    BY SMTT(30)
  <2>4. 0 \in 0..Len(t) /\ 0 \in 0..Len(reqs) /\ 1 \in 0..Len(reqs)
    BY SMTT(30), <1>1
  <2>5. ASSUME NEW i \in 0..Len(reqs) PROVE i \in 0..1 \/ i \in 2..Len(reqs)
    BY SMTT(30)
  <2>6. n \in SubscribedAfter(next, t) => n \in SubscribedAfter(srv, reqs)
    BY SMTT(30), <1>5, <2>1, <2>3, <2>4, SubscribedTerms
  <2>7. n \in SubscribedAfter(srv, reqs) => n \in SubscribedAfter(next, t)
    BY <1>5, <2>2, <2>5, <2>4, SubscribedTerms
  <2> QED BY <2>6, <2>7
<1> SUFFICES SubscribedAfter(next, t) = SubscribedAfter(srv, reqs)
  BY DEF t
<1>7. SubscribedAfter(next, t) \subseteq AllNames /\ SubscribedAfter(srv, reqs) \subseteq AllNames
  BY DEF SubscribedAfter
<1> QED BY <1>6, <1>7

(* Only the first of these requests has something to say. *)
SilentAfterFirst(reqs) ==
  \A i \in 2..Len(reqs) : reqs[i].body.subscribe = {} /\ reqs[i].body.unsubscribe = {}
(* What a request behind others subscribes to *)
Told(srv, reqs, body) ==
  IF reqs = <<>> /\ ~srv.started /\ body.subscribe = {} THEN {Wildcard} ELSE body.subscribe

(* Of the requests sent at once the first one tells the server something.  *)
LEMMA RequestsSent ==
  ASSUME NEW srv, NEW reqs \in Seq(Requests), NEW new \in Seq(Requests), new # <<>>,
         SilentAfterFirst(new)
  PROVE  SubscribedAfter(srv, reqs \o new) =
           (SubscribedAfter(srv, reqs) \cup Told(srv, reqs, new[1].body))
           \ new[1].body.unsubscribe
<1> DEFINE q == reqs \o new
           first == Len(reqs) + 1
           got == IF reqs = <<>> /\ ~srv.started /\ new[1].body.subscribe = {} THEN {Wildcard}
                  ELSE new[1].body.subscribe
<1>1. /\ Len(reqs) \in Nat /\ Len(new) \in Nat /\ Len(new) > 0 /\ Len(q) = Len(reqs) + Len(new)
      /\ \A i \in 1..Len(reqs) : q[i] = reqs[i]
      /\ \A i \in 1..Len(new) : q[Len(reqs) + i] = new[i]
      /\ DOMAIN q = 1..Len(q) /\ DOMAIN reqs = 1..Len(reqs)
      /\ reqs = <<>> <=> Len(reqs) = 0
  BY SMTT(30)
<1> HIDE DEF q
<1>2. \A i \in (first + 1)..Len(q) : q[i].body.subscribe = {} /\ q[i].body.unsubscribe = {}
  <2> TAKE i \in (first + 1)..Len(q)
  <2>1. i - Len(reqs) \in 2..Len(new) /\ q[i] = new[i - Len(reqs)]
    BY SMTT(30), <1>1
  <2> QED BY <2>1 DEF SilentAfterFirst
<1>3. q[first] = new[1] /\ first \in 1..Len(q)
  BY SMTT(30), <1>1
<1>4. ASSUME NEW n, NEW i \in 0..Len(reqs)
      PROVE  Keeps(q, i, n) <=> Keeps(reqs, i, n) /\ n \notin new[1].body.unsubscribe
  <2>1. ASSUME NEW j \in 1..Len(q) PROVE j \in 1..Len(reqs) \/ j = first \/ j \in (first + 1)..Len(q)
    BY SMTT(30), <1>1
  <2>2. ASSUME NEW j \in 1..Len(reqs) PROVE j \in 1..Len(q) /\ q[j] = reqs[j]
    BY SMTT(30), <1>1
  <2>3. first >= i
    BY SMTT(30), <1>1
  <2>4. DOMAIN q = 1..Len(q) /\ DOMAIN reqs = 1..Len(reqs)
    BY <1>1
  <2>5. ASSUME Keeps(q, i, n) PROVE Keeps(reqs, i, n) /\ n \notin new[1].body.unsubscribe
    BY <1>3, <2>2, <2>3, <2>4, <2>5 DEF Keeps
  <2>6. ASSUME Keeps(reqs, i, n), n \notin new[1].body.unsubscribe PROVE Keeps(q, i, n)
    <3>1. ASSUME NEW j \in 1..Len(q), j >= i PROVE n \notin q[j].body.unsubscribe
      <4>1. CASE j \in 1..Len(reqs)
        BY <2>2, <2>4, <2>6, <3>1, <4>1 DEF Keeps
      <4>2. CASE j = first
        BY <1>3, <2>6, <4>2
      <4>3. CASE j \in (first + 1)..Len(q)
        BY <1>2, <4>3
      <4> QED BY <2>1, <3>1, <4>1, <4>2, <4>3
    <3> QED BY <2>4, <3>1 DEF Keeps
  <2> QED BY <2>5, <2>6
<1>5. ASSUME NEW n
      PROVE  Keeps(q, first, n) <=> n \notin new[1].body.unsubscribe
  <2>1. ASSUME NEW j \in 1..Len(q), j >= first PROVE j = first \/ j \in (first + 1)..Len(q)
    BY SMTT(30), <1>1, <2>1
  <2>2. DOMAIN q = 1..Len(q) /\ first >= first
    BY SMTT(30), <1>1
  <2>3. ASSUME Keeps(q, first, n) PROVE n \notin new[1].body.unsubscribe
    BY <1>3, <2>2, <2>3 DEF Keeps
  <2>4. ASSUME n \notin new[1].body.unsubscribe PROVE Keeps(q, first, n)
    BY <1>2, <1>3, <2>1, <2>2, <2>4 DEF Keeps
  <2> QED BY <2>3, <2>4
<1>6. /\ \A i \in 0..Len(reqs) : Got(srv, q, i) = Got(srv, reqs, i)
      /\ Got(srv, q, first) = got
      /\ \A i \in (first + 1)..Len(q) : Got(srv, q, i) = {}
  BY SMTT(30), <1>1, <1>2, <1>3 DEF Got
<1>7. ASSUME NEW n \in AllNames
      PROVE  n \in SubscribedAfter(srv, q)
             <=> n \in (SubscribedAfter(srv, reqs) \cup got) \ new[1].body.unsubscribe
  <2>1. 0..Len(q) = (0..Len(reqs)) \cup {first} \cup (first + 1)..Len(q)
    BY SMTT(30), <1>1
  <2>2. n \in SubscribedAfter(srv, q)
          <=> \E i \in 0..Len(q) : n \in Got(srv, q, i) /\ Keeps(q, i, n)
    BY SubscribedTerms
  <2>3. n \in SubscribedAfter(srv, reqs)
          <=> \E i \in 0..Len(reqs) : n \in Got(srv, reqs, i) /\ Keeps(reqs, i, n)
    BY SubscribedTerms
  <2> HIDE DEF first, got
  <2>4. ASSUME NEW i \in 0..Len(q), n \in Got(srv, q, i), Keeps(q, i, n)
        PROVE  n \in (SubscribedAfter(srv, reqs) \cup got) \ new[1].body.unsubscribe
    <3>1. i \in 0..Len(reqs) \/ i = first
      BY <1>6, <2>1, <2>4
    <3> QED BY <1>4, <1>5, <1>6, <2>3, <2>4, <3>1
  <2>5. ASSUME n \in (SubscribedAfter(srv, reqs) \cup got) \ new[1].body.unsubscribe
        PROVE  \E i \in 0..Len(q) : n \in Got(srv, q, i) /\ Keeps(q, i, n)
    <3>1. CASE n \in got
      <4>1. first \in 0..Len(q) /\ n \in Got(srv, q, first) /\ Keeps(q, first, n)
        BY <1>5, <1>6, <2>1, <2>5, <3>1
      <4> QED BY <4>1
    <3>2. CASE n \in SubscribedAfter(srv, reqs)
      <4>1. PICK i \in 0..Len(reqs) : n \in Got(srv, reqs, i) /\ Keeps(reqs, i, n)
        BY <2>3, <3>2
      <4>2. i \in 0..Len(q) /\ n \in Got(srv, q, i) /\ Keeps(q, i, n)
        BY <1>4, <1>6, <2>1, <2>5, <4>1
      <4> QED BY <4>2
    <3> QED BY <2>5, <3>1, <3>2
  <2> QED BY <2>2, <2>4, <2>5
<1>8. SubscribedAfter(srv, q) \subseteq AllNames /\ SubscribedAfter(srv, reqs) \subseteq AllNames
  BY DEF SubscribedAfter
<1>9. got \subseteq AllNames
  <2>1. new[1] \in Requests
    BY SMTT(30), <1>1
  <2> QED BY <2>1 DEF AllNames, Requests
<1> SUFFICES SubscribedAfter(srv, q) = (SubscribedAfter(srv, reqs) \cup got) \ new[1].body.unsubscribe
  BY DEF q, Told
<1> HIDE DEF got
<1> QED BY <1>7, <1>8, <1>9

-----------------------------------------------------------------------------
(* Sending *)

Bodies == [subscribe : SUBSET AllNames, unsubscribe : SUBSET AllNames,
           versions : [Names -> 0..MaxVersion]]

(* The request of a consistent subscription is one. *)
LEMMA RequestTyped ==
  ASSUME NEW s, SubOK(s)
  PROVE  NextRequest(s) \in Bodies
<1>1. s \in SubscriptionStates
  BY DEF SubOK
<1>2. InitialResourceVersions(s) \in [Names -> 0..MaxVersion]
  BY SMTT(30), <1>1, DeltaSubscriptionAssumption
  DEF InitialResourceVersions, SubscriptionStates, AllNames, Absent
<1>3. [n \in Names |-> 0] \in [Names -> 0..MaxVersion]
  BY SMTT(30), DeltaSubscriptionAssumption
<1>4. s.added \subseteq AllNames /\ s.removed \subseteq AllNames /\ Requested(s) \subseteq AllNames
  BY <1>1 DEF SubscriptionStates, Requested
<1> QED BY <1>2, <1>3, <1>4 DEF NextRequest, Bodies

(* A request makes the server's subscriptions what the client wants: the   *)
(* first one of a stream by itself, a later one with what it had before.   *)
LEMMA RequestTells ==
  ASSUME NEW s, SubOK(s), NEW srv, NEW reqs \in Seq(Requests), StreamOK(s, reqs, srv),
         NEW new \in Seq(Requests), new # <<>>, new[1].body = NextRequest(s),
         \A i \in 2..Len(new) : new[i].body = NextRequest(AfterRequest(s))
  PROVE  StreamOK(AfterRequest(s), reqs \o new, srv)
<1> DEFINE t == AfterRequest(s)
           body == new[1].body
           q == reqs \o new
<1>1. /\ t.sent /\ t.added = {} /\ t.removed = {}
      /\ Requested(t) = Requested(s) \cup (IF ~s.sent /\ s.legacy THEN {Wildcard} ELSE {})
  BY RequestTaken
<1>2. q # <<>> /\ q[1] = (IF reqs = <<>> THEN new[1] ELSE reqs[1])
  BY SMTT(30)
<1>3. SubscribedAfter(srv, reqs \o new) =
           (SubscribedAfter(srv, reqs) \cup Told(srv, reqs, new[1].body))
           \ new[1].body.unsubscribe
  <2>1. SilentAfterFirst(new)
    BY SMTT(30), <1>1 DEF NextRequest, SilentAfterFirst
  <2> QED BY <2>1, RequestsSent
<1>4. Learns(t, q, srv)
  <2>1. CASE s.sent
    <3>1. body.subscribe = s.added /\ body.unsubscribe = s.removed
      BY SMTT(30), <2>1 DEF NextRequest
    <3>2. ~(reqs = <<>> /\ ~srv.started) /\ Learns(s, reqs, srv)
      BY <2>1 DEF StreamOK
    <3> HIDE DEF t, body, q
    <3> QED BY <1>1, <1>3, <2>1, <3>1, <3>2 DEF Learns, Told, body, q
  <2>2. CASE ~s.sent
    <3>1. reqs = <<>> /\ ~srv.started /\ srv.subscribed = {}
      BY <2>2 DEF StreamOK
    <3>2. SubscribedAfter(srv, reqs) = {}
      BY SMTT(30), <3>1 DEF SubscribedAfter
    <3>3. /\ body.subscribe = IF IsLegacyWildcard(s) THEN {} ELSE s.added \cup Requested(s)
          /\ body.unsubscribe = {}
      BY SMTT(30), <2>2 DEF NextRequest
    <3>4. s.added \subseteq Requested(s) /\ (s.legacy => Requested(s) \subseteq {Wildcard})
      BY DEF SubOK
    <3>5. IsLegacyWildcard(s) => s.legacy \/ Requested(s) = {Wildcard}
      BY DEF IsLegacyWildcard
    <3> HIDE DEF t, body, q
    <3> QED BY SMTT(30), <1>1, <1>3, <2>2, <3>1, <3>2, <3>3, <3>4, <3>5 DEF Learns, Told, body, q
  <2> QED BY <2>1, <2>2
<1>5. ~srv.started => srv.subscribed = {} /\ q[1].body.unsubscribe = {}
  <2>1. reqs = <<>> /\ ~srv.started => body.unsubscribe = {}
    BY SMTT(30) DEF StreamOK, NextRequest
  <2> QED BY <1>2, <2>1 DEF StreamOK
<1> HIDE DEF q, t
<1>6. StreamOK(t, q, srv)
  BY <1>1, <1>2, <1>4, <1>5 DEF StreamOK
<1> QED BY <1>6 DEF q, t

(* The i-th request trySendDiscoveryRequests makes *)
Request(s, a, i) ==
  [ack |-> IF i \in DOMAIN a THEN a[i] ELSE None,
   body |-> NextRequest(IF i = 1 THEN s ELSE AfterRequest(s))]

(* What trySendDiscoveryRequests does, whatever the pause, the stream and  *)
(* the rate limit let through: the first acknowledgements leave the queue, *)
(* a request each, and the first request has what is pending.              *)
LEMMA RequestsMade ==
  ASSUME NEW s, NEW a \in Seq(BOOLEAN), NEW r, TrySendDiscoveryRequests(s, a, r)
  PROVE  \E n \in Nat :
           /\ n <= Len(a) \/ (a = <<>> /\ n = 1)
           /\ requests' = r \o [i \in 1..n |-> Request(s, a, i)]
           /\ acks' = SubSeq(a, n + 1, Len(a))
           /\ sub' = IF n = 0 THEN s ELSE AfterRequest(s)
           /\ limited' \in BOOLEAN
<1> DEFINE wanted == IF pauses' > 0 \/ ~connected' THEN 0
                     ELSE IF SubscriptionUpdatePending(s) /\ a = <<>> THEN 1 ELSE Len(a)
<1>1. PICK n \in IF RateLimited THEN 0..wanted ELSE {wanted} :
        /\ requests' = r \o [i \in 1..n |-> Request(s, a, i)]
        /\ acks' = SubSeq(a, n + 1, Len(a))
        /\ sub' = IF n = 0 THEN s ELSE AfterRequest(s)
        /\ limited' = (n < wanted)
  BY DEF TrySendDiscoveryRequests, Request
<1>2. wanted \in Nat /\ (wanted <= Len(a) \/ (a = <<>> /\ wanted = 1))
  BY SMTT(30)
<1> HIDE DEF wanted
<1>3. n \in Nat /\ n <= wanted /\ (n <= Len(a) \/ (a = <<>> /\ n = 1))
  BY SMTT(30), <1>2
<1>4. limited' \in BOOLEAN
  BY SMTT(30), <1>1, <1>2, <1>3
<1> QED BY <1>1, <1>3, <1>4

(* trySendDiscoveryRequests keeps the subscription consistent, and the     *)
(* server is told what the client wants.                                   *)
LEMMA Sends ==
  ASSUME NEW s, SubOK(s), NEW a \in Seq(BOOLEAN), NEW r \in Seq(Requests),
         TrySendDiscoveryRequests(s, a, r)
  PROVE  /\ SubOK(sub') /\ limited' \in BOOLEAN
         /\ acks' \in Seq(BOOLEAN) /\ requests' \in Seq(Requests)
         /\ Requested(s) \subseteq Requested(sub')
         /\ Requested(sub') \subseteq Requested(s) \cup {Wildcard}
         /\ \A srv : StreamOK(s, r, srv) => StreamOK(sub', requests', srv)
<1>1. PICK n \in Nat :
        /\ n <= Len(a) \/ (a = <<>> /\ n = 1)
        /\ requests' = r \o [i \in 1..n |-> Request(s, a, i)]
        /\ acks' = SubSeq(a, n + 1, Len(a))
        /\ sub' = IF n = 0 THEN s ELSE AfterRequest(s)
        /\ limited' \in BOOLEAN
  BY RequestsMade
<1> DEFINE new == [i \in 1..n |-> Request(s, a, i)]
<1>2. new \in Seq(Requests) /\ Len(new) = n
  <2>1. \A i \in 1..n : Request(s, a, i) \in Requests
    <3>1. NextRequest(s) \in Bodies /\ NextRequest(AfterRequest(s)) \in Bodies
      BY RequestTaken, RequestTyped
    <3> QED BY SMTT(30), <3>1 DEF Request, Requests, Bodies
  <2> QED BY SMTT(30), <2>1
<1>3. acks' \in Seq(BOOLEAN) /\ requests' \in Seq(Requests)
  <2> HIDE DEF new
  <2> QED BY SMTT(30), <1>1, <1>2 DEF new
<1>4. /\ SubOK(sub')
      /\ Requested(s) \subseteq Requested(sub')
      /\ Requested(sub') \subseteq Requested(s) \cup {Wildcard}
  BY <1>1, RequestTaken
<1>5. ASSUME NEW srv, StreamOK(s, r, srv) PROVE StreamOK(sub', requests', srv)
  <2>1. CASE n = 0
    <3>1. requests' = r /\ sub' = s
      BY SMTT(30), <1>1, <2>1
    <3> QED BY <1>5, <3>1
  <2>2. CASE n # 0
    <3>1. /\ new # <<>> /\ new[1].body = NextRequest(s)
          /\ \A i \in 2..Len(new) : new[i].body = NextRequest(AfterRequest(s))
      BY SMTT(30), <1>2, <2>2 DEF Request
    <3>2. requests' = r \o new /\ sub' = AfterRequest(s)
      BY <1>1, <2>2
    <3> HIDE DEF new
    <3> QED BY <1>2, <1>5, <3>1, <3>2, RequestTells
  <2> QED BY <2>1, <2>2
<1> QED BY <1>1, <1>3, <1>4, <1>5

-----------------------------------------------------------------------------
(* The actions *)

(* An action that ends with trySendDiscoveryRequests keeps the invariant   *)
(* if what it does before fits: the subscription is consistent with the    *)
(* interest and the stream.                                                *)
LEMMA SendStep ==
  ASSUME InterestInv, NEW s, NEW a \in Seq(BOOLEAN), NEW r \in Seq(Requests),
         TrySendDiscoveryRequests(s, a, r), RestTyped',
         SubOK(s), Fits(s, interest'), connected' => StreamOK(s, r, server')
  PROVE  InterestInv'
<1>1. /\ SubOK(sub') /\ SentTyped'
      /\ Requested(s) \subseteq Requested(sub')
      /\ Requested(sub') \subseteq Requested(s) \cup {Wildcard}
      /\ \A srv : StreamOK(s, r, srv) => StreamOK(sub', requests', srv)
  BY Sends DEF SentTyped
<1>2. Fits(sub, interest)'
  BY <1>1 DEF Fits
<1> QED BY <1>1, <1>2 DEF InterestInv

(* NewGrpcMuxImpl::onWriteable *)
LEMMA OnWriteableKeeps ==
  ASSUME InterestInv, OnWriteable
  PROVE  InterestInv'
<1>1. RestTyped' /\ Fits(sub, interest') /\ connected' = connected
  BY DEF InterestInv, OnWriteable, RestTyped, Fits, Named, serverVars
<1>2. SubOK(sub) /\ acks \in Seq(BOOLEAN) /\ requests \in Seq(Requests) /\ server' = server
  BY DEF InterestInv, SentTyped, OnWriteable, serverVars
<1>3. TrySendDiscoveryRequests(sub, acks, requests)
  BY DEF OnWriteable
<1> QED BY <1>1, <1>2, <1>3, SendStep DEF InterestInv

(* The ScopedResume of pause(): an inner one sends nothing. *)
LEMMA ResumeKeeps ==
  ASSUME InterestInv, Resume
  PROVE  InterestInv'
<1>1. RestTyped' /\ Fits(sub, interest') /\ connected' = connected
  BY SMTT(30), DeltaMuxAssumption DEF InterestInv, Resume, RestTyped, Fits, Named, serverVars
<1>2. SubOK(sub) /\ acks \in Seq(BOOLEAN) /\ requests \in Seq(Requests) /\ server' = server
  BY DEF InterestInv, SentTyped, Resume, serverVars
<1>3. CASE pauses = 1
  <2>1. TrySendDiscoveryRequests(sub, acks, requests)
    BY <1>3 DEF Resume
  <2> QED BY <1>1, <1>2, <2>1, SendStep DEF InterestInv
<1>4. CASE pauses # 1
  <2>1. sub' = sub /\ acks' = acks /\ limited' = limited /\ requests' = requests
    BY <1>4 DEF Resume
  <2> QED BY <1>1, <1>2, <2>1 DEF InterestInv, SentTyped
<1> QED BY <1>3, <1>4

(* Fields that say nothing about names or the stream do not matter. *)
LEMMA OtherFields ==
  ASSUME NEW s, SubOK(s), NEW t \in SubscriptionStates,
         t.requested = s.requested, t.wildcard = s.wildcard, t.ambiguous = s.ambiguous,
         t.added = s.added, t.removed = s.removed, t.legacy = s.legacy
  PROVE  /\ SubOK(t) /\ Requested(t) = Requested(s)
         /\ t.sent = s.sent => \A reqs, srv : StreamOK(s, reqs, srv) => StreamOK(t, reqs, srv)
<1>1. Requested(t) = Requested(s)
  BY DEF Requested
<1>2. SubOK(t)
  BY <1>1 DEF SubOK, Disjoint
<1>3. ASSUME t.sent = s.sent, NEW reqs, NEW srv, StreamOK(s, reqs, srv)
      PROVE  StreamOK(t, reqs, srv)
  BY <1>1, <1>3 DEF StreamOK, Learns
<1> QED BY <1>1, <1>2, <1>3

(* A counter stays one. *)
LEMMA Counting ==
  ASSUME counts \in [Counted -> Nat], NEW what \in Counted, Increment(what)
  PROVE  counts' \in [Counted -> Nat]
  BY SMTT(30) DEF Increment

(* NewGrpcMuxImpl::onDynamicContextUpdate *)
LEMMA OnDynamicContextUpdateKeeps ==
  ASSUME InterestInv, OnDynamicContextUpdate
  PROVE  InterestInv'
<1> DEFINE s == [sub EXCEPT !.contextChanged = TRUE]
<1>0. counts' \in [Counted -> Nat]
  BY Counting DEF InterestInv, RestTyped, OnDynamicContextUpdate, Counted
<1>1. /\ RestTyped' /\ connected' = connected
      /\ interest' = interest /\ server' = server
  BY <1>0 DEF InterestInv, OnDynamicContextUpdate, RestTyped, serverVars
<1>2. SubOK(sub) /\ acks \in Seq(BOOLEAN) /\ requests \in Seq(Requests)
  BY DEF InterestInv, SentTyped
<1>3. s \in SubscriptionStates
  BY <1>2 DEF SubOK, SubscriptionStates
<1>4. /\ s.requested = sub.requested /\ s.wildcard = sub.wildcard /\ s.ambiguous = sub.ambiguous
      /\ s.added = sub.added /\ s.removed = sub.removed /\ s.legacy = sub.legacy
      /\ s.sent = sub.sent
  BY <1>2 DEF SubOK, SubscriptionStates
<1>5. TrySendDiscoveryRequests(s, acks, requests)
  BY DEF OnDynamicContextUpdate
<1> HIDE DEF s
<1>6. /\ SubOK(s) /\ Requested(s) = Requested(sub)
      /\ connected => StreamOK(s, requests, server)
  BY <1>2, <1>3, <1>4, OtherFields DEF InterestInv
<1>7. Fits(s, interest')
  BY <1>1, <1>6 DEF InterestInv, Fits
<1> QED BY <1>1, <1>2, <1>5, <1>6, <1>7, SendStep DEF InterestInv

(* WatchMap::updateWatchInterest: the names nobody wanted before are       *)
(* added, those nobody wants any more are removed.                         *)
LEMMA InterestStep ==
  ASSUME InterestInv, NEW w \in Watches, NEW names \in (SUBSET AllNames) \cup {None},
         interest' = [interest EXCEPT ![w] = names], UpdateInterest(w, names),
         RestTyped', connected' = connected, server' = server
  PROVE  InterestInv'
<1> DEFINE added == {n \in AllNames : Named(interest, n) = {} /\ Named(interest', n) # {}}
           removed == {n \in AllNames : Named(interest, n) # {} /\ Named(interest', n) = {}}
           s == UpdateSubscriptionInterest(sub, added, removed)
<1>1. \/ TrySendDiscoveryRequests(s, acks, requests)
      \/ sub' = s /\ acks' = acks /\ limited' = limited /\ requests' = requests
  BY DEF UpdateInterest
<1>2. SubOK(sub) /\ SentTyped /\ Fits(sub, interest)
  BY DEF InterestInv
<1>3. added \in SUBSET AllNames /\ removed \in SUBSET AllNames /\ added \cap removed = {}
  OBVIOUS
<1>4. removed \subseteq Requested(sub)
  BY <1>2 DEF Fits
<1>5. /\ SubOK(s)
      /\ Requested(s) = (Requested(sub) \cup added) \ removed
      /\ s.sent = sub.sent
      /\ s.added = (sub.added \cup added) \ removed
      /\ s.removed = (sub.removed \ added) \cup (removed \cap Requested(sub))
  <2>1. SubOK(sub)
    BY <1>2
  <2> HIDE DEF added, removed
  <2>2. \A r \in SUBSET AllNames : added \cap r = {} =>
          LET t == UpdateSubscriptionInterest(sub, added, r)
          IN /\ SubOK(t)
             /\ Requested(t) = (Requested(sub) \cup added) \ r
             /\ t.sent = sub.sent
             /\ t.added = (sub.added \cup added) \ r
             /\ t.removed = (sub.removed \ added) \cup (r \cap Requested(sub))
    BY ZenonT(90), <1>3, <2>1, InterestUpdated
  <2> QED BY ZenonT(90), <1>3, <2>2
<1>6. Fits(s, interest')
  <2> DEFINE wanted == {n \in AllNames : Named(interest, n) # {}}
             wants == {n \in AllNames : Named(interest', n) # {}}
  <2>1. wants = (wanted \cup added) \ removed
    OBVIOUS
  <2>2. wanted \subseteq Requested(sub) /\ Requested(sub) \subseteq wanted \cup {Wildcard}
    BY <1>2 DEF Fits
  <2>3. wants \subseteq Requested(s) /\ Requested(s) \subseteq wants \cup {Wildcard}
    <3> HIDE DEF s, added, removed, wanted, wants
    <3> QED BY <1>5, <2>1, <2>2
  <2> QED BY <2>3 DEF Fits
<1>7. connected => StreamOK(s, requests, server)
  <2> SUFFICES ASSUME connected PROVE StreamOK(s, requests, server)
    OBVIOUS
  <2>1. StreamOK(sub, requests, server)
    BY DEF InterestInv
  <2>2. Learns(sub, requests, server) => Learns(s, requests, server)
    <3> HIDE DEF s, added, removed
    <3>1. ASSUME NEW k, Requested(sub) \subseteq (k \cup sub.added) \ sub.removed,
                 (k \cup sub.added) \ sub.removed \subseteq Requested(sub) \cup {Wildcard}
          PROVE  /\ Requested(s) \subseteq (k \cup s.added) \ s.removed
                 /\ (k \cup s.added) \ s.removed \subseteq Requested(s) \cup {Wildcard}
      BY <1>3, <1>4, <1>5, <3>1
    <3> QED BY <3>1 DEF Learns
  <2> HIDE DEF s
  <2> QED BY <1>5, <2>1, <2>2 DEF StreamOK
<1>8. CASE TrySendDiscoveryRequests(s, acks, requests)
  <2>1. acks \in Seq(BOOLEAN) /\ requests \in Seq(Requests)
    BY <1>2 DEF SentTyped
  <2> HIDE DEF s
  <2> QED BY <1>5, <1>6, <1>7, <1>8, <2>1, SendStep
<1>9. CASE sub' = s /\ acks' = acks /\ limited' = limited /\ requests' = requests
  <2> HIDE DEF s
  <2> QED BY <1>2, <1>5, <1>6, <1>7, <1>9 DEF InterestInv, SentTyped
<1> HIDE DEF s
<1> QED BY <1>1, <1>8, <1>9

(* Whether the wildcard interest has changed is a Boolean. *)
LEMMA Switching ==
  ASSUME NEW w, NEW names, UpdateInterest(w, names)
  PROVE  switched' \in BOOLEAN
<1> DEFINE new == [interest EXCEPT ![w] = names]
           added == {n \in AllNames : Named(interest, n) = {} /\ Named(new, n) # {}}
           removed == {n \in AllNames : Named(interest, n) # {} /\ Named(new, n) = {}}
<1>1. switched' = (switched \/ Wildcard \in added \cup removed)
  BY DEF UpdateInterest
<1> HIDE DEF added, removed
<1> QED BY <1>1

(* NewGrpcMuxImpl::addWatch and updateWatch *)
LEMMA UpdateWatchKeeps ==
  ASSUME InterestInv, NEW w \in Watches, NEW names \in Interests[w], UpdateWatch(w, names)
  PROVE  InterestInv'
<1>1. names \in SUBSET AllNames
  BY DeltaMuxAssumption
<1>2. /\ interest' = [interest EXCEPT ![w] = names] /\ UpdateInterest(w, names)
      /\ connected' = connected /\ server' = server
      /\ delivering' = delivering /\ responses' = responses
      /\ pauses' = pauses /\ sendVersions' = sendVersions
      /\ resources' = resources /\ missed' = missed
      /\ held' = [held EXCEPT ![w] = {n \in @ : Interested(names, n)}]
      /\ Increment("interests")
  BY DEF UpdateWatch, serverVars
<1>3. counts' \in [Counted -> Nat]
  <2>1. counts \in [Counted -> Nat]
    BY DEF InterestInv, RestTyped
  <2>2. "interests" \in Counted
    BY DEF Counted
  <2> QED BY <1>2, <2>1, <2>2, Counting
<1>4. switched' \in BOOLEAN
  BY <1>2, Switching
<1>5. interest' \in [Watches -> (SUBSET AllNames) \cup {None}] /\ held' \in [Watches -> SUBSET Names]
  <2>1. interest \in [Watches -> (SUBSET AllNames) \cup {None}] /\ held \in [Watches -> SUBSET Names]
    BY DEF InterestInv, RestTyped
  <2>2. interest' \in [Watches -> (SUBSET AllNames) \cup {None}]
    BY <1>1, <1>2, <2>1
  <2> QED BY <1>2, <2>1, <2>2
<1>6. RestTyped'
  BY <1>2, <1>3, <1>4, <1>5 DEF InterestInv, RestTyped
<1>7. names \in (SUBSET AllNames) \cup {None}
  BY <1>1
<1> QED BY <1>2, <1>6, <1>7, InterestStep

(* A delivery that leaves out a watch is still one. *)
LEMMA StillDelivering ==
  ASSUME delivering \in Deliveries, NEW w \in Watches
  PROVE  [delivering EXCEPT !.todo[w] = {}] \in Deliveries
  BY DEF Deliveries

(* NewGrpcMuxImpl::removeWatch *)
LEMMA RemoveWatchKeeps ==
  ASSUME InterestInv, NEW w \in Watches, RemoveWatch(w)
  PROVE  InterestInv'
<1>1. /\ interest' = [interest EXCEPT ![w] = None] /\ UpdateInterest(w, None)
      /\ connected' = connected /\ server' = server /\ responses' = responses
      /\ delivering' = IF delivering = None THEN None ELSE [delivering EXCEPT !.todo[w] = {}]
  BY DEF RemoveWatch, serverVars
<1>2. switched' \in BOOLEAN
  BY <1>1, Switching
<1>3. delivering' \in Deliveries \cup {None} /\ (delivering' = None <=> delivering = None)
  <2>1. delivering \in Deliveries \cup {None}
    BY DEF InterestInv, RestTyped
  <2>2. None \notin Deliveries
    BY DeltaMuxAssumption
  <2> QED BY <1>1, <2>1, <2>2, StillDelivering
<1>4. RestTyped'
  <2>1. interest' \in [Watches -> (SUBSET AllNames) \cup {None}] /\ held' \in [Watches -> SUBSET Names]
    <3>1. interest \in [Watches -> (SUBSET AllNames) \cup {None}] /\ held \in [Watches -> SUBSET Names]
      BY DEF InterestInv, RestTyped
    <3>2. held' = [held EXCEPT ![w] = {}]
      BY DEF RemoveWatch
    <3> QED BY <1>1, <3>1, <3>2
  <2> QED BY <1>1, <1>2, <1>3, <2>1 DEF InterestInv, RestTyped, RemoveWatch, serverVars
<1>5. None \in (SUBSET AllNames) \cup {None}
  OBVIOUS
<1> QED BY <1>1, <1>4, <1>5, InterestStep

(* A subscription with the same requests serves as well as another. *)
LEMMA SameNames ==
  ASSUME NEW s, NEW t, Requested(t) = Requested(s),
         t.sent = s.sent, t.added = s.added, t.removed = s.removed
  PROVE  /\ \A int : Fits(s, int) => Fits(t, int)
         /\ \A reqs, srv : StreamOK(s, reqs, srv) => StreamOK(t, reqs, srv)
<1>1. ASSUME NEW int, Fits(s, int) PROVE Fits(t, int)
  BY <1>1 DEF Fits
<1>2. ASSUME NEW reqs, NEW srv, StreamOK(s, reqs, srv) PROVE StreamOK(t, reqs, srv)
  <2>1. Learns(s, reqs, srv) => Learns(t, reqs, srv)
    BY DEF Learns
  <2> QED BY <1>2, <2>1 DEF StreamOK
<1> QED BY <1>1, <1>2

(* NewGrpcMuxImpl::kickOffAck after a response *)
LEMMA AckStep ==
  ASSUME InterestInv, NEW s, NEW ok \in BOOLEAN, KickOffAck(s, ok), RestTyped',
         SubOK(s), Fits(s, interest), connected => StreamOK(s, requests, server),
         interest' = interest, connected' = connected, server' = server
  PROVE  InterestInv'
<1> DEFINE a == Append(acks, ok)
<1>1. TrySendDiscoveryRequests(s, a, requests)
  BY DEF KickOffAck
<1>2. a \in Seq(BOOLEAN) /\ requests \in Seq(Requests)
  BY SMTT(30) DEF InterestInv, SentTyped
<1> HIDE DEF a
<1> QED BY <1>1, <1>2, SendStep

(* DeltaSubscriptionState::handleBadResponse of a response that is refused *)
LEMMA RefuseResponseKeeps ==
  ASSUME InterestInv, RefuseResponse
  PROVE  InterestInv'
<1>1. /\ KickOffAck(sub, FALSE) /\ delivering = None /\ delivering' = None
      /\ interest' = interest /\ connected' = connected /\ server' = server
      /\ responses # <<>> /\ responses' = Tail(responses)
      /\ pauses' = pauses /\ sendVersions' = sendVersions /\ switched' = switched
      /\ resources' = resources /\ held' = held /\ counts' = counts
      /\ missed' = missed \cup Mentioned(Head(responses))
  BY DEF RefuseResponse, Reject, serverVars
<1>2. missed' \subseteq Names
  BY <1>1 DEF InterestInv, RestTyped, Mentioned
<1>3. responses \in Seq(Responses) /\ Tail(responses) \in Seq(Responses)
  BY SMTT(30), <1>1 DEF InterestInv, RestTyped
<1>4. RestTyped'
  BY <1>1, <1>2, <1>3 DEF InterestInv, RestTyped
<1>5. SubOK(sub) /\ Fits(sub, interest) /\ (connected => StreamOK(sub, requests, server))
  BY DEF InterestInv
<1> QED BY <1>1, <1>4, <1>5, AckStep

(* handleBadResponse of a response a watch throws on *)
LEMMA FailToKeeps ==
  ASSUME InterestInv, NEW w \in Watches, FailTo(w)
  PROVE  InterestInv'
<1>1. /\ KickOffAck(sub, FALSE) /\ delivering # None /\ delivering' = None
      /\ interest' = interest /\ connected' = connected /\ server' = server
      /\ responses' = responses
      /\ pauses' = pauses /\ sendVersions' = sendVersions /\ switched' = switched
      /\ resources' = resources /\ held' = held /\ counts' = counts
      /\ missed' = missed \cup Mentioned(delivering.response)
  BY DEF FailTo, Reject, serverVars
<1>2. missed' \subseteq Names
  BY <1>1 DEF InterestInv, RestTyped, Mentioned
<1>4. RestTyped'
  BY <1>1, <1>2 DEF InterestInv, RestTyped
<1>5. SubOK(sub) /\ Fits(sub, interest) /\ (connected => StreamOK(sub, requests, server))
  BY DEF InterestInv
<1> QED BY <1>1, <1>4, <1>5, AckStep

(* The end of handleGoodResponse *)
LEMMA EndResponseKeeps ==
  ASSUME InterestInv, EndResponse
  PROVE  InterestInv'
<1> DEFINE r == delivering.response
           s == AcceptResponse(sub, r, TtlNames)
<1>1. /\ KickOffAck(s, TRUE) /\ delivering # None /\ delivering' = None
      /\ interest' = interest /\ connected' = connected /\ server' = server
      /\ responses' = responses /\ missed' = missed \ (Mentioned(r) \ r.heartbeats)
      /\ pauses' = pauses /\ sendVersions' = sendVersions /\ switched' = switched
      /\ resources' = resources /\ held' = held /\ counts' = counts
  BY DEF EndResponse, serverVars
<1>2. missed' \subseteq Names
  BY <1>1 DEF InterestInv, RestTyped
<1>3. r \in Responses /\ TtlNames \in SUBSET Names
  <2>1. delivering \in Deliveries
    BY <1>1 DEF InterestInv, RestTyped
  <2> QED BY <2>1, DeltaMuxAssumption DEF Deliveries
<1> HIDE DEF s
<1>4. RestTyped'
  BY <1>1, <1>2 DEF InterestInv, RestTyped
<1>5. /\ SubOK(s) /\ Requested(s) = Requested(sub)
      /\ s.sent = sub.sent /\ s.added = sub.added /\ s.removed = sub.removed
  <2> HIDE DEF r
  <2> QED BY <1>3, ResponseAccepted DEF InterestInv, s
<1>6. Fits(s, interest) /\ (connected => StreamOK(s, requests, server))
  BY <1>5, SameNames DEF InterestInv
<1> QED BY <1>1, <1>4, <1>5, <1>6, AckStep

(* NewGrpcMuxImpl::onStreamEstablished: nothing is known of the new stream *)
(* on either side.                                                         *)
LEMMA StreamEstablished ==
  ASSUME InterestInv, OnStreamEstablished, delivering = None, counts' \in [Counted -> Nat]
  PROVE  InterestInv'
<1> DEFINE s == MarkStreamFresh(sub, sendVersions)
<1>1. /\ TrySendDiscoveryRequests(s, <<>>, <<>>) /\ interest' = interest /\ connected' = TRUE
      /\ delivering' = None /\ responses' = <<>> /\ server' = NewServer /\ switched' = FALSE
      /\ pauses' = pauses /\ sendVersions' = sendVersions /\ resources' = resources
      /\ held' = held /\ missed' = missed
  BY DEF OnStreamEstablished
<1>2. SubOK(sub) /\ sub \in SubscriptionStates /\ sendVersions \in BOOLEAN
  BY DEF InterestInv, SubOK, RestTyped
<1>3. s \in SubscriptionStates
  BY <1>2 DEF MarkStreamFresh, SubscriptionStates
<1>4. /\ s.requested = sub.requested /\ s.wildcard = sub.wildcard /\ s.ambiguous = sub.ambiguous
      /\ s.added = sub.added /\ s.removed = sub.removed /\ s.legacy = sub.legacy
      /\ ~s.sent
  BY <1>2 DEF MarkStreamFresh, SubscriptionStates
<1>5. NewServer \in Servers
  BY SMTT(30), DeltaSubscriptionAssumption, DeltaMuxAssumption DEF NewServer, Servers, Unknown
<1>6. RestTyped'
  <2>1. <<>> \in Seq(Responses) /\ TRUE \in BOOLEAN /\ FALSE \in BOOLEAN
    BY SMTT(30)
  <2> QED BY <1>1, <1>5, <2>1 DEF InterestInv, RestTyped
<1> HIDE DEF s
<1>7. SubOK(s) /\ Requested(s) = Requested(sub)
  BY <1>2, <1>3, <1>4, OtherFields
<1>8. Fits(s, interest')
  BY <1>1, <1>7 DEF InterestInv, Fits
<1>9. StreamOK(s, <<>>, server')
  BY <1>1, <1>4 DEF StreamOK, NewServer
<1>10. <<>> \in Seq(BOOLEAN) /\ <<>> \in Seq(Requests)
  BY SMTT(30)
<1> QED BY <1>1, <1>6, <1>7, <1>8, <1>9, <1>10, SendStep

(* GrpcStream::establishNewStream *)
LEMMA EstablishNewStreamKeeps ==
  ASSUME InterestInv, EstablishNewStream
  PROVE  InterestInv'
  BY StreamEstablished DEF EstablishNewStream, InterestInv, RestTyped

(* NewGrpcMuxImpl::updateMuxSource *)
LEMMA UpdateMuxSourceKeeps ==
  ASSUME InterestInv, UpdateMuxSource
  PROVE  InterestInv'
<1>1. OnStreamEstablished /\ delivering = None
  BY DEF UpdateMuxSource
<1>2. counts' \in [Counted -> Nat]
  BY Counting DEF InterestInv, RestTyped, UpdateMuxSource, Counted
<1> QED BY <1>1, <1>2, StreamEstablished

(* NewGrpcMuxImpl::pause *)
LEMMA PauseKeeps ==
  ASSUME InterestInv, Pause
  PROVE  InterestInv'
<1>1. /\ SubOK(sub)' /\ Fits(sub, interest)'
      /\ (connected => StreamOK(sub, requests, server))'
  BY DEF InterestInv, Pause, serverVars
<1>2. SentTyped' /\ RestTyped'
  BY SMTT(30), DeltaMuxAssumption DEF InterestInv, Pause, serverVars, SentTyped, RestTyped
<1> QED BY <1>1, <1>2 DEF InterestInv

(* The start of a delivery: the response is still without an answer. *)
LEMMA BeginResponseKeeps ==
  ASSUME InterestInv, BeginResponse
  PROVE  InterestInv' /\ delivering' \in Deliveries
<1> DEFINE r == Head(responses)
           updated == Mentioned(r) \ r.heartbeats
           todo == [w \in Watches |-> IF interest[w] = None THEN {}
                                      ELSE {n \in updated : Interested(interest[w], n)}]
<1>1. /\ delivering' = [response |-> r, todo |-> todo]
      /\ responses # <<>> /\ responses' = Tail(responses) /\ delivering = None
      /\ interest' = interest /\ sub' = sub /\ acks' = acks /\ pauses' = pauses
      /\ sendVersions' = sendVersions /\ connected' = connected /\ limited' = limited
      /\ requests' = requests /\ server' = server /\ resources' = resources /\ held' = held
      /\ switched' = switched /\ missed' = missed /\ counts' = counts
  <2>1. delivering' = [response |-> r, todo |-> todo]
    BY DEF BeginResponse
  <2> HIDE DEF r, todo
  <2> QED BY <2>1 DEF BeginResponse, serverVars
<1>2. responses \in Seq(Responses) /\ Tail(responses) \in Seq(Responses) /\ r \in Responses
  <2>1. responses \in Seq(Responses)
    BY DEF InterestInv, RestTyped
  <2> QED BY SMTT(30), <1>1, <2>1
<1>3. todo \in [Watches -> SUBSET Names]
  BY DEF Mentioned
<1>4. delivering' \in Deliveries
  <2> HIDE DEF r, todo
  <2> QED BY <1>1, <1>2, <1>3 DEF Deliveries
<1>5. SentTyped' /\ RestTyped'
  <2> HIDE DEF r, todo
  <2> QED BY <1>1, <1>2, <1>4 DEF InterestInv, SentTyped, RestTyped
<1>6. /\ SubOK(sub)' /\ Fits(sub, interest)'
      /\ (connected => StreamOK(sub, requests, server))'
  BY <1>1 DEF InterestInv
<1> QED BY <1>4, <1>5, <1>6 DEF InterestInv

(* A watch gets its part of a response. *)
LEMMA DeliverToKeeps ==
  ASSUME InterestInv, NEW w \in Watches, DeliverTo(w)
  PROVE  InterestInv'
<1>1. /\ delivering # None /\ delivering' = [delivering EXCEPT !.todo[w] = {}]
      /\ interest' = interest /\ sub' = sub /\ acks' = acks /\ pauses' = pauses
      /\ sendVersions' = sendVersions /\ connected' = connected /\ limited' = limited
      /\ requests' = requests /\ responses' = responses /\ server' = server
      /\ resources' = resources /\ switched' = switched /\ missed' = missed /\ counts' = counts
  BY DEF DeliverTo, serverVars
<1>2. delivering \in Deliveries
  BY <1>1 DEF InterestInv, RestTyped
<1>3. delivering' \in Deliveries
  BY <1>1, <1>2, StillDelivering
<1>4. held' \in [Watches -> SUBSET Names]
  <2>1. held \in [Watches -> SUBSET Names]
    BY DEF InterestInv, RestTyped
  <2>2. delivering.todo[w] \subseteq Names
    BY <1>2 DEF Deliveries
  <2> DEFINE names == delivering.todo[w]
             has == {n \in names : delivering.response.content[n] > 0}
             now == {n \in has : Interested(interest[w], n)}
  <2>3. held' = [held EXCEPT ![w] = (@ \ names) \cup now]
    BY DEF DeliverTo
  <2>4. now \subseteq Names /\ names \subseteq Names
    BY <2>2
  <2> HIDE DEF now, names
  <2> QED BY <2>1, <2>3, <2>4
<1>5. SentTyped' /\ RestTyped'
  BY <1>1, <1>3, <1>4 DEF InterestInv, SentTyped, RestTyped
<1>6. /\ SubOK(sub)' /\ Fits(sub, interest)'
      /\ (connected => StreamOK(sub, requests, server))'
  BY <1>1, <1>3 DEF InterestInv
<1> QED BY <1>5, <1>6 DEF InterestInv

(* A TTL runs out. *)
LEMMA TtlExpiredKeeps ==
  ASSUME InterestInv, NEW n \in Names, TtlExpired(n)
  PROVE  InterestInv'
<1>1. /\ sub' = ExpireResource(sub, n)
      /\ interest' = interest /\ acks' = acks /\ pauses' = pauses
      /\ sendVersions' = sendVersions /\ connected' = connected /\ limited' = limited
      /\ delivering' = delivering
      /\ requests' = requests /\ responses' = responses /\ server' = server
      /\ resources' = resources /\ switched' = switched /\ missed' = missed \cup {n}
      /\ counts' = counts
  BY DEF TtlExpired, serverVars
<1>2. /\ SubOK(sub') /\ Requested(sub') = Requested(sub)
      /\ sub'.sent = sub.sent /\ sub'.added = sub.added /\ sub'.removed = sub.removed
  BY <1>1, ResourceExpired DEF InterestInv
<1>3. Fits(sub', interest) /\ (connected => StreamOK(sub', requests, server))
  BY <1>2, SameNames DEF InterestInv
<1>4. held' \in [Watches -> SUBSET Names]
  <2>1. held \in [Watches -> SUBSET Names]
    BY DEF InterestInv, RestTyped
  <2> DEFINE more == [w \in Watches |->
               IF interest[w] # None /\ Interested(interest[w], n) THEN held[w] \ {n} ELSE held[w]]
  <2>2. more \in [Watches -> SUBSET Names]
    BY <2>1
  <2>3. held' = held \/ held' = more
    BY DEF TtlExpired
  <2> QED BY <2>1, <2>2, <2>3
<1>5. missed' \subseteq Names
  BY <1>1 DEF InterestInv, RestTyped
<1>6. SentTyped' /\ RestTyped'
  BY <1>1, <1>4, <1>5 DEF InterestInv, SentTyped, RestTyped
<1> QED BY <1>1, <1>2, <1>3, <1>6 DEF InterestInv

(* GrpcStream::establishNewStream without a stream *)
LEMMA EstablishNewStreamFailsKeeps ==
  ASSUME InterestInv, NEW same \in BOOLEAN, EstablishNewStreamFails(same)
  PROVE  InterestInv'
<1>1. /\ SubOK(sub)' /\ Fits(sub, interest)'
      /\ (connected => StreamOK(sub, requests, server))'
  BY DEF InterestInv, EstablishNewStreamFails, serverVars
<1>2. SentTyped' /\ RestTyped'
  BY DEF InterestInv, EstablishNewStreamFails, OnEstablishmentFailure, serverVars, SentTyped,
                    RestTyped
<1> QED BY <1>1, <1>2 DEF InterestInv

(* GrpcStream::onRemoteClose *)
LEMMA OnRemoteCloseKeeps ==
  ASSUME InterestInv, NEW same \in BOOLEAN, OnRemoteClose(same)
  PROVE  InterestInv'
<1>1. /\ connected' = FALSE /\ sendVersions' = same /\ requests' = <<>> /\ responses' = <<>>
      /\ interest' = interest /\ sub' = sub /\ acks' = acks /\ pauses' = pauses
      /\ limited' = limited /\ delivering' = delivering /\ server' = server
      /\ resources' = resources /\ held' = held /\ switched' = switched /\ missed' = missed
  BY DEF OnRemoteClose, OnEstablishmentFailure, serverVars
<1>2. counts' \in [Counted -> Nat]
  BY Counting DEF InterestInv, RestTyped, OnRemoteClose, Counted
<1>3. <<>> \in Seq(Requests) /\ <<>> \in Seq(Responses) /\ FALSE \in BOOLEAN
  BY SMTT(30)
<1>4. SentTyped' /\ RestTyped'
  BY <1>1, <1>2, <1>3 DEF InterestInv, SentTyped, RestTyped
<1>5. /\ SubOK(sub)' /\ Fits(sub, interest)'
      /\ (connected => StreamOK(sub, requests, server))'
  BY <1>1 DEF InterestInv
<1> QED BY <1>4, <1>5 DEF InterestInv

-----------------------------------------------------------------------------
(* The server *)

(* The server reads a request. *)
LEMMA ServerReceivesKeeps ==
  ASSUME InterestInv, ServerReceives
  PROVE  InterestInv'
<1> DEFINE r == Head(requests).body
           first == ~server.started
           subscribed == IF first /\ r.subscribe = {} THEN {Wildcard}
                         ELSE (server.subscribed \cup r.subscribe) \ r.unsubscribe
           known(n) == IF first /\ r.versions[n] > 0 THEN r.versions[n]
                       ELSE IF n \in r.subscribe THEN Unknown
                       ELSE IF ~Tracked(subscribed, n) THEN 0
                       ELSE IF n \in r.unsubscribe THEN Unknown
                       ELSE IF Wildcard \in r.subscribe /\ server.known[n] # 0 THEN Unknown
                       ELSE server.known[n]
           one == IF Head(requests).ack = None THEN 0 ELSE 1
<1>1. /\ connected /\ requests # <<>> /\ requests' = Tail(requests)
      /\ server' = [started |-> TRUE, subscribed |-> subscribed,
                    known |-> [n \in Names |-> known(n)], unacked |-> server.unacked - one]
      /\ interest' = interest /\ sub' = sub /\ acks' = acks /\ pauses' = pauses
      /\ sendVersions' = sendVersions /\ connected' = connected /\ limited' = limited
      /\ delivering' = delivering /\ responses' = responses
      /\ resources' = resources /\ held' = held /\ switched' = switched /\ missed' = missed
      /\ counts' = counts
  BY DEF ServerReceives, clientVars
<1>2. /\ requests \in Seq(Requests) /\ Tail(requests) \in Seq(Requests)
      /\ Head(requests) = requests[1] /\ Head(requests) \in Requests
      /\ acks \in Seq(BOOLEAN) /\ responses \in Seq(Responses) /\ server \in Servers
  <2>1. /\ requests \in Seq(Requests) /\ acks \in Seq(BOOLEAN)
        /\ responses \in Seq(Responses) /\ server \in Servers
    BY DEF InterestInv, SentTyped, RestTyped
  <2> QED BY SMTT(30), <1>1, <2>1
<1>3. StreamOK(sub, requests, server)
  BY <1>1 DEF InterestInv
<1>4. /\ r.subscribe \in SUBSET AllNames /\ r.unsubscribe \in SUBSET AllNames
      /\ r.versions \in [Names -> 0..MaxVersion]
  BY <1>2 DEF Requests
<1>5. /\ server.subscribed \in SUBSET AllNames /\ server.unacked \in Int
      /\ server.known \in [Names -> Unknown..MaxVersion]
  BY <1>2 DEF Servers
<1>6. server.unacked - one \in Int
  BY SMTT(30), <1>5
<1>7. subscribed \in SUBSET AllNames
  BY <1>4, <1>5 DEF AllNames
<1>8. [n \in Names |-> known(n)] \in [Names -> Unknown..MaxVersion]
  <2>1. \A n \in Names : known(n) \in {r.versions[n], Unknown, 0, server.known[n]}
    OBVIOUS
  <2> HIDE DEF r, known
  <2> QED BY SMTT(30), <1>4, <1>5, <2>1, DeltaSubscriptionAssumption DEF Unknown
<1> HIDE DEF known
<1>9. server' \in Servers
  <2> HIDE DEF one, r, subscribed
  <2> QED BY <1>1, <1>6, <1>7, <1>8 DEF Servers
<1>10. SentTyped' /\ RestTyped'
  BY <1>1, <1>2, <1>9 DEF InterestInv, SentTyped, RestTyped
<1>11. server'.started /\ server'.subscribed = subscribed /\ server'.unacked = server.unacked - one
  BY <1>1
<1>12. SubscribedAfter(server', Tail(requests)) = SubscribedAfter(server, requests)
  <2>1. ~server.started => server.subscribed = {} /\ requests[1].body.unsubscribe = {}
    BY <1>1, <1>3 DEF StreamOK
  <2>2. server'.subscribed =
          IF ~server.started /\ requests[1].body.subscribe = {} THEN {Wildcard}
          ELSE (server.subscribed \cup requests[1].body.subscribe) \ requests[1].body.unsubscribe
    BY <1>2, <1>11
  <2>3. requests # <<>> /\ requests \in Seq(Requests) /\ server'.started
        /\ server.subscribed \in SUBSET AllNames
    BY <1>1, <1>2, <1>5, <1>11
  <2> HIDE DEF subscribed, r, first, one
  <2>4. ASSUME NEW next, next.started,
               next.subscribed =
                 IF ~server.started /\ requests[1].body.subscribe = {} THEN {Wildcard}
                 ELSE (server.subscribed \cup requests[1].body.subscribe)
                      \ requests[1].body.unsubscribe
        PROVE  SubscribedAfter(next, Tail(requests)) = SubscribedAfter(server, requests)
    BY <2>1, <2>3, <2>4, RequestRead
  <2> QED BY <2>2, <2>3, <2>4
<1>13. StreamOK(sub, requests, server)'
  <2>1. sub.sent /\ Learns(sub, requests, server)
    BY <1>1, <1>3 DEF StreamOK
  <2>2. sub'.sent /\ Learns(sub', requests', server')
    BY <1>1, <1>12, <2>1 DEF Learns
  <2> QED BY <1>11, <2>2 DEF StreamOK
<1> QED BY <1>1, <1>10, <1>13 DEF InterestInv

(* The server sends a response. *)
LEMMA ServerRespondsKeeps ==
  ASSUME InterestInv, NEW names \in SUBSET Names, NEW heartbeats \in SUBSET Names,
         ServerResponds(names, heartbeats)
  PROVE  InterestInv'
<1> DEFINE response ==
             [content |-> [n \in Names |-> IF n \in names \cup heartbeats THEN Offered(n) ELSE Absent],
              heartbeats |-> heartbeats]
           known == [n \in Names |-> IF n \in names THEN Offered(n) ELSE server.known[n]]
<1>1. /\ server' = [server EXCEPT !.unacked = @ + 1,
                      !.known = [n \in Names |-> IF n \in names THEN Offered(n) ELSE @[n]]]
      /\ responses' = Append(responses, response)
      /\ interest' = interest /\ sub' = sub /\ acks' = acks /\ pauses' = pauses
      /\ sendVersions' = sendVersions /\ connected' = connected /\ limited' = limited
      /\ delivering' = delivering /\ requests' = requests
      /\ resources' = resources /\ held' = held /\ switched' = switched /\ missed' = missed
  BY DEF ServerResponds, clientVars
<1>2. connected
  BY DEF ServerResponds
<1>3. counts' \in [Counted -> Nat]
  BY Counting DEF ServerResponds, InterestInv, RestTyped, Counted
<1>4. /\ server \in Servers /\ server.known \in [Names -> Unknown..MaxVersion]
      /\ server.unacked \in Int /\ resources \in [Names -> 0..MaxVersion]
      /\ responses \in Seq(Responses)
  BY DEF InterestInv, RestTyped, Servers
<1>5. \A n \in Names : Offered(n) \in 0..MaxVersion
  BY SMTT(30), <1>4, DeltaSubscriptionAssumption DEF Offered
<1>6. response \in Responses
  <2>1. response.content \in [Names -> Absent..MaxVersion]
    BY SMTT(30), <1>5, DeltaSubscriptionAssumption DEF Absent
  <2> QED BY <2>1 DEF Responses
<1>7. known \in [Names -> Unknown..MaxVersion]
  BY SMTT(30), <1>4, <1>5 DEF Unknown
<1>8. /\ server'.unacked = server.unacked + 1 /\ server'.started = server.started
      /\ server'.subscribed = server.subscribed
      /\ server' = [server EXCEPT !.unacked = server.unacked + 1, !.known = known]
  BY <1>1, <1>4 DEF Servers
<1>9. server.unacked + 1 \in Int
  BY SMTT(30), <1>4
<1> HIDE DEF response, known
<1>10. server' \in Servers
  BY <1>4, <1>7, <1>8, <1>9 DEF Servers
<1>11. responses' \in Seq(Responses)
  BY SMTT(30), <1>1, <1>4, <1>6
<1>12. SentTyped' /\ RestTyped'
  BY <1>1, <1>3, <1>10, <1>11 DEF InterestInv, SentTyped, RestTyped
<1>13. StreamOK(sub, requests, server)'
  <2>1. SubscribedAfter(server', requests) = SubscribedAfter(server, requests)
    BY <1>8 DEF SubscribedAfter
  <2>2. StreamOK(sub, requests, server)
    BY <1>2 DEF InterestInv
  <2> QED BY <1>1, <1>8, <2>1, <2>2 DEF StreamOK, Learns
<1> QED BY <1>1, <1>12, <1>13 DEF InterestInv

(* A resource of the server changes. *)
LEMMA ServerChangesKeeps ==
  ASSUME InterestInv, NEW n \in Names, NEW exists \in BOOLEAN, ServerChanges(n, exists)
  PROVE  InterestInv'
<1>1. /\ interest' = interest /\ sub' = sub /\ acks' = acks /\ pauses' = pauses
      /\ sendVersions' = sendVersions /\ connected' = connected /\ limited' = limited
      /\ delivering' = delivering /\ requests' = requests /\ responses' = responses
      /\ server' = server /\ held' = held /\ switched' = switched /\ missed' = missed
  BY DEF ServerChanges, clientVars
<1>2. counts' \in [Counted -> Nat]
  BY Counting DEF ServerChanges, InterestInv, RestTyped, Counted
<1>3. resources' \in [Names -> 0..MaxVersion]
  <2>1. resources \in [Names -> 0..MaxVersion] /\ counts["changes"] \in Nat
    BY DEF InterestInv, RestTyped, Counted
  <2>2. counts["changes"] + 2 \in 0..MaxVersion /\ 0 \in 0..MaxVersion
    BY SMTT(30), <2>1, DeltaSubscriptionAssumption, DeltaMuxAssumption DEF ServerChanges
  <2> QED BY <2>1, <2>2 DEF ServerChanges
<1>4. SentTyped' /\ RestTyped'
  BY <1>1, <1>2, <1>3 DEF InterestInv, SentTyped, RestTyped
<1>5. /\ SubOK(sub)' /\ Fits(sub, interest)'
      /\ (connected => StreamOK(sub, requests, server))'
  BY <1>1 DEF InterestInv
<1> QED BY <1>4, <1>5 DEF InterestInv

(* A new subscription asks for nothing. *)
LEMMA NewSubscriptionOK == SubOK(NewSubscription) /\ Requested(NewSubscription) = {}
<1>1. /\ NewSubscription.requested = [n \in AllNames |-> Absent]
      /\ NewSubscription.wildcard = [n \in Names |-> Absent]
      /\ NewSubscription.ambiguous = [n \in Names |-> Absent]
      /\ NewSubscription.added = {}
  BY DEF NewSubscription
<1>2. NewSubscription \in SubscriptionStates
  <2>1. /\ [n \in AllNames |-> Absent] \in [AllNames -> Absent..MaxVersion]
        /\ [n \in Names |-> Absent] \in [Names -> {Absent} \cup 1..MaxVersion]
    BY SMTT(30), DeltaSubscriptionAssumption DEF Absent
  <2> QED BY <2>1 DEF NewSubscription, SubscriptionStates
<1>3. Requested(NewSubscription) = {}
  BY <1>1 DEF Requested
<1>4. \A n \in Names : n \in AllNames
  BY DEF AllNames
<1>5. Disjoint(NewSubscription)
  BY <1>1, <1>4 DEF Disjoint
<1> QED BY <1>1, <1>2, <1>3, <1>5 DEF SubOK

(* What the queues and flags start with has their types. *)
LEMMA EmptyQueues ==
  /\ <<>> \in Seq(BOOLEAN) /\ <<>> \in Seq(Requests) /\ <<>> \in Seq(Responses)
  /\ TRUE \in BOOLEAN /\ FALSE \in BOOLEAN /\ {} \subseteq Names
BY SMTT(30)

(* The first watch makes the subscription. *)
LEMMA InitKeeps ==
  ASSUME Init
  PROVE  InterestInv
<1>0. PICK first \in Watches : \E names \in Interests[first] :
        /\ interest = [w \in Watches |-> IF w = first THEN names ELSE None]
        /\ sub = UpdateSubscriptionInterest(NewSubscription, names, {})
  BY DEF Init
<1>1. PICK names \in Interests[first] :
        /\ interest = [w \in Watches |-> IF w = first THEN names ELSE None]
        /\ sub = UpdateSubscriptionInterest(NewSubscription, names, {})
  BY <1>0
<1>2. names \in SUBSET AllNames /\ names # None
  BY DeltaMuxAssumption
<1>3. SubOK(NewSubscription) /\ Requested(NewSubscription) = {}
  BY NewSubscriptionOK
<1>4. SubOK(sub) /\ Requested(sub) = names
  <2>1. {} \in SUBSET AllNames /\ names \cap {} = {}
    OBVIOUS
  <2>2. SubOK(sub)
    BY <1>1, <1>2, <1>3, <2>1, InterestUpdated
  <2>3. \A n \in AllNames : sub.requested[n] = IF n \in names THEN Waiting ELSE Absent
    BY <1>1 DEF UpdateSubscriptionInterest, NewSubscription, AllNames
  <2> QED BY SMTT(30), <1>2, <2>2, <2>3 DEF Requested, Waiting, Absent
<1>5. interest \in [Watches -> (SUBSET AllNames) \cup {None}]
  BY <1>1, <1>2
<1>6. Fits(sub, interest)
  <2>1. \A n \in AllNames : Named(interest, n) # {} <=> n \in names
    BY <1>1, <1>2 DEF Named
  <2> QED BY <1>2, <1>4, <2>1 DEF Fits
<1>7. NewServer \in Servers
  BY SMTT(30), DeltaSubscriptionAssumption, DeltaMuxAssumption DEF NewServer, Servers, Unknown
<1>8. resources \in [Names -> 0..MaxVersion]
  BY SMTT(30), DeltaSubscriptionAssumption, DeltaMuxAssumption DEF Init
<1>9. SentTyped /\ RestTyped
  <2>1. counts \in [Counted -> Nat] /\ held \in [Watches -> SUBSET Names] /\ pauses \in 0..MaxPauses
    BY SMTT(30), DeltaMuxAssumption DEF Init
  <2> QED BY <1>5, <1>7, <1>8, <2>1, EmptyQueues DEF Init, SentTyped, RestTyped
<1> QED BY <1>4, <1>6, <1>9 DEF Init, InterestInv

-----------------------------------------------------------------------------
(* Acknowledgements *)

AcksIn(reqs) == {i \in DOMAIN reqs : reqs[i].ack # None}

(* Responses that have no acknowledgement yet *)
Unanswered == Len(responses) + (IF delivering = None THEN 0 ELSE 1)

AcksCounted ==
  connected => server.unacked = Unanswered + Len(acks) + Cardinality(AcksIn(requests))

Counts == server.unacked \in 0..MaxOutstanding /\ AcksCounted

IInv == InterestInv /\ Counts

(* The number of acknowledgements is a number. *)
LEMMA AcksFinite ==
  ASSUME NEW R, NEW reqs \in Seq(R)
  PROVE  IsFiniteSet(AcksIn(reqs)) /\ Cardinality(AcksIn(reqs)) \in Nat
<1>1. IsFiniteSet(1..Len(reqs))
  BY SMTT(30), FS_Interval
<1>2. AcksIn(reqs) \in SUBSET (1..Len(reqs))
  BY SMTT(30) DEF AcksIn
<1> QED BY <1>1, <1>2, FS_Subset, FS_CardinalityType

(* Sending n requests moves the first acknowledgements of a into them. *)
LEMMA AcksSent ==
  ASSUME NEW R, NEW reqs \in Seq(R), NEW new \in Seq(R), NEW k \in 0..Len(new),
         \A i \in 1..Len(new) : new[i].ack # None <=> i <= k
  PROVE  Cardinality(AcksIn(reqs \o new)) = Cardinality(AcksIn(reqs)) + k
<1> DEFINE L == Len(reqs)
           more == (L + 1)..(L + k)
<1>1. AcksIn(reqs \o new) = AcksIn(reqs) \cup more
  <2>1. /\ L \in Nat /\ Len(new) \in Nat /\ k \in Nat /\ k <= Len(new)
        /\ DOMAIN (reqs \o new) = 1..(L + Len(new)) /\ DOMAIN reqs = 1..L
        /\ \A i \in 1..L : (reqs \o new)[i] = reqs[i]
        /\ \A i \in (L + 1)..(L + Len(new)) :
             i - L \in 1..Len(new) /\ (reqs \o new)[i] = new[i - L]
    BY SMTT(30)
  <2>2. ASSUME NEW i \in 1..(L + Len(new))
        PROVE  (reqs \o new)[i].ack # None <=> i \in AcksIn(reqs) \cup more
    <3>1. CASE i \in 1..L
      BY SMTT(30), <2>1, <3>1 DEF AcksIn
    <3>2. CASE i \in (L + 1)..(L + Len(new))
      <4>1. (reqs \o new)[i].ack # None <=> i - L <= k
        BY <2>1, <3>2
      <4>2. i \notin AcksIn(reqs)
        BY SMTT(30), <2>1, <3>2 DEF AcksIn
      <4> QED BY SMTT(30), <2>1, <3>2, <4>1, <4>2
    <3> QED BY SMTT(30), <2>1, <3>1, <3>2
  <2>3. AcksIn(reqs) \cup more \subseteq 1..(L + Len(new))
    BY SMTT(30), <2>1 DEF AcksIn
  <2> HIDE DEF more
  <2> QED BY <2>1, <2>2, <2>3 DEF AcksIn
<1>2. AcksIn(reqs) \cap more = {}
  BY SMTT(30) DEF AcksIn
<1>3. IsFiniteSet(more) /\ Cardinality(more) = k
  BY SMTT(30), FS_Interval
<1>4. Cardinality(AcksIn(reqs) \cap more) = 0
  BY <1>2, FS_EmptySet
<1>5. Cardinality(AcksIn(reqs) \cup more) =
        Cardinality(AcksIn(reqs)) + Cardinality(more) - Cardinality(AcksIn(reqs) \cap more)
  <2> HIDE DEF more
  <2> QED BY <1>3, AcksFinite, FS_Union
<1> HIDE DEF more
<1> QED BY SMTT(30), <1>1, <1>3, <1>4, <1>5, AcksFinite

(* The server takes the acknowledgement of the request it reads. *)
LEMMA AckRead ==
  ASSUME NEW reqs \in Seq(Requests), reqs # <<>>
  PROVE  Cardinality(AcksIn(reqs)) =
           Cardinality(AcksIn(Tail(reqs))) + (IF reqs[1].ack = None THEN 0 ELSE 1)
<1> DEFINE rest == AcksIn(reqs) \ {1}
           shift == [i \in AcksIn(Tail(reqs)) |-> i + 1]
<1>1. Tail(reqs) \in Seq(Requests)
  BY SMTT(30)
<1>2. /\ \A i \in AcksIn(Tail(reqs)) : i \in Nat /\ i + 1 \in rest
      /\ \A i \in rest : i - 1 \in AcksIn(Tail(reqs)) /\ (i - 1) + 1 = i
  BY SMTT(30) DEF AcksIn
<1>3. shift \in Bijection(AcksIn(Tail(reqs)), rest)
  <2> HIDE DEF rest
  <2>1. shift \in [AcksIn(Tail(reqs)) -> rest]
    BY <1>2
  <2>2. \A i, j \in AcksIn(Tail(reqs)) : shift[i] = shift[j] => i = j
    BY SMTT(30), <1>2
  <2>3. \A j \in rest : \E i \in AcksIn(Tail(reqs)) : shift[i] = j
    BY <1>2
  <2> QED BY <2>1, <2>2, <2>3 DEF Bijection, Injection, IsInjective, Surjection
<1>4. Cardinality(rest) = Cardinality(AcksIn(Tail(reqs)))
  <2> HIDE DEF rest, shift
  <2>1. ExistsBijection(AcksIn(Tail(reqs)), rest)
    BY <1>3 DEF ExistsBijection
  <2>2. IsFiniteSet(AcksIn(Tail(reqs)))
    BY <1>1, AcksFinite
  <2> QED BY <2>1, <2>2, FS_Bijection
<1>5. Cardinality(rest) =
        IF 1 \in AcksIn(reqs) THEN Cardinality(AcksIn(reqs)) - 1 ELSE Cardinality(AcksIn(reqs))
  <2>1. IsFiniteSet(AcksIn(reqs))
    BY AcksFinite
  <2> QED BY <2>1, FS_RemoveElement
<1>6. 1 \in AcksIn(reqs) <=> reqs[1].ack # None
  BY SMTT(30) DEF AcksIn
<1> HIDE DEF rest
<1> QED BY SMTT(30), <1>1, <1>4, <1>5, <1>6, AcksFinite

(* trySendDiscoveryRequests loses no acknowledgement. *)
LEMMA AcksMove ==
  ASSUME NEW s, NEW a \in Seq(BOOLEAN), NEW r \in Seq(Requests), TrySendDiscoveryRequests(s, a, r)
  PROVE  /\ Len(acks') + Cardinality(AcksIn(requests')) = Len(a) + Cardinality(AcksIn(r))
         /\ Len(acks') \in Nat /\ Cardinality(AcksIn(requests')) \in Nat
<1>1. PICK n \in Nat :
        /\ n <= Len(a) \/ (a = <<>> /\ n = 1)
        /\ requests' = r \o [i \in 1..n |-> Request(s, a, i)]
        /\ acks' = SubSeq(a, n + 1, Len(a))
        /\ sub' = IF n = 0 THEN s ELSE AfterRequest(s)
        /\ limited' \in BOOLEAN
  BY RequestsMade
<1> DEFINE new == [i \in 1..n |-> Request(s, a, i)]
           R == Requests \cup {Request(s, a, i) : i \in 1..n}
           k == IF a = <<>> THEN 0 ELSE n
<1>2. new \in Seq(R) /\ Len(new) = n /\ r \in Seq(R)
  <2>1. \A i \in 1..n : Request(s, a, i) \in R
    OBVIOUS
  <2>2. Requests \subseteq R
    OBVIOUS
  <2> HIDE DEF R
  <2> QED BY SMTT(30), <2>1, <2>2
<1> HIDE DEF R
<1>3. k \in 0..Len(new)
  BY SMTT(30), <1>2
<1>4. ASSUME NEW i \in 1..Len(new) PROVE new[i].ack # None <=> i <= k
  <2>1. i \in 1..n /\ new[i] = Request(s, a, i)
    BY SMTT(30), <1>2
  <2>2. new[i].ack = IF i \in DOMAIN a THEN a[i] ELSE None
    BY <2>1 DEF Request
  <2>3. CASE a = <<>>
    <3>1. i \notin DOMAIN a /\ ~(i <= k)
      BY SMTT(30), <2>1, <2>3
    <3> QED BY <2>2, <3>1
  <2>4. CASE a # <<>>
    <3>1. i \in DOMAIN a /\ a[i] \in BOOLEAN /\ i <= k
      BY SMTT(30), <1>1, <2>1, <2>4
    <3>2. a[i] # None
      BY <3>1, DeltaMuxAssumption
    <3> QED BY <2>2, <3>1, <3>2
  <2> QED BY <2>3, <2>4
<1>5. Cardinality(AcksIn(r \o new)) = Cardinality(AcksIn(r)) + k
  <2> HIDE DEF new, k
  <2> QED BY <1>2, <1>3, <1>4, AcksSent
<1>6. Len(acks') = Len(a) - k /\ Len(acks') \in Nat
  <2>1. CASE a = <<>>
    <3>1. n + 1 > Len(a) /\ Len(a) = 0
      BY SMTT(30), <2>1
    <3>2. SubSeq(a, n + 1, Len(a)) = <<>>
      BY SMTT(30), <2>1, <3>1
    <3> QED BY SMTT(30), <1>1, <2>1, <3>1, <3>2
  <2>2. CASE a # <<>>
    <3>1. n <= Len(a) /\ n + 1 \in 1..(Len(a) + 1)
      BY SMTT(30), <1>1, <2>2
    <3>2. Len(SubSeq(a, n + 1, Len(a))) = Len(a) - n
      BY SMTT(30), <3>1
    <3>3. Len(acks') = Len(a) - n /\ k = n
      BY <1>1, <2>2, <3>2
    <3> HIDE DEF k
    <3> QED BY SMTT(30), <3>1, <3>3
  <2> QED BY <2>1, <2>2
<1>7. requests' \in Seq(R)
  <2> HIDE DEF new
  <2> QED BY SMTT(30), <1>1, <1>2 DEF new
<1> HIDE DEF new, k
<1>8. Cardinality(AcksIn(r)) \in Nat /\ Cardinality(AcksIn(requests')) \in Nat
  BY <1>7, AcksFinite
<1>9. Cardinality(AcksIn(requests')) = Cardinality(AcksIn(r)) + k
  BY <1>1, <1>5 DEF new
<1>10. k \in Nat
  BY SMTT(30), <1>2, <1>3
<1> QED BY SMTT(30), <1>6, <1>8, <1>9, <1>10

(* What leaves the responses comes to the acknowledgements to send. *)
LEMMA CountsMove ==
  ASSUME IInv, NEW s, NEW a \in Seq(BOOLEAN), TrySendDiscoveryRequests(s, a, requests),
         connected' = connected, server' = server,
         Unanswered' \in Nat, Unanswered' + Len(a) = Unanswered + Len(acks)
  PROVE  Counts'
<1>1. requests \in Seq(Requests) /\ acks \in Seq(BOOLEAN)
  BY DEF IInv, InterestInv, SentTyped
<1>2. /\ Len(acks') + Cardinality(AcksIn(requests')) = Len(a) + Cardinality(AcksIn(requests))
      /\ Len(acks') \in Nat /\ Cardinality(AcksIn(requests')) \in Nat
  BY <1>1, AcksMove
<1>3. Cardinality(AcksIn(requests)) \in Nat /\ Len(acks) \in Nat /\ Len(a) \in Nat
  BY SMTT(30), <1>1, AcksFinite
<1>4. Unanswered \in Nat
  BY SMTT(30) DEF IInv, InterestInv, RestTyped, Unanswered
<1>5. CASE connected
  <2>1. server.unacked = Unanswered + Len(acks) + Cardinality(AcksIn(requests))
    BY <1>5 DEF IInv, Counts, AcksCounted
  <2>2. server.unacked = Unanswered' + Len(acks') + Cardinality(AcksIn(requests'))
    <3> DEFINE u == Unanswered    u1 == Unanswered'
               k == Len(acks)     k1 == Len(acks')    m == Len(a)
               c == Cardinality(AcksIn(requests))    c1 == Cardinality(AcksIn(requests'))
    <3>0. /\ u \in Nat /\ u1 \in Nat /\ k \in Nat /\ k1 \in Nat /\ m \in Nat
          /\ c \in Nat /\ c1 \in Nat /\ u1 + m = u + k /\ k1 + c1 = m + c
      BY <1>2, <1>3, <1>4
    <3>1. u + k + c = u1 + k1 + c1
      <4> HIDE DEF u, u1, k, k1, m, c, c1
      <4> QED BY SMTT(30), <3>0
    <3> QED BY <2>1, <3>1
  <2> QED BY <2>2 DEF IInv, Counts, AcksCounted
<1>6. CASE ~connected
  BY <1>6 DEF IInv, Counts, AcksCounted
<1> QED BY <1>5, <1>6

(* A step that neither answers nor acknowledges anything *)
LEMMA CountsStay ==
  ASSUME IInv, connected' = connected, server' = server, acks' = acks, requests' = requests,
         Unanswered' = Unanswered
  PROVE  Counts'
  BY DEF IInv, Counts, AcksCounted

(* The operations that send, and answer nothing *)
LEMMA SendingCounts ==
  ASSUME IInv,
         \/ OnWriteable \/ Resume \/ OnDynamicContextUpdate
         \/ \E w \in Watches : (\E names \in Interests[w] : UpdateWatch(w, names)) \/ RemoveWatch(w)
  PROVE  Counts'
<1>1. connected' = connected /\ server' = server /\ responses' = responses
  BY
  DEF OnWriteable, Resume, OnDynamicContextUpdate, UpdateWatch, RemoveWatch, serverVars
<1>2. delivering' = None <=> delivering = None
  <2>1. CASE OnWriteable \/ Resume \/ OnDynamicContextUpdate
    BY <2>1 DEF OnWriteable, Resume, OnDynamicContextUpdate
  <2>2. CASE \E w \in Watches : \E names \in Interests[w] : UpdateWatch(w, names)
    BY <2>2 DEF UpdateWatch
  <2>3. ASSUME NEW w \in Watches, RemoveWatch(w) PROVE delivering' = None <=> delivering = None
    <3>1. CASE delivering # None
      <4>1. delivering \in Deliveries /\ None \notin Deliveries
        <5>1. delivering \in Deliveries
          BY <3>1 DEF IInv, InterestInv, RestTyped
        <5> QED BY <5>1, DeltaMuxAssumption
      <4>2. delivering' = [delivering EXCEPT !.todo[w] = {}]
        BY <2>3, <3>1 DEF RemoveWatch
      <4> QED BY <3>1, <4>1, <4>2, StillDelivering
    <3> QED BY <2>3, <3>1 DEF RemoveWatch
  <2> QED BY <2>1, <2>2, <2>3
<1>3. Unanswered' = Unanswered /\ Unanswered \in Nat
  BY SMTT(30), <1>1, <1>2 DEF IInv, InterestInv, RestTyped, Unanswered
<1>4. \/ \E t : TrySendDiscoveryRequests(t, acks, requests)
      \/ acks' = acks /\ requests' = requests
  <2>1. CASE OnWriteable \/ Resume \/ OnDynamicContextUpdate
    BY <2>1 DEF OnWriteable, Resume, OnDynamicContextUpdate
  <2>2. ASSUME NEW w, NEW names, UpdateInterest(w, names)
        PROVE  \/ \E t : TrySendDiscoveryRequests(t, acks, requests)
               \/ acks' = acks /\ requests' = requests
    BY <2>2 DEF UpdateInterest
  <2>3. CASE \E w \in Watches : (\E names \in Interests[w] : UpdateWatch(w, names)) \/ RemoveWatch(w)
    <3>1. \E w, names : UpdateInterest(w, names)
      BY <2>3 DEF UpdateWatch, RemoveWatch
    <3> QED BY <2>2, <3>1
  <2> QED BY <2>1, <2>3
<1>5. acks \in Seq(BOOLEAN)
  BY DEF IInv, InterestInv, SentTyped
<1>6. Unanswered' \in Nat /\ Unanswered' + Len(acks) = Unanswered + Len(acks)
  BY <1>3
<1>7. ASSUME NEW t, TrySendDiscoveryRequests(t, acks, requests) PROVE Counts'
  BY <1>1, <1>5, <1>6, <1>7, CountsMove
<1> QED BY <1>1, <1>3, <1>4, <1>7, CountsStay

(* A response that is refused, fails or is delivered is answered by one    *)
(* acknowledgement.                                                        *)
LEMMA AnswerCounts ==
  ASSUME IInv, RefuseResponse \/ EndResponse \/ \E w \in Watches : FailTo(w)
  PROVE  Counts'
<1>1. connected' = connected /\ server' = server /\ delivering' = None
  BY DEF RefuseResponse, EndResponse, FailTo, Reject, serverVars
<1>2. \/ delivering = None /\ responses # <<>> /\ responses' = Tail(responses)
      \/ delivering # None /\ responses' = responses
  BY DEF RefuseResponse, EndResponse, FailTo
<1>3. responses \in Seq(Responses) /\ acks \in Seq(BOOLEAN)
  BY DEF IInv, InterestInv, SentTyped, RestTyped
<1>4. Unanswered' \in Nat /\ Unanswered' + 1 = Unanswered
  BY SMTT(30), <1>1, <1>2, <1>3 DEF Unanswered
<1>5. \E t : \E ok \in BOOLEAN : KickOffAck(t, ok)
  BY DEF RefuseResponse, EndResponse, FailTo, Reject
<1>6. PICK t : \E ok \in BOOLEAN : KickOffAck(t, ok)
  BY <1>5
<1>7. PICK ok \in BOOLEAN : KickOffAck(t, ok)
  BY <1>6
<1> DEFINE a == Append(acks, ok)
<1>8. a \in Seq(BOOLEAN) /\ Len(a) = Len(acks) + 1 /\ Len(acks) \in Nat
  BY SMTT(30), <1>3
<1>9. TrySendDiscoveryRequests(t, a, requests)
  BY <1>7 DEF KickOffAck
<1> HIDE DEF a
<1>10. Unanswered' + Len(a) = Unanswered + Len(acks)
  BY SMTT(30), <1>4, <1>8
<1> QED BY <1>1, <1>4, <1>8, <1>9, <1>10, CountsMove

(* Delivering a response does not answer it yet. *)
LEMMA DeliveryCounts ==
  ASSUME IInv, BeginResponse \/ \E w \in Watches : DeliverTo(w)
  PROVE  Counts'
<1>1. /\ connected' = connected /\ server' = server /\ acks' = acks /\ requests' = requests
  BY DEF BeginResponse, DeliverTo, serverVars
<1>2. responses \in Seq(Responses)
  BY DEF IInv, InterestInv, RestTyped
<1>3. Unanswered' = Unanswered
  <2>1. CASE BeginResponse
    <3>1. /\ delivering = None /\ responses # <<>> /\ responses' = Tail(responses)
      BY <2>1 DEF BeginResponse
    <3>2. delivering' # None
      <4>1. delivering' \in Deliveries
        BY <2>1, BeginResponseKeeps DEF IInv
      <4> QED BY <4>1, DeltaMuxAssumption
    <3> QED BY SMTT(30), <1>2, <3>1, <3>2 DEF Unanswered
  <2>2. ASSUME NEW w \in Watches, DeliverTo(w) PROVE Unanswered' = Unanswered
    <3>1. delivering # None /\ responses' = responses
          /\ delivering' = [delivering EXCEPT !.todo[w] = {}]
      BY <2>2 DEF DeliverTo
    <3>2. delivering' # None
      <4>1. delivering \in Deliveries /\ None \notin Deliveries
        BY <3>1, DeltaMuxAssumption DEF IInv, InterestInv, RestTyped
      <4> QED BY <3>1, <4>1, StillDelivering
    <3> QED BY <3>1, <3>2 DEF Unanswered
  <2> QED BY <2>1, <2>2
<1> QED BY <1>1, <1>3, CountsStay

(* A new stream begins with nothing to answer. *)
LEMMA StreamCounts ==
  ASSUME IInv, EstablishNewStream \/ UpdateMuxSource
  PROVE  Counts'
<1>1. /\ TrySendDiscoveryRequests(MarkStreamFresh(sub, sendVersions), <<>>, <<>>)
      /\ responses' = <<>> /\ server' = NewServer /\ delivering' = None
  BY DEF EstablishNewStream, UpdateMuxSource, OnStreamEstablished
<1>2. <<>> \in Seq(BOOLEAN) /\ <<>> \in Seq(Requests) /\ Len(<<>>) = 0
  BY SMTT(30)
<1>3. /\ Len(acks') + Cardinality(AcksIn(requests')) = Len(<<>>) + Cardinality(AcksIn(<<>>))
      /\ Len(acks') \in Nat /\ Cardinality(AcksIn(requests')) \in Nat
  BY <1>1, <1>2, AcksMove
<1>4. AcksIn(<<>>) = {}
  BY SMTT(30) DEF AcksIn
<1>5. Cardinality(AcksIn(<<>>)) = 0
  BY <1>4, FS_EmptySet
<1>6. Unanswered' = 0
  BY SMTT(30), <1>1 DEF Unanswered
<1>7. server'.unacked = 0
  BY <1>1 DEF NewServer
<1>8. server'.unacked = Unanswered' + Len(acks') + Cardinality(AcksIn(requests'))
  BY SMTT(30), <1>2, <1>3, <1>5, <1>6, <1>7
<1>9. 0 \in 0..MaxOutstanding
  BY SMTT(30), DeltaMuxAssumption
<1> QED BY <1>7, <1>8, <1>9 DEF Counts, AcksCounted

(* The server takes an acknowledgement for one of its responses. *)
LEMMA ReceiptCounts ==
  ASSUME IInv, ServerReceives
  PROVE  Counts'
<1> DEFINE one == IF requests[1].ack = None THEN 0 ELSE 1
<1>1. /\ connected /\ requests # <<>> /\ requests' = Tail(requests)
      /\ server'.unacked = server.unacked - (IF Head(requests).ack = None THEN 0 ELSE 1)
      /\ acks' = acks /\ delivering' = delivering /\ responses' = responses
  BY DEF ServerReceives, clientVars
<1>2. /\ requests \in Seq(Requests) /\ Tail(requests) \in Seq(Requests)
      /\ Head(requests) = requests[1]
      /\ acks \in Seq(BOOLEAN) /\ responses \in Seq(Responses)
  BY SMTT(30), <1>1 DEF IInv, InterestInv, SentTyped, RestTyped
<1>3. server'.unacked = server.unacked - one
  BY <1>1, <1>2
<1>4. Cardinality(AcksIn(requests)) = Cardinality(AcksIn(Tail(requests))) + one
  BY <1>1, <1>2, AckRead
<1>5. Cardinality(AcksIn(Tail(requests))) \in Nat
  BY <1>2, AcksFinite
<1>6. Len(acks) \in Nat /\ Unanswered \in Nat /\ Unanswered' = Unanswered
  BY SMTT(30), <1>1, <1>2 DEF Unanswered
<1>7. /\ server.unacked = Unanswered + Len(acks) + Cardinality(AcksIn(requests))
      /\ server.unacked \in 0..MaxOutstanding
  BY <1>1 DEF IInv, Counts, AcksCounted
<1>8. one \in {0, 1}
  OBVIOUS
<1> HIDE DEF one
<1>9. server.unacked - one = Unanswered + Len(acks) + Cardinality(AcksIn(Tail(requests)))
  BY SMTT(30), <1>4, <1>5, <1>6, <1>7, <1>8
<1>10. server.unacked - one \in 0..MaxOutstanding
  BY SMTT(30), <1>5, <1>6, <1>7, <1>8, <1>9, DeltaMuxAssumption
<1> QED BY <1>1, <1>3, <1>6, <1>9, <1>10 DEF Counts, AcksCounted

(* The server counts a response it sends. *)
LEMMA ResponseCounts ==
  ASSUME IInv, NEW names \in SUBSET Names, NEW heartbeats \in SUBSET Names,
         ServerResponds(names, heartbeats)
  PROVE  Counts'
<1>1. /\ connected /\ server.unacked < MaxOutstanding
      /\ acks' = acks /\ delivering' = delivering /\ requests' = requests
  BY DEF ServerResponds, clientVars
<1>2. server \in Servers /\ responses \in Seq(Responses) /\ acks \in Seq(BOOLEAN)
  BY DEF IInv, InterestInv, SentTyped, RestTyped
<1>3. server'.unacked = server.unacked + 1
  BY <1>2 DEF ServerResponds, Servers
<1>4. Len(responses') = Len(responses) + 1
  BY SMTT(30), <1>2 DEF ServerResponds
<1>5. Unanswered \in Nat /\ Unanswered' = Unanswered + 1
  BY SMTT(30), <1>1, <1>2, <1>4 DEF Unanswered
<1>6. Len(acks) \in Nat /\ Cardinality(AcksIn(requests)) \in Nat
  <2>1. requests \in Seq(Requests)
    BY DEF IInv, InterestInv, SentTyped
  <2> QED BY SMTT(30), <1>2, <2>1, AcksFinite
<1>7. /\ server.unacked = Unanswered + Len(acks) + Cardinality(AcksIn(requests))
      /\ server.unacked \in 0..MaxOutstanding
  BY <1>1 DEF IInv, Counts, AcksCounted
<1>8. server.unacked + 1 = Unanswered' + Len(acks) + Cardinality(AcksIn(requests))
  BY SMTT(30), <1>5, <1>6, <1>7
<1>9. server.unacked + 1 \in 0..MaxOutstanding
  BY SMTT(30), <1>1, <1>7, DeltaMuxAssumption
<1> QED BY <1>1, <1>3, <1>8, <1>9 DEF Counts, AcksCounted

(* The other steps do not touch what is counted. *)
LEMMA OtherCounts ==
  ASSUME IInv,
         \/ Pause \/ UNCHANGED vars
         \/ \E n \in Names : TtlExpired(n) \/ \E exists \in BOOLEAN : ServerChanges(n, exists)
         \/ \E same \in BOOLEAN : EstablishNewStreamFails(same)
  PROVE  Counts'
<1>1. /\ connected' = connected /\ server' = server /\ acks' = acks /\ requests' = requests
      /\ responses' = responses /\ delivering' = delivering
  BY
  DEF Pause, TtlExpired, ServerChanges, EstablishNewStreamFails, clientVars, serverVars, vars
<1>2. Unanswered' = Unanswered
  BY <1>1 DEF Unanswered
<1> QED BY <1>1, <1>2, CountsStay

(* GrpcStream::onRemoteClose: what was not answered is lost with the       *)
(* stream.                                                                 *)
LEMMA CloseCounts ==
  ASSUME IInv, NEW same \in BOOLEAN, OnRemoteClose(same)
  PROVE  Counts'
  BY DEF IInv, Counts, AcksCounted, OnRemoteClose, serverVars

-----------------------------------------------------------------------------
(* The theorems *)

(* Every step of the client, the stream and the server keeps what the      *)
(* server learns in step with what the watches want.                       *)
LEMMA NextKeepsInterest ==
  ASSUME InterestInv, [Next]_vars
  PROVE  InterestInv'
<1>1. CASE OnWriteable \/ Pause \/ Resume \/ OnDynamicContextUpdate
  BY <1>1, OnWriteableKeeps, PauseKeeps, ResumeKeeps, OnDynamicContextUpdateKeeps
<1>2. CASE \E w \in Watches : \/ \E names \in Interests[w] : UpdateWatch(w, names)
                              \/ RemoveWatch(w) \/ DeliverTo(w) \/ FailTo(w)
  BY <1>2, UpdateWatchKeeps, RemoveWatchKeeps, DeliverToKeeps, FailToKeeps
<1>3. CASE RefuseResponse \/ BeginResponse \/ EndResponse
  BY <1>3, RefuseResponseKeeps, BeginResponseKeeps, EndResponseKeeps
<1>4. CASE \E n \in Names : TtlExpired(n)
  BY <1>4, TtlExpiredKeeps
<1>5. CASE EstablishNewStream \/ UpdateMuxSource
  BY <1>5, EstablishNewStreamKeeps, UpdateMuxSourceKeeps
<1>6. CASE \E same \in BOOLEAN : EstablishNewStreamFails(same) \/ OnRemoteClose(same)
  BY <1>6, EstablishNewStreamFailsKeeps, OnRemoteCloseKeeps
<1>7. CASE ServerReceives
  BY <1>7, ServerReceivesKeeps
<1>8. CASE \E names, heartbeats \in SUBSET Names : ServerResponds(names, heartbeats)
  BY <1>8, ServerRespondsKeeps
<1>9. CASE \E n \in Names, exists \in BOOLEAN : ServerChanges(n, exists)
  BY <1>9, ServerChangesKeeps
<1>10. CASE UNCHANGED vars
  BY <1>10
  DEF vars, clientVars, serverVars, InterestInv, SentTyped, RestTyped
<1> QED BY <1>1, <1>2, <1>3, <1>4, <1>5, <1>6, <1>7, <1>8, <1>9, <1>10 DEF Next

(* Every step keeps the count of the responses and their acknowledgements. *)
LEMMA NextKeepsCounts ==
  ASSUME IInv, [Next]_vars
  PROVE  Counts'
<1>1. CASE OnWriteable \/ Resume \/ OnDynamicContextUpdate
  BY <1>1, SendingCounts
<1>2. CASE \E w \in Watches : (\E names \in Interests[w] : UpdateWatch(w, names)) \/ RemoveWatch(w)
  BY <1>2, SendingCounts
<1>3. CASE RefuseResponse \/ EndResponse \/ \E w \in Watches : FailTo(w)
  BY <1>3, AnswerCounts
<1>4. CASE BeginResponse \/ \E w \in Watches : DeliverTo(w)
  BY <1>4, DeliveryCounts
<1>5. CASE EstablishNewStream \/ UpdateMuxSource
  BY <1>5, StreamCounts
<1>6. CASE Pause \/ UNCHANGED vars \/ \E n \in Names : TtlExpired(n)
  BY <1>6, OtherCounts
<1>7. CASE \E same \in BOOLEAN : EstablishNewStreamFails(same) \/ OnRemoteClose(same)
  BY <1>7, OtherCounts, CloseCounts
<1>8. CASE ServerReceives
  BY <1>8, ReceiptCounts
<1>9. CASE \E names, heartbeats \in SUBSET Names : ServerResponds(names, heartbeats)
  BY <1>9, ResponseCounts
<1>10. CASE \E n \in Names, exists \in BOOLEAN : ServerChanges(n, exists)
  BY <1>10, OtherCounts
<1> QED BY <1>1, <1>2, <1>3, <1>4, <1>5, <1>6, <1>7, <1>8, <1>9, <1>10 DEF Next

(* The invariant holds in every state of the client, the stream and the    *)
(* server.                                                                 *)
THEOREM Invariance == Spec => []IInv
<1>1. ASSUME Init PROVE IInv
  <2>1. Counts
    <3>1. server.unacked = 0 /\ ~connected
      BY <1>1 DEF Init, NewServer
    <3>2. 0 \in 0..MaxOutstanding
      BY SMTT(30), DeltaMuxAssumption
    <3> QED BY <3>1, <3>2 DEF Counts, AcksCounted
  <2> QED BY <1>1, <2>1, InitKeeps DEF IInv
<1>2. ASSUME IInv, [Next]_vars PROVE IInv'
  BY <1>2, NextKeepsInterest, NextKeepsCounts DEF IInv
<1> QED BY <1>1, <1>2, PTL DEF Spec

(* The variables keep their types; the server never has more responses to  *)
(* be acknowledged than it allows itself, nor fewer than none.             *)
THEOREM TypeCorrect == Spec => []TypeOK
<1>1. ASSUME IInv PROVE TypeOK
  <2>1. InterestInv /\ server.unacked \in 0..MaxOutstanding
    BY <1>1 DEF IInv, Counts
  <2>2. server.known \in [Names -> Unknown..MaxVersion]
    BY <2>1 DEF InterestInv, RestTyped, Servers
  <2> QED BY <2>1, <2>2 DEF InterestInv, SentTyped, RestTyped, SubOK, TypeOK
<1> QED BY <1>1, Invariance, PTL

(* The ASSERTs of DeltaSubscriptionState after every move of a resource: a *)
(* name is requested, or a wildcard resource, or ambiguous.                *)
THEOREM CategoriesStayDisjoint == Spec => []CategoriesAreDisjoint
<1>1. ASSUME IInv PROVE CategoriesAreDisjoint
  BY <1>1 DEF IInv, InterestInv, SubOK, Disjoint, CategoriesAreDisjoint
<1> QED BY <1>1, Invariance, PTL

(* requested_resource_state_ has the names of the watches of WatchMap, and *)
(* at most the wildcard on top, through every update of interest.          *)
THEOREM RequestedStaysInterest == Spec => []RequestedIsInterest
<1>1. ASSUME IInv PROVE RequestedIsInterest
  BY <1>1 DEF IInv, InterestInv, Fits, RequestedIsInterest
<1> QED BY <1>1, Invariance, PTL

(* Nothing that updateSubscriptionInterest and getNextRequestAckless do    *)
(* between two requests is lost to the server, on any stream.              *)
THEOREM ServerAlwaysLearnsInterest == Spec => []ServerLearnsInterest
<1>1. ASSUME IInv PROVE ServerLearnsInterest
  BY <1>1 DEF IInv, InterestInv, StreamOK, Learns, ServerLearnsInterest
<1> QED BY <1>1, Invariance, PTL

(* kickOffAck and the ack queue: every response the server has sent on     *)
(* this stream is answered once, through rate limits, pauses and failures. *)
THEOREM ResponsesAreAcked == Spec => []EveryResponseIsAcked
<1>1. ASSUME IInv PROVE EveryResponseIsAcked
  BY <1>1 DEF IInv, Counts, AcksCounted, Unanswered, AcksIn, EveryResponseIsAcked
<1> QED BY <1>1, Invariance, PTL

=============================================================================
