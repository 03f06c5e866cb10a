--------------------------- MODULE ConnPoolBooks ----------------------------
(***************************************************************************)
(* The books of the connection pool, for every number of clients, streams, *)
(* limits and settings: what a change of one client does to the sums and   *)
(* counters, from its creation to the end of its connection, and what the  *)
(* invariants say of a single state.                                       *)
(***************************************************************************)
EXTENDS ConnPoolStack, FiniteSetTheorems

(* Leaves are given to the Zenon prover, for at most 30 s, unless they name another. *)
USE ZenonT(30)

-----------------------------------------------------------------------------
(* Sums of capacities, as sizes of sets of units *)

UnitsOf(cap, S) == UNION {{c} \X (1..cap[c]) : c \in S}

(* What client c adds to the size of UnitsOf(cap, S). *)
Share(cap, S, c) == IF c \in S THEN cap[c] ELSE 0

(* The capacities of finitely many clients add up to a finite set of units. *)
LEMMA UnitsFinite ==
  ASSUME NEW S, IsFiniteSet(S), NEW cap, \A c \in S : cap[c] \in Nat
  PROVE  IsFiniteSet(UnitsOf(cap, S))
<1> DEFINE F(c) == {c} \X (1..cap[c])
           Fs == {F(c) : c \in S}
<1>1. IsFiniteSet(Fs)
  <2>1. [c \in S |-> F(c)] \in Surjection(S, Fs)
    BY DEF Surjection
  <2> QED
    <3> HIDE DEF Fs, F
    <3> QED BY <2>1, FS_Surjection
<1>2. ASSUME NEW T \in Fs PROVE IsFiniteSet(T)
  <2>1. PICK c \in S : T = {c} \X (1..cap[c])
    BY <1>2
  <2>2. IsFiniteSet({c})
    BY FS_Singleton
  <2>3. IsFiniteSet(1..cap[c])
    <3>1. 1 \in Int /\ cap[c] \in Int
      BY SMTT(30)
    <3> QED BY <3>1, FS_Interval
  <2> QED BY <2>1, <2>2, <2>3, FS_Product
<1>3. IsFiniteSet(UNION Fs)
  <2> HIDE DEF Fs
  <2> QED BY <1>1, <1>2, FS_UNION
<1> QED BY <1>3 DEF UnitsOf

(* A client outside S adds its capacity. *)
LEMMA UnitsAdd ==
  ASSUME NEW S, IsFiniteSet(S), NEW cap, NEW c, c \notin S,
         \A d \in S \cup {c} : cap[d] \in Nat
  PROVE  Cardinality(UnitsOf(cap, S \cup {c})) = Cardinality(UnitsOf(cap, S)) + cap[c]
<1> DEFINE own == {c} \X (1..cap[c])
           rest == UnitsOf(cap, S)
<1>1. UnitsOf(cap, S \cup {c}) = rest \cup own
  BY DEF UnitsOf
<1>2. rest \cap own = {}
  BY SMTT(30) DEF UnitsOf
<1>3. IsFiniteSet(rest)
  BY UnitsFinite
<1>4. IsFiniteSet({c}) /\ Cardinality({c}) = 1
  BY FS_Singleton
<1>5. IsFiniteSet(1..cap[c]) /\ Cardinality(1..cap[c]) = cap[c]
  BY SMTT(30), FS_Interval
<1>6. IsFiniteSet(own) /\ Cardinality(own) = cap[c]
  BY SMTT(30), <1>4, <1>5, FS_Product
<1>7. Cardinality(rest \cap own) = 0
  BY <1>2, FS_EmptySet
<1>8. Cardinality(rest \cup own) = Cardinality(rest) + Cardinality(own) - Cardinality(rest \cap own)
  <2> HIDE DEF own, rest
  <2> QED BY <1>3, <1>6, FS_Union
<1>9. Cardinality(rest) \in Nat
  BY <1>3, FS_CardinalityType
<1>10. Cardinality(rest \cup own) = Cardinality(rest) + cap[c]
  <2> HIDE DEF own, rest
  <2> QED BY SMTT(30), <1>6, <1>7, <1>8, <1>9
<1> QED BY <1>1, <1>10

(* A sum splits into the share of one client and a rest that no change of  *)
(* that client alone affects.                                              *)
LEMMA OneClientChanges ==
  ASSUME NEW S \in SUBSET Clients, NEW T \in SUBSET Clients, NEW c \in Clients,
         NEW cap \in [Clients -> Nat], NEW cap2 \in [Clients -> Nat],
         S \ {c} = T \ {c}, \A d \in Clients \ {c} : cap[d] = cap2[d]
  PROVE  \E r \in Nat : /\ Cardinality(UnitsOf(cap, S)) = r + Share(cap, S, c)
                        /\ Cardinality(UnitsOf(cap2, T)) = r + Share(cap2, T, c)
<1> DEFINE R == S \ {c}
<1>1. IsFiniteSet(R)
  BY ConnPoolAssumption, FS_Subset
<1>2. UnitsOf(cap, R) = UnitsOf(cap2, R)
  BY SMTT(30) DEF UnitsOf
<1>3. Cardinality(UnitsOf(cap, R)) \in Nat
  BY <1>1, UnitsFinite, FS_CardinalityType
<1>4. ASSUME NEW C \in SUBSET Clients, C \ {c} = R, NEW k \in [Clients -> Nat]
      PROVE  Cardinality(UnitsOf(k, C)) = Cardinality(UnitsOf(k, R)) + Share(k, C, c)
  <2>1. CASE c \in C
    <3>1. C = R \cup {c} /\ c \notin R
      BY <1>4, <2>1
    <3>2. Cardinality(UnitsOf(k, R \cup {c})) = Cardinality(UnitsOf(k, R)) + k[c]
      <4> HIDE DEF R
      <4> QED BY SMTT(30), <1>1, <3>1, UnitsAdd, R \subseteq Clients DEF R
    <3> QED BY <2>1, <3>1, <3>2 DEF Share
  <2>2. CASE c \notin C
    <3>1. C = R
      BY <1>4, <2>2
    <3>2. Cardinality(UnitsOf(k, R)) \in Nat
      BY <1>1, UnitsFinite, FS_CardinalityType
    <3> QED BY SMTT(30), <2>2, <3>1, <3>2 DEF Share
  <2> QED BY <2>1, <2>2
<1>5. Cardinality(UnitsOf(cap, S)) = Cardinality(UnitsOf(cap, R)) + Share(cap, S, c)
  BY <1>4
<1>6. Cardinality(UnitsOf(cap2, T)) = Cardinality(UnitsOf(cap2, R)) + Share(cap2, T, c)
  BY <1>4
<1> QED BY <1>2, <1>3, <1>5, <1>6

-----------------------------------------------------------------------------
(* An update of a function at c leaves the other values alone. *)
LEMMA OthersKept ==
  ASSUME NEW S, NEW T, NEW f \in [S -> T], NEW c, NEW e, NEW d \in S \ {c}
  PROVE  [f EXCEPT ![c] = e][d] = f[d]
OBVIOUS

-----------------------------------------------------------------------------
(* Streams attached to clients *)

(* Moving one stream changes the counts of the two places it moves between. *)
LEMMA ClientCounts ==
  ASSUME ClientTyped, NEW s \in Streams, NEW d \in Clients \cup {NoClient}, d # on[s],
         on' = [on EXCEPT ![s] = d], NEW c \in Clients
  PROVE  /\ NumActiveStreams(c) \in Nat
         /\ c = d => NumActiveStreams(c)' = NumActiveStreams(c) + 1
         /\ c = on[s] => NumActiveStreams(c)' = NumActiveStreams(c) - 1
         /\ c # d /\ c # on[s] => NumActiveStreams(c)' = NumActiveStreams(c)
<1> DEFINE before == {x \in Streams : on[x] = c}
           after == {x \in Streams : on'[x] = c}
<1>1. IsFiniteSet(before) /\ IsFiniteSet(after)
  BY ConnPoolAssumption, FS_Subset
<1>2. Cardinality(before) \in Nat
  BY <1>1, FS_CardinalityType
<1>3. ASSUME c = d PROVE Cardinality(after) = Cardinality(before) + 1
  <2>1. after = before \cup {s} /\ s \notin before
    BY <1>3 DEF ClientTyped
  <2> HIDE DEF before, after
  <2> QED BY <1>1, <2>1, FS_AddElement
<1>4. ASSUME c = on[s] PROVE Cardinality(after) = Cardinality(before) - 1
  <2>1. after = before \ {s} /\ s \in before
    BY <1>4 DEF ClientTyped
  <2> HIDE DEF before, after
  <2> QED BY <1>1, <2>1, FS_RemoveElement
<1>5. ASSUME c # d, c # on[s] PROVE after = before
  BY <1>5 DEF ClientTyped
<1> QED BY <1>2, <1>3, <1>4, <1>5 DEF NumActiveStreams

(* The same for the set of all attached streams. *)
LEMMA ActiveCounts ==
  ASSUME NEW o \in [Streams -> Clients \cup {NoClient}], NEW s \in Streams,
         NEW d \in Clients \cup {NoClient}
  PROVE  LET n == Cardinality({x \in Streams : o[x] # NoClient})
             m == Cardinality({x \in Streams : [o EXCEPT ![s] = d][x] # NoClient})
         IN /\ n \in Nat /\ m \in Nat
            /\ o[s] = NoClient /\ d # NoClient => m = n + 1
            /\ o[s] # NoClient /\ d = NoClient => m = n - 1
<1> DEFINE before == {x \in Streams : o[x] # NoClient}
           after == {x \in Streams : [o EXCEPT ![s] = d][x] # NoClient}
<1>1. IsFiniteSet(before) /\ IsFiniteSet(after)
  BY ConnPoolAssumption, FS_Subset
<1>2. Cardinality(before) \in Nat /\ Cardinality(after) \in Nat
  BY <1>1, FS_CardinalityType
<1>3. ASSUME o[s] = NoClient, d # NoClient PROVE Cardinality(after) = Cardinality(before) + 1
  <2>1. after = before \cup {s} /\ s \notin before
    BY <1>3
  <2> HIDE DEF before, after
  <2> QED BY <1>1, <2>1, FS_AddElement
<1>4. ASSUME o[s] # NoClient, d = NoClient PROVE Cardinality(after) = Cardinality(before) - 1
  <2>1. after = before \ {s} /\ s \in before
    BY <1>4
  <2> HIDE DEF before, after
  <2> QED BY <1>1, <2>1, FS_RemoveElement
<1> QED BY <1>2, <1>3, <1>4

(* The counter follows a stream that is attached. *)
LEMMA ActiveStreamAdded ==
  ASSUME on \in [Streams -> Clients \cup {NoClient}], ActiveStreamsAreCounted,
         NEW s \in Streams, NEW c \in Clients, on[s] = NoClient,
         on' = [on EXCEPT ![s] = c], numActiveStreams' = numActiveStreams + 1
  PROVE  ActiveStreamsAreCounted'
<1>1. c # NoClient
  BY ConnPoolAssumption
<1>2. Cardinality({x \in Streams : on'[x] # NoClient})
        = Cardinality({x \in Streams : on[x] # NoClient}) + 1
  BY SMTT(30), <1>1, ActiveCounts
<1> QED BY <1>2 DEF ActiveStreamsAreCounted

(* A client has a natural number of streams and of free places. *)
LEMMA CapacityTypes ==
  ASSUME ClientTyped, NEW c \in Clients
  PROVE  NumActiveStreams(c) \in Nat /\ CurrentUnusedCapacity(c) \in Nat
<1>1. IsFiniteSet({s \in Streams : on[s] = c})
  BY ConnPoolAssumption, FS_Subset
<1>2. NumActiveStreams(c) \in Nat
  BY <1>1, FS_CardinalityType DEF NumActiveStreams
<1> QED BY SMTT(30), <1>2 DEF CurrentUnusedCapacity, UnusedCapacity, ClientTyped

(* The same after a step. *)
LEMMA CapacityTypesNext ==
  ASSUME ClientTyped', NEW c \in Clients
  PROVE  NumActiveStreams(c)' \in Nat /\ CurrentUnusedCapacity(c)' \in Nat
<1>1. IsFiniteSet({s \in Streams : on'[s] = c})
  BY ConnPoolAssumption, FS_Subset
<1>2. NumActiveStreams(c)' \in Nat
  BY <1>1, FS_CardinalityType DEF NumActiveStreams
<1> QED BY SMTT(30), <1>2 DEF CurrentUnusedCapacity, UnusedCapacity, ClientTyped

-----------------------------------------------------------------------------
(* Steps that change one client *)

Capacity == [c \in Clients |-> CurrentUnusedCapacity(c)]

(* What a client contributes to the two counters. *)
TotalShare(c) == IF c \in listed THEN CurrentUnusedCapacity(c) ELSE 0
ConnectingShare(c) ==
  IF c \in listed /\ state[c] = "Connecting" THEN CurrentUnusedCapacity(c) ELSE 0

(* A step that changes one client and moves its contributions to the       *)
(* counters along keeps the books.                                         *)
LEMMA OneClientStep ==
  ASSUME ClientTyped, ClientTyped', Books, NEW c \in Clients,
         listed' \ {c} = listed \ {c},
         \A d \in Clients \ {c} :
           /\ state'[d] = state[d] /\ remaining'[d] = remaining[d]
           /\ limit'[d] = limit[d] /\ debt'[d] = debt[d]
           /\ NumActiveStreams(d)' = NumActiveStreams(d),
         ClientOK(c)',
         totalCapacity' = totalCapacity - TotalShare(c) + TotalShare(c)',
         connectingCapacity' = connectingCapacity - ConnectingShare(c) + ConnectingShare(c)'
  PROVE  Books'
<1>1. \A d \in Clients \ {c} : /\ CurrentUnusedCapacity(d)' = CurrentUnusedCapacity(d)
                               /\ d \in listed' <=> d \in listed
  BY DEF CurrentUnusedCapacity
<1>2. \A d \in Clients \ {c} : ClientOK(d)'
  BY SMTT(30), <1>1 DEF ClientOK, Books
<1>3. Capacity \in [Clients -> Nat] /\ Capacity' \in [Clients -> Nat]
  <2>1. \A d \in Clients : CurrentUnusedCapacity(d) \in Nat
    BY CapacityTypes
  <2>2. \A d \in Clients : CurrentUnusedCapacity(d)' \in Nat
    BY CapacityTypesNext
  <2> QED BY <2>1, <2>2 DEF Capacity
<1>4. \A d \in Clients \ {c} : Capacity[d] = Capacity'[d]
  BY <1>1 DEF Capacity
<1>5. InState("Connecting") \ {c} = InState("Connecting")' \ {c}
  BY <1>1 DEF InState, ClientTyped
<1>6. /\ listed \in SUBSET Clients /\ listed' \in SUBSET Clients
      /\ InState("Connecting") \in SUBSET Clients /\ InState("Connecting")' \in SUBSET Clients
  BY DEF ClientTyped, InState
<1>7. /\ Units(listed) = UnitsOf(Capacity, listed)
      /\ Units(InState("Connecting")) = UnitsOf(Capacity, InState("Connecting"))
  BY <1>6 DEF Units, UnitsOf, Capacity
<1>8. /\ Units(listed)' = UnitsOf(Capacity', listed')
      /\ Units(InState("Connecting"))' = UnitsOf(Capacity', InState("Connecting")')
  BY <1>6 DEF Units, UnitsOf, Capacity
<1>9. /\ Share(Capacity, listed, c) = TotalShare(c)
      /\ Share(Capacity', listed', c) = TotalShare(c)'
      /\ Share(Capacity, InState("Connecting"), c) = ConnectingShare(c)
      /\ Share(Capacity', InState("Connecting")', c) = ConnectingShare(c)'
  BY DEF Share, Capacity, TotalShare, ConnectingShare, InState
<1>10. TotalShare(c) \in Nat /\ TotalShare(c)' \in Nat
  <2>1. Capacity[c] \in Nat /\ Capacity'[c] \in Nat
    BY <1>3
  <2> QED BY <2>1 DEF TotalShare, Capacity
<1>11. ConnectingShare(c) \in Nat /\ ConnectingShare(c)' \in Nat
  <2>1. Capacity[c] \in Nat /\ Capacity'[c] \in Nat
    BY <1>3
  <2> QED BY <2>1 DEF ConnectingShare, Capacity
<1>12. totalCapacity' = Cardinality(Units(listed)')
  <2>1. PICK r \in Nat : /\ Cardinality(UnitsOf(Capacity, listed)) = r + TotalShare(c)
                         /\ Cardinality(UnitsOf(Capacity', listed')) = r + TotalShare(c)'
    BY SMTT(30), <1>3, <1>4, <1>6, <1>9, OneClientChanges
  <2>2. totalCapacity = r + TotalShare(c)
    BY <1>7, <2>1 DEF Books
  <2>3. totalCapacity' = r + TotalShare(c)'
    BY SMTT(30), <1>10, <2>2
  <2> QED BY <1>8, <2>1, <2>3
<1>13. connectingCapacity' = Cardinality(Units(InState("Connecting"))')
  <2>1. PICK r \in Nat :
          /\ Cardinality(UnitsOf(Capacity, InState("Connecting"))) = r + ConnectingShare(c)
          /\ Cardinality(UnitsOf(Capacity', InState("Connecting")')) = r + ConnectingShare(c)'
    BY SMTT(30), <1>3, <1>4, <1>5, <1>6, <1>9, OneClientChanges
  <2>2. connectingCapacity = r + ConnectingShare(c)
    BY <1>7, <2>1 DEF Books
  <2>3. connectingCapacity' = r + ConnectingShare(c)'
    BY SMTT(30), <1>11, <2>2
  <2> QED BY <1>8, <2>1, <2>3
<1> QED BY <1>2, <1>12, <1>13 DEF Books

(* A step that leaves the clients and their streams alone keeps the books. *)
LEMMA NoClientStep ==
  ASSUME Books, UNCHANGED <<state, remaining, limit, debt, listed, on>>,
         UNCHANGED <<connectingCapacity, totalCapacity>>
  PROVE  Books'
<1>1. \A c : NumActiveStreams(c)' = NumActiveStreams(c)
  BY DEF NumActiveStreams
<1>2. \A c : CurrentUnusedCapacity(c)' = CurrentUnusedCapacity(c)
  BY <1>1 DEF CurrentUnusedCapacity
<1>3. \A c : ClientOK(c) => ClientOK(c)'
  BY <1>1, <1>2 DEF ClientOK
<1>4. InState("Connecting")' = InState("Connecting")
  BY DEF InState
<1>5. /\ Units(InState("Connecting"))' = Units(InState("Connecting"))
      /\ Units(listed)' = Units(listed)
  BY <1>2, <1>4 DEF Units
<1> QED BY <1>3, <1>5 DEF Books

(* The counters are natural numbers. *)
LEMMA BooksTypes ==
  ASSUME ClientTyped, Books, ActiveStreamsAreCounted
  PROVE  /\ connectingCapacity \in Nat /\ totalCapacity \in Nat /\ numActiveStreams \in Nat
<1>1. \A S \in SUBSET Clients : Cardinality(Units(S)) \in Nat
  <2> TAKE S \in SUBSET Clients
  <2>1. IsFiniteSet(S)
    BY ConnPoolAssumption, FS_Subset
  <2>2. \A c \in S : Capacity[c] \in Nat
    BY CapacityTypes DEF Capacity
  <2>3. Units(S) = UnitsOf(Capacity, S)
    BY DEF Units, UnitsOf, Capacity
  <2> QED BY <2>1, <2>2, <2>3, UnitsFinite, FS_CardinalityType
<1>2. IsFiniteSet({s \in Streams : on[s] # NoClient})
  BY ConnPoolAssumption, FS_Subset
<1>3. numActiveStreams \in Nat
  BY <1>2, FS_CardinalityType DEF ActiveStreamsAreCounted
<1>4. listed \in SUBSET Clients /\ InState("Connecting") \in SUBSET Clients
  BY DEF ClientTyped, InState
<1> QED BY <1>1, <1>3, <1>4 DEF Books

-----------------------------------------------------------------------------
(* A pool without clients and streams has the right counters. *)
LEMMA EmptyBooks ==
  ASSUME ClientTyped', listed' = {}, on' = [s \in Streams |-> NoClient],
         debt' = [c \in Clients |-> 0], \A c \in Clients : remaining'[c] = 0,
         connectingCapacity' = 0, totalCapacity' = 0, numActiveStreams' = 0
  PROVE  ClientPart'
<1>1. \A c \in Clients : NumActiveStreams(c)' = 0
  <2> TAKE c \in Clients
  <2>1. {s \in Streams : on'[s] = c} = {}
    BY ConnPoolAssumption
  <2> QED BY <2>1, FS_EmptySet DEF NumActiveStreams
<1>2. {s \in Streams : on'[s] # NoClient} = {}
  OBVIOUS
<1>3. ActiveStreamsAreCounted'
  BY <1>2, FS_EmptySet DEF ActiveStreamsAreCounted
<1>4. Units(listed)' = {} /\ Units(InState("Connecting"))' = {}
  BY DEF Units, InState
<1>5. ASSUME NEW c \in Clients PROVE ClientOK(c)'
  <2>1. limit'[c] \in Nat
    BY DEF ClientTyped
  <2> QED BY SMTT(30), <1>1, <2>1 DEF ClientOK
<1>6. Books'
  BY <1>4, <1>5, FS_EmptySet DEF Books
<1> QED BY <1>3, <1>6 DEF ClientPart

-----------------------------------------------------------------------------
(* The operations on one client *)

(* A created client is connecting and brings its whole capacity. *)
LEMMA CreateClientStep ==
  ASSUME ClientPart, StackPart, cached \in Nat, NEW c \in Clients, CreateClient(c), on' = on
  PROVE  ClientPart' /\ \A f \in Elements(stack) : FrameOK(f)'
<1> DEFINE unused == UnusedCapacity(MaxRequestsPerConnection, MaxConcurrentStreams, 0)
<1>0. /\ state \in [Clients -> States]
      /\ remaining \in [Clients -> Nat] /\ limit \in [Clients -> Nat]
      /\ configured \in [Clients -> Nat] /\ debt \in [Clients -> Nat]
      /\ listed \subseteq Clients /\ open \subseteq Clients /\ held \subseteq Clients
      /\ on \in [Streams -> Clients \cup {NoClient}]
  BY DEF ClientPart, ClientTyped
<1>1. ClientTyped'
  <2>1. "Connecting" \in States /\ InitialStreamsLimit \in Nat
    BY InitialLimitType DEF States
  <2>2. MaxRequestsPerConnection \in Nat /\ MaxConcurrentStreams \in Nat /\ 0 \in Nat
    BY ConnPoolAssumption
  <2> QED BY <1>0, <2>1, <2>2 DEF ClientTyped, CreateClient
<1>2. c \notin listed
  BY DEF ClientPart, Books, ClientOK, CreateClient, FreeClient
<1>3. NumActiveStreams(c)' = 0
  <2>1. {s \in Streams : on'[s] = c} = {}
    BY DEF CreateClient, FreeClient
  <2> QED BY <2>1, FS_EmptySet DEF NumActiveStreams
<1>4. \A d \in Clients : NumActiveStreams(d)' = NumActiveStreams(d)
  BY DEF NumActiveStreams
<1>5. /\ state'[c] = "Connecting" /\ remaining'[c] = MaxRequestsPerConnection
      /\ limit'[c] = MaxConcurrentStreams /\ debt'[c] = 0 /\ c \in listed'
  BY <1>0 DEF CreateClient
<1>6. CurrentUnusedCapacity(c)' = unused /\ unused \in Nat
  BY SMTT(30), <1>3, <1>5, ConnPoolAssumption DEF CurrentUnusedCapacity, UnusedCapacity
<1>7. ClientOK(c)'
  BY SMTT(30), <1>3, <1>5, ConnPoolAssumption DEF ClientOK
<1>8. totalCapacity \in Nat /\ connectingCapacity \in Nat
  BY BooksTypes DEF ClientPart
<1>9. /\ TotalShare(c) = 0 /\ ConnectingShare(c) = 0
      /\ TotalShare(c)' = unused /\ ConnectingShare(c)' = unused
  BY <1>2, <1>5, <1>6 DEF TotalShare, ConnectingShare
<1>10. Books'
  <2>1. /\ totalCapacity' = totalCapacity - TotalShare(c) + TotalShare(c)'
        /\ connectingCapacity' = connectingCapacity - ConnectingShare(c) + ConnectingShare(c)'
    BY SMTT(30), <1>6, <1>8, <1>9 DEF CreateClient
  <2>2. /\ listed' \ {c} = listed \ {c}
        /\ \A d \in Clients \ {c} :
             /\ state'[d] = state[d] /\ remaining'[d] = remaining[d]
             /\ limit'[d] = limit[d] /\ debt'[d] = debt[d]
    BY <1>0, OthersKept DEF CreateClient
  <2> QED BY <1>1, <1>4, <1>7, <2>1, <2>2, OneClientStep DEF ClientPart
<1>11. ActiveStreamsAreCounted'
  BY DEF ClientPart, ActiveStreamsAreCounted, CreateClient
<1>12. ASSUME NEW f \in Elements(stack) PROVE FrameOK(f)'
  <2>1. FrameOK(f) /\ f.cs \subseteq Clients /\ c \notin f.cs
    BY FrameClients DEF CreateClient, FreeClient
  <2>2. \A d \in Clients \ {c} : remaining'[d] = remaining[d] /\ (d \in listed' <=> d \in listed)
    BY <1>0, OthersKept DEF CreateClient
  <2> QED BY <2>1, <2>2 DEF FrameOK
<1> QED BY <1>1, <1>10, <1>11, <1>12 DEF ClientPart

(* The free places of a client that takes one more stream. *)
LEMMA UnusedAfterAttach ==
  ASSUME NEW left \in Nat, NEW lim \in Nat, NEW act \in Nat, left > 0, act < lim
  PROVE  UnusedCapacity(left - 1, lim, act + 1) = UnusedCapacity(left, lim, act) - 1
BY SMTT(30) DEF UnusedCapacity

(* The free places of a client that one of its n streams leaves: one more  *)
(* exactly if the concurrency limit, not exceeded, was what bounded it.    *)
LEMMA UnusedAfterClose ==
  ASSUME NEW left \in Nat, NEW lim \in Nat, NEW n \in Nat \ {0}
  PROVE  UnusedCapacity(left, lim, n - 1) =
           IF n <= lim /\ left > lim - n THEN UnusedCapacity(left, lim, n) + 1
                                        ELSE UnusedCapacity(left, lim, n)
<1>1. CASE n > lim
  BY SMTT(30), <1>1 DEF UnusedCapacity
<1>2. CASE n <= lim /\ left > lim - n
  BY SMTT(30), <1>2 DEF UnusedCapacity
<1>3. CASE n <= lim /\ left <= lim - n
  BY SMTT(30), <1>3 DEF UnusedCapacity
<1> QED BY SMTT(30), <1>1, <1>2, <1>3

(* A call in progress keeps what it relies on when no client joins a list  *)
(* and none gets lifetime back.                                            *)
LEMMA FrameKept ==
  ASSUME NEW f, FrameOK(f), f.cs \subseteq Clients, listed' = listed,
         \A d \in Clients : remaining[d] = 0 => remaining'[d] = 0
  PROVE  FrameOK(f)'
BY DEF FrameOK

(* A stream attached to a ready client takes one unit of its capacity, and *)
(* makes it busy or draining exactly when that was the last one.           *)
LEMMA AttachStep ==
  ASSUME ClientPart, StackPart, NEW c \in InState("Ready"), NEW s \in Streams, NEW rest,
         on[s] = NoClient, AttachStreamToClient(c, s, rest)
  PROVE  ClientPart' /\ \A f \in Elements(stack) : FrameOK(f)'
<1>0. /\ remaining \in [Clients -> Nat] /\ limit \in [Clients -> Nat]
      /\ debt \in [Clients -> Nat] /\ state \in [Clients -> States]
      /\ on \in [Streams -> Clients \cup {NoClient}]
  BY DEF ClientPart, ClientTyped
<1>1. c \in Clients /\ c \in listed /\ state[c] = "Ready"
  BY DEF ClientPart, ClientTyped, InState
<1>2. CurrentUnusedCapacity(c) > 0 /\ debt[c] = 0 /\ NumActiveStreams(c) < limit[c]
      /\ remaining[c] > 0 /\ NumActiveStreams(c) \in Nat
  <2>1. /\ CurrentUnusedCapacity(c) > 0
        /\ debt[c] = IF NumActiveStreams(c) > limit[c] THEN NumActiveStreams(c) - limit[c] ELSE 0
    BY <1>1 DEF ClientPart, Books, ClientOK
  <2>2. NumActiveStreams(c) \in Nat /\ remaining[c] \in Nat /\ limit[c] \in Nat
    BY <1>0, <1>1, CapacityTypes DEF ClientPart
  <2>3. NumActiveStreams(c) < limit[c] /\ remaining[c] > 0
    BY SMTT(30), <2>1, <2>2 DEF CurrentUnusedCapacity, UnusedCapacity
  <2>4. debt[c] = 0
    BY SMTT(30), <2>1, <2>2, <2>3
  <2> QED BY <2>1, <2>2, <2>3, <2>4
<1>3. CASE UNCHANGED <<remaining, state, totalCapacity, numActiveStreams, on>>
  <2>1. UNCHANGED <<clientVars, on, counterVars>>
    BY <1>3 DEF AttachStreamToClient, clientVars, counterVars
  <2>2. Books'
    BY <2>1, NoClientStep DEF ClientPart, clientVars, counterVars
  <2> QED BY <2>1, <2>2
          DEF ClientPart, ClientTyped, clientVars, counterVars, ActiveStreamsAreCounted,
              StackPart, FrameOK
<1>4. CASE /\ remaining' = [remaining EXCEPT ![c] = @ - 1]
           /\ state' = [state EXCEPT ![c] =
                          IF remaining[c] = 1 THEN "Draining"
                          ELSE IF CurrentUnusedCapacity(c) = 1 THEN "Busy" ELSE @]
           /\ totalCapacity' = totalCapacity - 1
           /\ numActiveStreams' = numActiveStreams + 1
           /\ on' = [on EXCEPT ![s] = c]
  <2>1. UNCHANGED <<limit, configured, debt, listed, open, held, connectingCapacity>>
    BY DEF AttachStreamToClient
  <2>2. ClientTyped'
    BY SMTT(30), <1>1, <1>2, <1>4, <2>1 DEF ClientPart, ClientTyped, States
  <2>3. /\ NumActiveStreams(c)' = NumActiveStreams(c) + 1
        /\ \A d \in Clients \ {c} : NumActiveStreams(d)' = NumActiveStreams(d)
    <3>1. c # on[s] /\ NoClient \notin Clients
      BY <1>1, ConnPoolAssumption
    <3>2. ClientTyped /\ on' = [on EXCEPT ![s] = c]
      BY <1>4 DEF ClientPart
    <3>3. NumActiveStreams(c)' = NumActiveStreams(c) + 1
      BY <1>1, <3>1, <3>2, ClientCounts
    <3>4. ASSUME NEW d \in Clients \ {c} PROVE NumActiveStreams(d)' = NumActiveStreams(d)
      <4>1. d \in Clients /\ d # c /\ d # on[s] /\ c \in Clients \cup {NoClient}
        BY <1>1, <3>1, <3>4
      <4> QED BY <3>1, <3>2, <4>1, ClientCounts
    <3> QED BY <3>3, <3>4
  <2>4. remaining'[c] = remaining[c] - 1 /\ limit'[c] = limit[c] /\ debt'[c] = 0
    BY <1>0, <1>1, <1>2, <1>4, <2>1
  <2>12. /\ remaining[c] = 1 => state'[c] = "Draining"
         /\ remaining[c] # 1 /\ CurrentUnusedCapacity(c) = 1 => state'[c] = "Busy"
         /\ remaining[c] # 1 /\ CurrentUnusedCapacity(c) # 1 => state'[c] = "Ready"
    BY <1>0, <1>1, <1>4
  <2>5. CurrentUnusedCapacity(c)' = CurrentUnusedCapacity(c) - 1
    <3>1. remaining[c] \in Nat /\ limit[c] \in Nat
      BY <1>0, <1>1
    <3>2. UnusedCapacity(remaining[c] - 1, limit[c], NumActiveStreams(c) + 1)
            = UnusedCapacity(remaining[c], limit[c], NumActiveStreams(c)) - 1
      BY <1>2, <3>1, UnusedAfterAttach
    <3> QED BY <2>3, <2>4, <3>2 DEF CurrentUnusedCapacity
  <2>6. ClientOK(c)'
    <3>1. CurrentUnusedCapacity(c) \in Nat /\ limit[c] \in Nat /\ remaining[c] \in Nat
      BY <1>0, <1>1, CapacityTypes DEF ClientPart
    <3>2. c \in listed' /\ NumActiveStreams(c)' = NumActiveStreams(c) + 1
      BY <1>1, <2>1, <2>3
    <3>3. debt'[c] = IF NumActiveStreams(c)' > limit'[c] THEN NumActiveStreams(c)' - limit'[c] ELSE 0
      BY SMTT(30), <1>2, <2>4, <3>1, <3>2
    <3>4. /\ state'[c] # "Closed" /\ state'[c] # "Connecting"
          /\ state'[c] = "Draining" => remaining'[c] = 0
          /\ state'[c] = "Busy" => CurrentUnusedCapacity(c)' = 0
          /\ state'[c] = "Ready" => CurrentUnusedCapacity(c)' > 0
      <4>1. CASE remaining[c] = 1
        BY SMTT(30), <2>4, <2>12, <4>1
      <4>2. CASE remaining[c] # 1 /\ CurrentUnusedCapacity(c) = 1
        BY SMTT(30), <2>5, <2>12, <4>2
      <4>3. CASE remaining[c] # 1 /\ CurrentUnusedCapacity(c) # 1
        BY SMTT(30), <1>2, <2>5, <2>12, <3>1, <4>3
      <4> QED BY <4>1, <4>2, <4>3
    <3> QED BY <3>2, <3>3, <3>4 DEF ClientOK
  <2>7. totalCapacity \in Nat /\ connectingCapacity \in Nat
    BY BooksTypes DEF ClientPart
  <2>8. /\ TotalShare(c) = CurrentUnusedCapacity(c) /\ ConnectingShare(c) = 0
        /\ TotalShare(c)' = CurrentUnusedCapacity(c)' /\ ConnectingShare(c)' = 0
    <3>1. state'[c] # "Connecting"
      BY <2>12
    <3> QED BY <1>1, <2>1, <3>1 DEF TotalShare, ConnectingShare
  <2>9. Books'
    <3>1. /\ totalCapacity' = totalCapacity - TotalShare(c) + TotalShare(c)'
          /\ connectingCapacity' = connectingCapacity - ConnectingShare(c) + ConnectingShare(c)'
      <4>1. /\ CurrentUnusedCapacity(c) \in Nat
            /\ totalCapacity' = totalCapacity - 1 /\ connectingCapacity' = connectingCapacity
        BY <1>1, <1>4, <2>1, CapacityTypes DEF ClientPart
      <4> QED BY SMTT(30), <2>5, <2>7, <2>8, <4>1
    <3>2. /\ listed' \ {c} = listed \ {c}
          /\ \A d \in Clients \ {c} :
               /\ state'[d] = state[d] /\ remaining'[d] = remaining[d]
               /\ limit'[d] = limit[d] /\ debt'[d] = debt[d]
      BY <1>0, <1>1, <1>4, <2>1, OthersKept
    <3> QED BY <1>1, <2>2, <2>3, <2>6, <3>1, <3>2, OneClientStep DEF ClientPart
  <2>10. ActiveStreamsAreCounted'
    BY <1>0, <1>1, <1>4, ActiveStreamAdded DEF ClientPart
  <2>11. ASSUME NEW f \in Elements(stack) PROVE FrameOK(f)'
    <3>1. FrameOK(f) /\ f.cs \subseteq Clients
      BY FrameClients
    <3>2. \A d \in Clients : remaining[d] = 0 => remaining'[d] = 0
      <4>1. remaining[c] # 0
        BY SMTT(30), <1>2
      <4> QED BY <1>0, <1>4, <4>1, OthersKept
    <3> QED BY <2>1, <3>1, <3>2, FrameKept
  <2> QED BY <2>2, <2>9, <2>10, <2>11 DEF ClientPart
<1> QED BY <1>3, <1>4 DEF AttachStreamToClient

(* A stream that leaves a client is one less for it, for nobody else, and  *)
(* for the counter of active streams.                                      *)
LEMMA LeaveCounts ==
  ASSUME ClientPart, NEW s \in Streams, NEW c \in Clients, on[s] = c,
         on' = [on EXCEPT ![s] = NoClient], numActiveStreams' = numActiveStreams - 1
  PROVE  /\ NumActiveStreams(c) \in Nat /\ NumActiveStreams(c) >= 1
         /\ NumActiveStreams(c)' = NumActiveStreams(c) - 1
         /\ \A d \in Clients \ {c} : NumActiveStreams(d)' = NumActiveStreams(d)
         /\ ActiveStreamsAreCounted'
<1>1. NoClient \notin Clients /\ c # NoClient
  BY ConnPoolAssumption
<1>2. ClientTyped
  BY DEF ClientPart
<1>3. NumActiveStreams(c) \in Nat /\ NumActiveStreams(c)' = NumActiveStreams(c) - 1
  BY <1>1, <1>2, ClientCounts
<1>4. ASSUME NEW d \in Clients \ {c} PROVE NumActiveStreams(d)' = NumActiveStreams(d)
  BY <1>1, <1>2, ClientCounts
<1>5. NumActiveStreams(c) >= 1
  <2>1. {x \in Streams : on[x] = c} # {} /\ IsFiniteSet({x \in Streams : on[x] = c})
    BY ConnPoolAssumption, FS_Subset
  <2>2. Cardinality({x \in Streams : on[x] = c}) # 0
    BY <2>1, FS_EmptySet
  <2> QED BY SMTT(30), <1>3, <2>2 DEF NumActiveStreams
<1>6. ActiveStreamsAreCounted'
  <2>1. numActiveStreams = Cardinality({x \in Streams : on[x] # NoClient})
    BY DEF ClientPart, ActiveStreamsAreCounted
  <2>2. on \in [Streams -> Clients \cup {NoClient}]
    BY <1>2 DEF ClientTyped
  <2>3. Cardinality({x \in Streams : on'[x] # NoClient}) = numActiveStreams - 1
    BY SMTT(30), <1>1, <2>1, <2>2, ActiveCounts
  <2> QED BY <2>3 DEF ActiveStreamsAreCounted
<1> QED BY <1>3, <1>4, <1>5, <1>6

-----------------------------------------------------------------------------
(* Closing a stream and draining a client *)

(* A stream that leaves a client returns one unit of capacity exactly when *)
(* the concurrency limit was what bounded the client and there is no debt. *)
LEMMA StreamClosedStep ==
  ASSUME ClientPart, StackPart, NEW s \in Streams, NEW c \in Clients, NEW rest,
         on[s] = c, OnStreamClosed(c, s, rest)
  PROVE  ClientPart' /\ \A f \in Elements(stack) : FrameOK(f)'
<1> DEFINE N == NumActiveStreams(c)
           act == N - 1
           limited == limit[c] < act + 1 \/ remaining[c] > limit[c] - act - 1
           absorbed == limited /\ debt[c] > 0
           wakes == state[c] = "Busy" /\ UnusedCapacity(remaining[c], limit[c], act) > 0
<1>2. on' = [on EXCEPT ![s] = NoClient] /\ numActiveStreams' = numActiveStreams - 1
  BY DEF OnStreamClosed
<1>3. ClientTyped
  BY DEF ClientPart
<1>4. N \in Nat /\ N >= 1 /\ NumActiveStreams(c)' = N - 1
  BY <1>2, LeaveCounts
<1>5. ASSUME NEW d \in Clients \ {c} PROVE NumActiveStreams(d)' = NumActiveStreams(d)
  BY <1>2, LeaveCounts
<1>7. /\ limit[c] \in Nat /\ remaining[c] \in Nat /\ debt[c] \in Nat
  <2>1. limit \in [Clients -> Nat] /\ remaining \in [Clients -> Nat] /\ debt \in [Clients -> Nat]
    BY <1>3 DEF ClientTyped
  <2> QED BY <2>1
<1>8. /\ debt' = [debt EXCEPT ![c] = IF absorbed THEN @ - 1 ELSE @]
      /\ totalCapacity' = IF limited /\ ~absorbed THEN totalCapacity + 1 ELSE totalCapacity
      /\ state' = [state EXCEPT ![c] = IF wakes THEN "Ready" ELSE @]
      /\ numActiveStreams' = numActiveStreams - 1
      /\ UNCHANGED <<remaining, limit, configured, listed, open, held, connectingCapacity>>
  BY DEF OnStreamClosed
<1>9. debt[c] = IF N > limit[c] THEN N - limit[c] ELSE 0
  BY DEF ClientPart, Books, ClientOK
<1>10. ClientTyped'
  BY SMTT(30), <1>2, <1>3, <1>7, <1>8 DEF ClientTyped, States
<1>11. /\ debt'[c] = IF absorbed THEN debt[c] - 1 ELSE debt[c]
       /\ state'[c] = IF wakes THEN "Ready" ELSE state[c]
       /\ remaining'[c] = remaining[c] /\ limit'[c] = limit[c]
       /\ c \in listed' <=> c \in listed
  BY <1>3, <1>8 DEF ClientTyped
<1>12. CurrentUnusedCapacity(c)' = UnusedCapacity(remaining[c], limit[c], act)
  BY <1>4, <1>11 DEF CurrentUnusedCapacity
<1>13. CurrentUnusedCapacity(c)' =
         IF limited /\ ~absorbed THEN CurrentUnusedCapacity(c) + 1 ELSE CurrentUnusedCapacity(c)
  <2>1. N \in Nat \ {0} /\ act = N - 1
    BY SMTT(30), <1>4
  <2>2. UnusedCapacity(remaining[c], limit[c], N - 1) =
          IF N <= limit[c] /\ remaining[c] > limit[c] - N
            THEN UnusedCapacity(remaining[c], limit[c], N) + 1
            ELSE UnusedCapacity(remaining[c], limit[c], N)
    BY SMTT(30), <1>7, <2>1, UnusedAfterClose
  <2>3. (limited /\ ~absorbed) <=> (N <= limit[c] /\ remaining[c] > limit[c] - N)
    BY SMTT(30), <1>7, <1>9, <2>1
  <2>4. CurrentUnusedCapacity(c) = UnusedCapacity(remaining[c], limit[c], N)
    BY DEF CurrentUnusedCapacity
  <2> HIDE DEF N, act, limited, absorbed
  <2> QED BY <1>12, <2>1, <2>2, <2>3, <2>4
<1> HIDE DEF N, act, limited, absorbed, wakes
<1>14. CurrentUnusedCapacity(c) \in Nat
  BY <1>3, CapacityTypes
<1>15. /\ c \notin listed => remaining[c] = 0
       /\ c \in listed => state[c] # "Closed"
       /\ state[c] # "Connecting"
       /\ c \in listed /\ state[c] = "Draining" => remaining[c] = 0
       /\ c \in listed /\ state[c] = "Busy" => CurrentUnusedCapacity(c) = 0
       /\ c \in listed /\ state[c] = "Ready" => CurrentUnusedCapacity(c) > 0
  BY SMTT(30), <1>4 DEF ClientPart, Books, ClientOK, N
<1>16. debt'[c] = IF N - 1 > limit'[c] THEN N - 1 - limit'[c] ELSE 0
  BY SMTT(30), <1>4, <1>7, <1>9, <1>11 DEF act, limited, absorbed
<1>17. ClientOK(c)'
  <2>1. /\ c \in listed' /\ state'[c] = "Busy" => CurrentUnusedCapacity(c)' = 0
        /\ c \in listed' /\ state'[c] = "Ready" => CurrentUnusedCapacity(c)' > 0
    <3>1. CurrentUnusedCapacity(c)' \in Nat
      BY SMTT(30), <1>13, <1>14
    <3>2. CASE wakes
      BY <1>11, <1>12, <3>2 DEF wakes
    <3>3. CASE ~wakes
      BY SMTT(30), <1>11, <1>12, <1>13, <1>14, <1>15, <3>1, <3>3 DEF wakes
    <3> QED BY <3>2, <3>3
  <2>2. state'[c] # "Connecting" /\ (state'[c] = "Draining" => state[c] = "Draining")
        /\ (c \in listed => state'[c] # "Closed")
    BY <1>11, <1>15 DEF wakes
  <2> QED BY <1>4, <1>11, <1>15, <1>16, <2>1, <2>2 DEF ClientOK, N
<1>18. totalCapacity \in Nat /\ connectingCapacity \in Nat
  BY BooksTypes DEF ClientPart
<1>19. /\ totalCapacity' = totalCapacity - TotalShare(c) + TotalShare(c)'
       /\ connectingCapacity' = connectingCapacity - ConnectingShare(c) + ConnectingShare(c)'
  <2>1. ConnectingShare(c) = 0 /\ ConnectingShare(c)' = 0
    BY <1>11, <1>15 DEF ConnectingShare, wakes
  <2>2. CASE c \in listed
    <3>1. /\ TotalShare(c) = CurrentUnusedCapacity(c)
          /\ TotalShare(c)' = CurrentUnusedCapacity(c)'
      BY <1>11, <2>2 DEF TotalShare
    <3> QED BY SMTT(30), <1>8, <1>13, <1>14, <1>18, <2>1, <3>1
  <2>3. CASE c \notin listed
    <3>1. TotalShare(c) = 0 /\ TotalShare(c)' = 0
      BY <1>11, <2>3 DEF TotalShare
    <3>2. ~(limited /\ ~absorbed)
      BY SMTT(30), <1>4, <1>7, <1>9, <1>15, <2>3 DEF act, limited, absorbed
    <3> QED BY SMTT(30), <1>8, <1>18, <2>1, <3>1, <3>2
  <2> QED BY <2>2, <2>3
<1>20. Books'
  <2>1. /\ listed' \ {c} = listed \ {c}
        /\ \A d \in Clients \ {c} :
             /\ state'[d] = state[d] /\ remaining'[d] = remaining[d]
             /\ limit'[d] = limit[d] /\ debt'[d] = debt[d]
    BY <1>3, <1>8 DEF ClientTyped
  <2> QED BY <1>3, <1>5, <1>10, <1>17, <1>19, <2>1, OneClientStep DEF ClientPart
<1>21. ActiveStreamsAreCounted'
  BY <1>2, LeaveCounts
<1>22. ASSUME NEW f \in Elements(stack) PROVE FrameOK(f)'
  BY <1>8 DEF StackPart, FrameOK
<1> QED BY <1>10, <1>20, <1>21, <1>22 DEF ClientPart

(* A drained client takes its unused capacity out of the counters. *)
LEMMA DrainStep ==
  ASSUME ClientPart, StackPart, NEW c \in listed, DrainClient(c), on' = on
  PROVE  ClientPart' /\ \A f \in Elements(stack) : FrameOK(f)'
<1>1. ClientTyped /\ c \in Clients
  BY DEF ClientPart, ClientTyped
<1>2. ClientTyped'
  BY <1>1 DEF ClientTyped, DrainClient, States
<1>3. \A d \in Clients : NumActiveStreams(d)' = NumActiveStreams(d)
  BY DEF NumActiveStreams
<1>4. /\ state'[c] = "Draining" /\ remaining'[c] = 0 /\ limit'[c] = limit[c]
      /\ debt'[c] = debt[c] /\ listed' = listed
  BY <1>1 DEF ClientTyped, DrainClient
<1>5. NumActiveStreams(c) \in Nat /\ CurrentUnusedCapacity(c) \in Nat /\ limit[c] \in Nat
  BY <1>1, CapacityTypes DEF ClientTyped
<1>6. CurrentUnusedCapacity(c)' = 0
  BY SMTT(30), <1>1, <1>3, <1>4, <1>5 DEF CurrentUnusedCapacity, UnusedCapacity
<1>7. ClientOK(c)'
  BY <1>1, <1>3, <1>4 DEF ClientPart, Books, ClientOK
<1>8. totalCapacity \in Nat /\ connectingCapacity \in Nat
  BY BooksTypes DEF ClientPart
<1>9. /\ totalCapacity' = totalCapacity - TotalShare(c) + TotalShare(c)'
      /\ connectingCapacity' = connectingCapacity - ConnectingShare(c) + ConnectingShare(c)'
  <2>1. /\ TotalShare(c) = CurrentUnusedCapacity(c) /\ TotalShare(c)' = 0
        /\ ConnectingShare(c) = IF state[c] = "Connecting" THEN CurrentUnusedCapacity(c) ELSE 0
        /\ ConnectingShare(c)' = 0
    BY <1>4, <1>6 DEF TotalShare, ConnectingShare
  <2> QED BY SMTT(30), <1>5, <1>8, <2>1 DEF DrainClient
<1>10. Books'
  <2>1. \A d \in Clients \ {c} :
          /\ state'[d] = state[d] /\ remaining'[d] = remaining[d]
          /\ limit'[d] = limit[d] /\ debt'[d] = debt[d]
    BY <1>1 DEF ClientTyped, DrainClient
  <2> QED BY <1>1, <1>2, <1>3, <1>4, <1>7, <1>9, <2>1, OneClientStep DEF ClientPart
<1>11. ActiveStreamsAreCounted'
  BY DEF ClientPart, ActiveStreamsAreCounted, DrainClient
<1>12. ASSUME NEW f \in Elements(stack) PROVE FrameOK(f)'
  <2>1. FrameOK(f) /\ f.cs \subseteq Clients
    BY SMTT(30) DEF StackPart, Elements, Frames
  <2>2. \A d \in Clients : remaining[d] = 0 => remaining'[d] = 0
    BY <1>1 DEF ClientTyped, DrainClient
  <2> QED BY <1>4, <2>1, <2>2 DEF FrameOK
<1> QED BY <1>2, <1>10, <1>11, <1>12 DEF ClientPart

-----------------------------------------------------------------------------
(* Connections that change or end *)

(* An established connection is ready or busy, and no longer counts as     *)
(* connecting.                                                             *)
LEMMA ConnectedClientStep ==
  ASSUME ClientPart, StackPart, NEW c \in Clients, OnConnected(c)
  PROVE  ClientPart' /\ \A f \in Elements(stack) : FrameOK(f)'
<1>1. /\ ClientTyped /\ Books /\ c \in listed /\ state[c] = "Connecting"
      /\ UNCHANGED <<remaining, limit, configured, debt, listed, open, held, streamVars,
                     totalCapacity, numActiveStreams, poolVars>>
      /\ state' = [state EXCEPT ![c] = IF CurrentUnusedCapacity(c) > 0 THEN "Ready" ELSE "Busy"]
      /\ connectingCapacity' = connectingCapacity - CurrentUnusedCapacity(c)
  BY DEF OnConnected, InState, ClientPart
<1>2. ClientTyped' /\ on' = on
  BY <1>1 DEF ClientTyped, States, streamVars
<1>3. \A d \in Clients : /\ NumActiveStreams(d)' = NumActiveStreams(d)
                         /\ CurrentUnusedCapacity(d)' = CurrentUnusedCapacity(d)
  BY <1>1, <1>2 DEF NumActiveStreams, CurrentUnusedCapacity
<1>4. CurrentUnusedCapacity(c) \in Nat /\ totalCapacity \in Nat /\ connectingCapacity \in Nat
  BY <1>1, CapacityTypes, BooksTypes DEF ClientPart
<1>5. state'[c] = IF CurrentUnusedCapacity(c) > 0 THEN "Ready" ELSE "Busy"
  BY <1>1 DEF ClientTyped
<1>6. ClientOK(c)'
  BY SMTT(30), <1>1, <1>3, <1>4, <1>5 DEF Books, ClientOK
<1>7. /\ totalCapacity' = totalCapacity - TotalShare(c) + TotalShare(c)'
      /\ connectingCapacity' = connectingCapacity - ConnectingShare(c) + ConnectingShare(c)'
  BY SMTT(30), <1>1, <1>3, <1>4, <1>5 DEF TotalShare, ConnectingShare
<1>8. Books'
  <2>1. \A d \in Clients \ {c} :
          /\ state'[d] = state[d] /\ remaining'[d] = remaining[d]
          /\ limit'[d] = limit[d] /\ debt'[d] = debt[d]
    BY <1>1 DEF ClientTyped
  <2> QED BY <1>1, <1>2, <1>3, <1>6, <1>7, <2>1, OneClientStep
<1> QED
  BY <1>1, <1>2, <1>8 DEF ClientPart, ActiveStreamsAreCounted, StackPart, FrameOK

(* A SETTINGS frame changes the limit of one client, and its debt, state   *)
(* and share of the capacity with it.                                      *)
LEMMA SettingsClientStep ==
  ASSUME ClientPart, StackPart, NEW c \in Clients, NEW m \in Settings, OnSettings(c, m)
  PROVE  ClientPart' /\ \A f \in Elements(stack) : FrameOK(f)'
<1> DEFINE lim == IF m < configured[c] THEN m ELSE configured[c]
           act == NumActiveStreams(c)
           unused == UnusedCapacity(remaining[c], lim, act)
<1>1. /\ ClientTyped /\ Books /\ c \in listed /\ state[c] # "Connecting"
      /\ UNCHANGED <<remaining, configured, listed, open, held, streamVars, connectingCapacity,
                     numActiveStreams, draining, deleted, idleCallbacks, readyCallback, stack>>
      /\ limit' = [limit EXCEPT ![c] = lim]
      /\ debt' = [debt EXCEPT ![c] = CapacityDebt(lim, act)]
      /\ totalCapacity' = totalCapacity - CurrentUnusedCapacity(c) + unused
      /\ state' = [state EXCEPT ![c] = IF @ = "Ready" /\ unused = 0 THEN "Busy"
                                       ELSE IF @ = "Busy" /\ unused > 0 THEN "Ready" ELSE @]
  BY DEF OnSettings, ClientPart
<1>2. m \in Nat
  BY ConnPoolAssumption
<1>3. lim \in Nat /\ act \in Nat /\ remaining[c] \in Nat
  BY <1>1, <1>2, CapacityTypes DEF ClientTyped
<1>4. unused \in Nat /\ CapacityDebt(lim, act) \in Nat
      /\ CapacityDebt(lim, act) = IF act > lim THEN act - lim ELSE 0
  BY SMTT(30), <1>3 DEF UnusedCapacity, CapacityDebt
<1> HIDE DEF lim, act
<1>5. ClientTyped' /\ on' = on
  BY <1>1, <1>3, <1>4 DEF ClientTyped, States, streamVars
<1>6. \A d \in Clients : NumActiveStreams(d)' = NumActiveStreams(d)
  BY <1>5 DEF NumActiveStreams
<1>7. /\ limit'[c] = lim /\ debt'[c] = CapacityDebt(lim, act) /\ remaining'[c] = remaining[c]
      /\ NumActiveStreams(c)' = act
      /\ state'[c] = IF state[c] = "Ready" /\ unused = 0 THEN "Busy"
                     ELSE IF state[c] = "Busy" /\ unused > 0 THEN "Ready" ELSE state[c]
  BY <1>1, <1>6 DEF ClientTyped, act
<1>8. CurrentUnusedCapacity(c)' = unused
  BY <1>7 DEF CurrentUnusedCapacity
<1>9. remaining[c] = 0 => unused = 0
  BY SMTT(30), <1>3 DEF UnusedCapacity
<1> HIDE DEF unused
<1>10. CurrentUnusedCapacity(c) \in Nat /\ totalCapacity \in Nat /\ connectingCapacity \in Nat
  BY <1>1, CapacityTypes, BooksTypes DEF ClientPart
<1>11. ClientOK(c)'
  BY SMTT(30), <1>1, <1>4, <1>7, <1>8, <1>9 DEF Books, ClientOK
<1>12. /\ totalCapacity' = totalCapacity - TotalShare(c) + TotalShare(c)'
       /\ connectingCapacity' = connectingCapacity - ConnectingShare(c) + ConnectingShare(c)'
  BY SMTT(30), <1>1, <1>4, <1>7, <1>8, <1>10 DEF TotalShare, ConnectingShare
<1>13. Books'
  <2>1. \A d \in Clients \ {c} :
          /\ state'[d] = state[d] /\ remaining'[d] = remaining[d]
          /\ limit'[d] = limit[d] /\ debt'[d] = debt[d]
    BY <1>1 DEF ClientTyped
  <2> QED BY <1>1, <1>5, <1>6, <1>11, <1>12, <2>1, OneClientStep
<1> QED
  BY <1>1, <1>5, <1>13 DEF ClientPart, ActiveStreamsAreCounted, StackPart, FrameOK

(* A client gives up the rest of its lifetime, and perhaps its place in    *)
(* the lists: its unused capacity leaves the counters.                     *)
LEMMA GiveUpStep ==
  ASSUME ClientPart, StackPart, NEW c \in Clients,
         remaining' = [remaining EXCEPT ![c] = 0],
         totalCapacity' = totalCapacity - CurrentUnusedCapacity(c),
         connectingCapacity' = IF state[c] = "Connecting"
                                 THEN connectingCapacity - CurrentUnusedCapacity(c)
                                 ELSE connectingCapacity,
         \/ listed' = listed /\ held' = held /\ state[c] = "Connecting"
         \/ listed' = listed \ {c} /\ held' = held \ {c},
         UNCHANGED <<state, limit, configured, debt, open, on, numActiveStreams>>
  PROVE  ClientPart' /\ remaining'[c] = 0 /\ \A f \in Elements(stack) : FrameOK(f)'
<1>1. ClientTyped /\ Books
  BY DEF ClientPart
<1>2. ClientTyped' /\ remaining'[c] = 0
  BY <1>1 DEF ClientTyped
<1>3. \A d \in Clients : NumActiveStreams(d)' = NumActiveStreams(d)
  BY DEF NumActiveStreams
<1>4. NumActiveStreams(c) \in Nat /\ CurrentUnusedCapacity(c) \in Nat /\ limit[c] \in Nat
  BY <1>1, CapacityTypes DEF ClientTyped
<1>5. CurrentUnusedCapacity(c)' = 0
  BY SMTT(30), <1>2, <1>3, <1>4 DEF CurrentUnusedCapacity, UnusedCapacity
<1>6. c \notin listed => CurrentUnusedCapacity(c) = 0
  BY SMTT(30), <1>1, <1>4 DEF Books, ClientOK, CurrentUnusedCapacity, UnusedCapacity
<1>7. ClientOK(c)'
  BY <1>1, <1>2, <1>3 DEF Books, ClientOK
<1>8. totalCapacity \in Nat /\ connectingCapacity \in Nat
  BY BooksTypes DEF ClientPart
<1>9. /\ totalCapacity' = totalCapacity - TotalShare(c) + TotalShare(c)'
      /\ connectingCapacity' = connectingCapacity - ConnectingShare(c) + ConnectingShare(c)'
  <2>1. /\ TotalShare(c) = CurrentUnusedCapacity(c) /\ TotalShare(c)' = 0
        /\ ConnectingShare(c) = IF state[c] = "Connecting" THEN CurrentUnusedCapacity(c) ELSE 0
        /\ ConnectingShare(c)' = 0
    BY <1>5, <1>6 DEF TotalShare, ConnectingShare
  <2> QED BY SMTT(30), <1>4, <1>8, <2>1
<1>10. Books'
  <2>1. \A d \in Clients \ {c} :
          /\ state'[d] = state[d] /\ remaining'[d] = remaining[d]
          /\ limit'[d] = limit[d] /\ debt'[d] = debt[d]
    BY <1>1 DEF ClientTyped
  <2>2. listed' \ {c} = listed \ {c}
    OBVIOUS
  <2> QED BY <1>1, <1>2, <1>3, <1>7, <1>9, <2>1, <2>2, OneClientStep
<1>11. ActiveStreamsAreCounted'
  BY DEF ClientPart, ActiveStreamsAreCounted
<1>12. ASSUME NEW f \in Elements(stack) PROVE FrameOK(f)'
  <2>1. FrameOK(f) /\ f.cs \subseteq Clients
    BY SMTT(30) DEF StackPart, Elements, Frames
  <2>2. \A d \in Clients : remaining[d] = 0 => remaining'[d] = 0
    BY <1>1 DEF ClientTyped
  <2>3. listed' \subseteq listed
    OBVIOUS
  <2> QED BY <2>1, <2>2, <2>3 DEF FrameOK
<1> QED BY <1>2, <1>10, <1>11, <1>12 DEF ClientPart

-----------------------------------------------------------------------------
(* Counting *)

(* What the books say of the sizes of sets follows from the invariant. *)
LEMMA Counting == ASSUME IInv PROVE Counted
<1>1. ClientTyped /\ Books /\ ActiveStreamsAreCounted
  BY DEF IInv, ClientPart
<1>2. \A c \in Clients : NumActiveStreams(c) \in Nat /\ CurrentUnusedCapacity(c) \in Nat
  BY <1>1, CapacityTypes
<1>3. ASSUME NEW c \in Clients PROVE NumActiveStreams(c) = 0 <=> \A s \in Streams : on[s] # c
  <2>1. IsFiniteSet({s \in Streams : on[s] = c})
    BY ConnPoolAssumption, FS_Subset
  <2>2. NumActiveStreams(c) = 0 <=> {s \in Streams : on[s] = c} = {}
    BY <2>1, FS_EmptySet DEF NumActiveStreams
  <2> QED BY <2>2
<1>4. connectingCapacity \in Nat /\ totalCapacity \in Nat /\ numActiveStreams \in Nat
  BY <1>1, BooksTypes
<1>5. ASSUME listed = {} PROVE totalCapacity = 0 /\ connectingCapacity = 0
  <2>1. Units(listed) = {} /\ Units(InState("Connecting")) = {}
    BY <1>5 DEF Units, InState
  <2>2. Cardinality(Units(listed)) = 0 /\ Cardinality(Units(InState("Connecting"))) = 0
    BY <2>1, FS_EmptySet
  <2> QED BY <1>1, <2>2 DEF Books
<1> QED BY <1>2, <1>3, <1>4, <1>5 DEF Counted

(* A step that takes a stream off a client lowers the client's count. *)
LEMMA DetachCounts ==
  ASSUME IInv, NEW s \in Streams, NEW c \in Clients,
         on[s] = c, on' = [on EXCEPT ![s] = NoClient]
  PROVE  NumActiveStreams(c)' = NumActiveStreams(c) - 1
<1>1. ClientTyped /\ NoClient # c
  BY ConnPoolAssumption DEF IInv, ClientPart
<1> QED BY <1>1, ClientCounts

-----------------------------------------------------------------------------
(* What the invariants say of a single state *)

(* No call is in progress when the pool is at rest. *)
LEMMA NoCalls ==
  ASSUME Quiescent
  PROVE  /\ \A f : f \notin Elements(stack)
         /\ \A ops : ~Doing(ops) /\ \A c : ~DoingTo(ops, c)
<1>1. Elements(stack) = {}
  BY ElementsSmall DEF Quiescent
<1> QED BY <1>1 DEF Doing, DoingTo

(* The members of the pool have their types. *)
LEMMA TypesHold ==
  ASSUME IInv
  PROVE  TypeOK
<1>1. connectingCapacity \in Nat /\ totalCapacity \in Nat /\ numActiveStreams \in Nat
  BY BooksTypes DEF IInv, ClientPart
<1>2. ClientTyped /\ PoolTyped /\ stack \in Seq(Frames)
  BY DEF IInv, ClientPart, QueuePart, StackPart
<1> QED BY <1>1, <1>2 DEF ClientTyped, PoolTyped, TypeOK

(* The capacity counters agree with the lists. *)
LEMMA CapacityHolds ==
  ASSUME IInv
  PROVE  CapacityCountsAreCorrect
<1>1. ClientTyped /\ Books
  BY DEF IInv, ClientPart
<1>2. ASSUME NEW c \in InState("Draining") PROVE CurrentUnusedCapacity(c) = 0
  <2>1. c \in Clients /\ remaining[c] = 0
    BY <1>1 DEF InState, ClientTyped, Books, ClientOK
  <2>2. NumActiveStreams(c) \in Nat /\ limit[c] \in Nat
    BY <1>1, <2>1, CapacityTypes DEF ClientTyped
  <2> QED BY SMTT(30), <2>1, <2>2 DEF CurrentUnusedCapacity, UnusedCapacity
<1>3. ASSUME NEW c \in InState("Busy") PROVE CurrentUnusedCapacity(c) = 0
  BY <1>1 DEF InState, ClientTyped, Books, ClientOK
<1>4. ASSUME NEW c \in InState("Ready") PROVE CurrentUnusedCapacity(c) > 0
  BY <1>1 DEF InState, ClientTyped, Books, ClientOK
<1> QED BY <1>1, <1>2, <1>3, <1>4 DEF Books, CapacityCountsAreCorrect

(* A stream is in one place. *)
LEMMA PlaceHolds ==
  ASSUME IInv, PlacePart
  PROVE  StreamIsInOnePlace
<1>1. pending \in Seq(Streams) /\ purging \in Seq(Streams)
  BY DEF IInv, QueuePart, PoolTyped
<1>2. /\ \A i, j \in 1..Len(pending) : pending[i] = pending[j] => i = j
      /\ \A i \in 1..Len(pending) : on[pending[i]] = NoClient
      /\ \A i, j \in 1..Len(purging) : purging[i] = purging[j] => i = j
      /\ \A i \in 1..Len(purging) : on[purging[i]] = NoClient
  BY DEF IInv, QueuePart, PlacePart
<1>3. \A i \in 1..Len(purging), j \in 1..Len(pending) : purging[i] # pending[j]
  <2>1. \A x : ~(x \in Elements(purging) /\ x \in Elements(pending))
    BY DEF PlacePart
  <2>2. /\ \A i \in 1..Len(purging) : purging[i] \in Elements(purging)
        /\ \A i \in 1..Len(pending) : pending[i] \in Elements(pending)
    BY DEF Elements
  <2> QED BY <2>1, <2>2
<1> DEFINE q == purging \o pending
           m == Len(purging)
           n == Len(pending)
<1>4. /\ m \in Nat /\ n \in Nat /\ Len(q) = m + n
      /\ \A i \in 1..m : q[i] = purging[i]
      /\ \A i \in (m + 1)..(m + n) : q[i] = pending[i - m]
  BY SMTT(30), <1>1
<1> HIDE DEF q, m, n
<1>5. \A i \in 1..Len(q) : i \in 1..m \/ (i \in (m + 1)..(m + n) /\ i - m \in 1..n)
  BY SMTT(30), <1>4
<1>6. ASSUME NEW i \in 1..Len(q) PROVE on[q[i]] = NoClient
  <2>1. CASE i \in 1..m
    BY <1>2, <1>4, <2>1 DEF m
  <2>2. CASE i \in (m + 1)..(m + n) /\ i - m \in 1..n
    <3>1. on[pending[i - m]] = NoClient
      BY <1>2, <2>2 DEF n
    <3>2. q[i] = pending[i - m]
      BY <1>4, <2>2
    <3> QED BY <3>1, <3>2
  <2> QED BY <1>5, <2>1, <2>2
<1>7. ASSUME NEW i \in 1..Len(q), NEW j \in 1..Len(q), q[i] = q[j] PROVE i = j
  <2>1. CASE i \in 1..m /\ j \in 1..m
    BY <1>2, <1>4, <1>7, <2>1 DEF m
  <2>2. CASE i - m \in 1..n /\ j - m \in 1..n /\ i \in (m + 1)..(m + n) /\ j \in (m + 1)..(m + n)
    <3>1. q[i] = pending[i - m] /\ q[j] = pending[j - m]
      BY <1>4, <2>2
    <3>2. pending[i - m] = pending[j - m]
      BY <1>7, <3>1
    <3>3. i - m = j - m
      BY <1>2, <2>2, <3>2 DEF n
    <3> QED BY SMTT(30), <1>4, <2>2, <3>3
  <2>3. CASE i \in 1..m /\ j \in (m + 1)..(m + n) /\ j - m \in 1..n
    BY <1>3, <1>4, <1>7, <2>3 DEF m, n
  <2>4. CASE j \in 1..m /\ i \in (m + 1)..(m + n) /\ i - m \in 1..n
    BY <1>3, <1>4, <1>7, <2>4 DEF m, n
  <2> QED BY <1>5, <2>1, <2>2, <2>3, <2>4
<1> QED BY <1>6, <1>7 DEF StreamIsInOnePlace, q

(* The destructor runs last, in a pool that was deleted. *)
LEMMA DestructionHolds ==
  ASSUME IInv, Counted, OrderPart, PurgePart
  PROVE  DestructorLeavesNothing
<1> SUFFICES ASSUME Running("destroy"), listed = {}
             PROVE  /\ pending = <<>> /\ purging = <<>>
                    /\ totalCapacity = 0 /\ connectingCapacity = 0
  BY DEF DestructorLeavesNothing
<1>1. stack \in Seq(Frames) /\ Orderly(stack) /\ Head(stack).op = "destroy"
  BY DEF IInv, StackPart, OrderPart, Running
<1>2. Elements(stack) = {Head(stack)}
  BY <1>1, OutermostCall
<1>3. deleted
  BY <1>1, <1>2 DEF IInv, StackPart
<1>4. ~Doing({"purge"})
  <2>1. "destroy" # "purge"
    OBVIOUS
  <2> QED BY <1>1, <1>2, <2>1 DEF Doing
<1> QED BY <1>3, <1>4 DEF PurgePart, Counted

(* The draining of the existing connections is the last call. *)
LEMMA DrainedHolds ==
  ASSUME IInv, Counted, OrderPart, DrainPart
  PROVE  DrainedClientsAreNotIdle
<1> SUFFICES ASSUME Running("drainRest"), NEW c \in InState("Ready")
             PROVE  NumActiveStreams(c) > 0
  BY DEF DrainedClientsAreNotIdle
<1>1. stack \in Seq(Frames) /\ Orderly(stack) /\ Head(stack).op = "drainRest"
  BY DEF IInv, StackPart, OrderPart, Running
<1>2. Elements(stack) = {Head(stack)}
  BY <1>1, OutermostCall
<1>3. Doing({"drainRest"})
  BY <1>1, <1>2 DEF Doing
<1>4. "drainRest" \notin {"closeIdle"} /\ "drainRest" \notin {"closeAll", "close", "lost"}
  OBVIOUS
<1>5. ~Doing({"closeIdle"}) /\ ~Tended(c)
  BY <1>1, <1>2, <1>4 DEF Doing, Tended, DoingTo
<1>6. NumActiveStreams(c) # 0
  BY <1>3, <1>5 DEF DrainPart, IdleTended
<1>7. c \in Clients
  BY DEF InState, IInv, ClientPart, ClientTyped
<1>8. NumActiveStreams(c) \in Nat
  BY <1>7 DEF Counted
<1> HIDE DEF NumActiveStreams
<1> QED BY SMTT(30), <1>6, <1>8

(* No client is ready when a stream has been queued. *)
LEMMA DemandHolds ==
  ASSUME IInv, Counted, OrderPart
  PROVE  QueuedStreamGetsConnection
<1> SUFFICES ASSUME Running("tryCreate"), Head(stack).n = 3, Head(stack).s # NoStream, OnDemand
             PROVE  FALSE \notin ShouldCreateNewConnection(0)
  BY DEF QueuedStreamGetsConnection
<1>1. Head(stack) \in Elements(stack) /\ Fresh(Head(stack))
  BY RestTypes DEF IInv, StackPart, Fresh
<1>2. InState("Ready") = {}
  BY <1>1 DEF OrderPart
<1>3. ClientTyped /\ Books
  BY DEF IInv, ClientPart
<1>4. ASSUME NEW c \in listed, state[c] # "Connecting" PROVE 1..CurrentUnusedCapacity(c) = {}
  <2>1. c \in Clients /\ state[c] \in States /\ ClientOK(c)
    BY <1>3 DEF ClientTyped, Books
  <2>2. state[c] # "Closed" /\ state[c] # "Ready"
    BY <1>2, <2>1 DEF InState, ClientOK
  <2>3. state[c] = "Busy" \/ state[c] = "Draining"
    BY <1>4, <2>1, <2>2 DEF States
  <2>4. CurrentUnusedCapacity(c) = 0 \/ remaining[c] = 0
    BY <2>1, <2>3 DEF ClientOK
  <2>5. NumActiveStreams(c) \in Nat /\ limit[c] \in Nat
    BY <1>3, <2>1, CapacityTypes DEF ClientTyped
  <2>6. CurrentUnusedCapacity(c) = 0
    BY SMTT(30), <2>4, <2>5 DEF CurrentUnusedCapacity, UnusedCapacity
  <2> QED BY SMTT(30), <2>6
<1>5. Units(listed) = Units(InState("Connecting"))
  <2>1. InState("Connecting") \subseteq listed
    BY DEF InState
  <2>2. Units(InState("Connecting")) \subseteq Units(listed)
    BY <2>1 DEF Units
  <2>3. ASSUME NEW u \in Units(listed) PROVE u \in Units(InState("Connecting"))
    <3>1. PICK c \in listed : u \in {c} \X (1..CurrentUnusedCapacity(c))
      BY DEF Units
    <3>2. 1..CurrentUnusedCapacity(c) # {}
      BY <3>1
    <3>3. c \in InState("Connecting")
      BY <1>4, <3>2 DEF InState
    <3> QED BY <3>1, <3>3 DEF Units
  <2> QED BY <2>2, <2>3
<1>6. totalCapacity = connectingCapacity
  BY <1>3, <1>5 DEF Books
<1>7. /\ Len(pending) \in Nat /\ totalCapacity \in Nat /\ numActiveStreams \in Nat
      /\ RatioHalves \in Nat /\ RatioHalves >= 2
  <2>1. pending \in Seq(Streams)
    BY DEF IInv, QueuePart, PoolTyped
  <2>2. Len(pending) \in Nat
    BY SMTT(30), <2>1
  <2> QED BY <2>2, ConnPoolAssumption DEF Counted
<1>8. Len(pending) > totalCapacity
  BY <1>6 DEF OnDemand
<1>9. ShouldConnect(RatioHalves, 0)
  <2> DEFINE w == Len(pending) + numActiveStreams + 0
  <2>1. w \in Nat /\ w > totalCapacity + numActiveStreams
    BY SMTT(30), <1>7, <1>8
  <2> HIDE DEF w
  <2>2. PICK r \in Nat : RatioHalves = r + 2
    BY SMTT(30), <1>7
  <2>3. w * RatioHalves = w * r + w * 2 /\ w * r \in Nat
    BY SMTT(30), <2>1, <2>2
  <2>4. w * RatioHalves > 2 * (totalCapacity + numActiveStreams)
    BY SMTT(30), <1>7, <2>1, <2>3
  <2> QED BY <2>4 DEF ShouldConnect, w
<1>10. ShouldCreateNewConnection(0) = {OnDemand, ShouldConnect(RatioHalves, 0)}
  BY SMTT(30) DEF ShouldCreateNewConnection
<1> HIDE DEF OnDemand, ShouldConnect
<1> QED BY <1>9, <1>10

(* A draining client without streams is being closed. *)
LEMMA DrainingHolds ==
  ASSUME 0 \notin Settings, IInv, Counted, DrainedClosing
  PROVE  DrainingClientHasStreams
<1> SUFFICES ASSUME Quiescent, NEW c \in InState("Draining") PROVE NumActiveStreams(c) > 0
  BY DEF DrainingClientHasStreams
<1>1. NumActiveStreams(c) # 0
  BY NoCalls DEF DrainedClosing
<1>2. c \in Clients
  BY DEF InState, IInv, ClientPart, ClientTyped
<1>3. NumActiveStreams(c) \in Nat
  BY <1>2 DEF Counted
<1> HIDE DEF NumActiveStreams
<1> QED BY SMTT(30), <1>1, <1>3

(* A client of an idle draining pool is being closed, whatever its state. *)
LEMMA WorkHolds ==
  ASSUME 0 \notin Settings, IInv, Counted, LimitPart, DrainedClosing, IdleClosing, EmptyPart
  PROVE  DrainingPoolHasWork
<1> SUFFICES ASSUME Quiescent, draining, ~deleted, pending = <<>>, InState("Connecting") = {},
                    \A s \in Streams : on[s] \notin listed
             PROVE  FALSE
  BY DEF DrainingPoolHasWork
<1>1. PICK c \in listed : TRUE
  BY NoCalls DEF EmptyPart
<1>2. c \in Clients /\ state[c] \in States /\ ClientOK(c)
  BY DEF IInv, ClientPart, ClientTyped, Books
<1>3. NumActiveStreams(c) = 0
  <2>1. \A d \in Clients : NumActiveStreams(d) = 0 <=> \A s \in Streams : on[s] # d
    BY DEF Counted
  <2>2. \A s \in Streams : on[s] # c
    BY <1>1
  <2> QED BY <1>2, <2>1, <2>2
<1>4. state[c] # "Ready"
  BY <1>3, NoCalls DEF InState, IdleClosing, Tended
<1>5. state[c] # "Draining"
  BY <1>3, NoCalls DEF InState, DrainedClosing
<1>6. state[c] = "Busy"
  <2>1. state[c] # "Connecting" /\ state[c] # "Closed"
    BY <1>2 DEF InState, ClientOK
  <2> QED BY <1>2, <1>4, <1>5, <2>1 DEF States
<1>7. CurrentUnusedCapacity(c) = 0
  BY <1>2, <1>6 DEF ClientOK
<1>8. limit[c] > 0 /\ remaining[c] > 0
  BY <1>6 DEF LimitPart
<1>9. limit[c] \in Nat /\ remaining[c] \in Nat
  BY <1>2 DEF IInv, ClientPart, ClientTyped
<1> QED BY SMTT(30), <1>3, <1>7, <1>8, <1>9 DEF CurrentUnusedCapacity, UnusedCapacity

(* A deleted pool has no client, hence no capacity. *)
LEMMA DeletedHolds ==
  ASSUME RatioHalves = 2, IInv, Counted, PurgePart, DeletedPart
  PROVE  DeletedPoolStaysIdle
<1> SUFFICES ASSUME deleted, Call("destroy") \notin Elements(stack)
             PROVE  /\ pending = <<>> /\ listed = {}
                    /\ totalCapacity = 0 /\ connectingCapacity = 0
  BY DEF DeletedPoolStaysIdle
<1>1. ~Doing({"destroy"})
  BY DEF Doing, IInv, StackPart
<1>2. listed = {}
  BY <1>1 DEF DeletedPart
<1> QED BY <1>2 DEF PurgePart, Counted

=============================================================================
