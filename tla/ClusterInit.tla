----------------------------- MODULE ClusterInit -----------------------------
(***************************************************************************)
(* The start-up of the cluster manager: ClusterManagerInitHelper, the maps *)
(* of active and warming clusters of ClusterManagerImpl, and the CDS       *)
(* subscription that adds, updates and removes clusters meanwhile.         *)
(*                                                                         *)
(* Everything runs on the main thread, so one action is one turn of it     *)
(* with all the nested calls.  A cluster may finish its initialisation     *)
(* inside the call of initialize() ("sync") or in a later turn.  A cluster *)
(* object is a record: the id stands for its address, so that an object    *)
(* that is replaced by one of the same name is told apart from it.         *)
(***************************************************************************)
EXTENDS Naturals, FiniteSets, SequencesExt

CONSTANTS
  StaticNames,      \* clusters of the bootstrap
  CdsNames,         \* names CDS may mention
  Configs,          \* cluster configurations (config_hash_)
  Bootstrap,        \* the configuration of each cluster of the bootstrap
  SecondaryConfigs, \* those whose initializePhase() is Secondary
  Rejected,         \* those loadCluster() refuses
  PhaseChanges,     \* CDS may change the phase of a cluster that is warming
  MaxUpdates,       \* bound on CDS updates
  MaxMentioned      \* bound on the clusters of a CDS update

ASSUME ClusterInitAssumption ==
  /\ IsFiniteSet(StaticNames) /\ IsFiniteSet(CdsNames)
  /\ SecondaryConfigs \subseteq Configs /\ Rejected \subseteq Configs
  /\ Bootstrap \in [StaticNames -> Configs \ Rejected]
  /\ PhaseChanges \in BOOLEAN
  /\ {MaxUpdates, MaxMentioned} \subseteq Nat

VARIABLES
  cm,           \* the helper and the manager, a record of HelperStates
  startup,      \* how far the server has come: "load", "loaded", "initialized", "running"
  cdsCallback,  \* initialize_callback_ of the CDS subscription is set
  updates       \* history: CDS updates so far; the id of the next one's objects

vars == <<cm, startup, cdsCallback, updates>>

Names == StaticNames \cup CdsNames

\* ClusterData: api is added_via_api_.
Clusters == [id : 0..MaxUpdates, name : Names, config : Configs, api : BOOLEAN]

States == {"Loading", "WaitingForPrimaryInitializationToComplete",
           "WaitingToStartSecondaryInitialization", "WaitingToStartCdsInitialization",
           "CdsInitialized", "AllClustersInitialized"}

\* primary and secondary are the maps of the helper, initializing the clusters whose
\* initialize() was called with its callback; active and warming are the maps of the
\* manager, reloading the clusters that report to the manager itself.
HelperStates ==
  [state : States, started : BOOLEAN,
   primary : SUBSET Clusters, secondary : SUBSET Clusters, initializing : SUBSET Clusters,
   active : SUBSET Clusters, warming : SUBSET Clusters, reloading : SUBSET Clusters,
   hasCds : BOOLEAN, cdsStarted : BOOLEAN, cdsPaused : BOOLEAN,
   primaryCb : BOOLEAN, initializedCb : BOOLEAN, \* callbacks that are set
   rtds : {"off", "loading", "ready"},           \* startRtdsSubscriptions()
   finished : 0..2]                              \* calls of initialized_callback_

Secondary(c) == c.config \in SecondaryConfigs

Named(S, name) == {c \in S : c.name = name}

NamesOf(S) == {c.name : c \in S}

\* insert_or_assign(), operator[] and std::exchange() of a map keyed by name.
Put(S, c) == (S \ Named(S, c.name)) \cup {c}

\* What is no longer in a map of the manager is destroyed, and its callback with it.
Destroyed(m) ==
  [m EXCEPT !.initializing = @ \cap (m.active \cup m.warming),
            !.reloading = @ \cap (m.active \cup m.warming)]

\* CDS, and with it the ACK, is held back while clusters warm.
UpdateClusterCounts(m) ==
  IF m.state = "AllClustersInitialized"
    THEN [m EXCEPT !.cdsPaused = m.warming # {}] ELSE m

\* Mutant: the callback after start-up leaves the counts alone.
ManagerOnClusterInitWithoutCounts(m, S) ==
  LET W == {c \in m.warming : \E d \in S : d.name = c.name}
  IN Destroyed([m EXCEPT !.active = {c \in @ : \A w \in W : w.name # c.name} \cup W,
                         !.warming = @ \ W])

\* ClusterManagerImpl::onClusterInit() for the clusters of S: what is warming under their
\* names becomes active.
ManagerOnClusterInit(m, S) ==
  LET W == {c \in m.warming : \E d \in S : d.name = c.name}
  IN IF W = {} THEN m
     ELSE UpdateClusterCounts(Destroyed(
            [m EXCEPT !.active = {c \in @ : \A w \in W : w.name # c.name} \cup W,
                      !.warming = @ \ W]))

\* The end of maybeFinishInitialize(), when no cluster is outstanding.
FinishInitialize(m) ==
  IF m.state = "WaitingToStartSecondaryInitialization" /\ m.hasCds
    THEN [m EXCEPT !.started = FALSE, !.state = "WaitingToStartCdsInitialization",
                   !.cdsStarted = TRUE]
    ELSE [m EXCEPT !.started = FALSE, !.state = "AllClustersInitialized",
                   !.finished = IF m.initializedCb THEN @ + 1 ELSE @]

\* A cluster that completes calls maybeFinishInitialize(), which may initialise others.
RECURSIVE MaybeFinishInitialize(_, _)

\* Mutant: the entry is found by the name alone.
HelperRemoveClusterByName(m, c, sync) ==
  IF m.state = "AllClustersInitialized" THEN m
  ELSE MaybeFinishInitialize(
         IF Secondary(c) THEN [m EXCEPT !.secondary = @ \ Named(@, c.name)]
                         ELSE [m EXCEPT !.primary = @ \ Named(@, c.name)], sync)

HelperRemoveCluster(m, c, sync) ==
  IF m.state = "AllClustersInitialized" THEN m
  ELSE MaybeFinishInitialize(
         IF Secondary(c) THEN [m EXCEPT !.secondary = @ \ {c}]
                         ELSE [m EXCEPT !.primary = @ \ {c}], sync)

\* The callback a cluster was initialised with by the helper.
HelperOnClusterInit(m, c, sync) ==
  HelperRemoveCluster(
    ManagerOnClusterInit([m EXCEPT !.initializing = @ \ {c}], {c}), c, sync)

\* cluster.initialize(initialize_cb)
Initialize(m, c, sync) ==
  IF c.name \in sync THEN HelperOnClusterInit(m, c, sync)
                     ELSE [m EXCEPT !.initializing = @ \cup {c}]

\* initializeSecondaryClusters(): the clusters that are in the map one by one.  One that
\* completes at once leaves the map within the loop, and the last one goes on to what is next.
InitializeSecondaryClusters(m, sync) ==
  FoldSet(LAMBDA c, k : Initialize(k, c, sync), [m EXCEPT !.started = TRUE], m.secondary)

\* Mutant: the server is not asked before the secondary clusters are initialised.
MaybeFinishInitializeAtOnce(m, sync) ==
  IF m.state \in {"Loading", "WaitingToStartCdsInitialization"} \/ m.primary # {} THEN m
  ELSE IF m.secondary = {} THEN FinishInitialize(m)
  ELSE IF m.started THEN m ELSE InitializeSecondaryClusters(m, sync)

MaybeFinishInitialize(m, sync) ==
  IF m.state \in {"Loading", "WaitingToStartCdsInitialization"} \/ m.primary # {} THEN m
  ELSE IF m.state = "WaitingForPrimaryInitializationToComplete"
    THEN [m EXCEPT !.state = "WaitingToStartSecondaryInitialization",
                   !.rtds = IF m.primaryCb THEN "loading" ELSE @]
  ELSE IF m.secondary = {} THEN FinishInitialize(m)
  ELSE IF m.started THEN m ELSE InitializeSecondaryClusters(m, sync)

\* Mutant: a secondary cluster that comes late waits for a start that is over.
AddClusterWithoutInitialize(m, c, sync) ==
  IF ~Secondary(c) THEN Initialize([m EXCEPT !.primary = Put(@, c)], c, sync)
  ELSE [m EXCEPT !.secondary = Put(@, c)]

AddCluster(m, c, sync) ==
  IF ~Secondary(c) THEN Initialize([m EXCEPT !.primary = Put(@, c)], c, sync)
  ELSE LET n == [m EXCEPT !.secondary = Put(@, c)]
       IN IF m.started THEN Initialize(n, c, sync) ELSE n

\* blockUpdate() of the warming cluster of that name, or else of the active one.
Blocked(m, name, config) ==
  LET W == Named(m.warming, name)
  IN \E c \in IF W # {} THEN W ELSE Named(m.active, name) : ~c.api \/ c.config = config

AddOrUpdateCluster(m, name, config, id, sync) ==
  LET n == FoldSet(LAMBDA c, k : HelperRemoveCluster(k, c, sync), m, Named(m.active, name))
      c == [id |-> id, name |-> name, config |-> config, api |-> TRUE]
      loaded == UpdateClusterCounts([n EXCEPT !.warming = Put(@, c)])
  IN IF Blocked(m, name, config) THEN m
     ELSE IF config \in Rejected THEN n
     ELSE Destroyed(
            IF n.state # "AllClustersInitialized" THEN AddCluster(loaded, c, sync)
            ELSE IF name \in sync THEN ManagerOnClusterInit(loaded, {c})
            ELSE [loaded EXCEPT !.reloading = @ \cup {c}])

\* ClusterManagerImpl::removeCluster()
RemoveCluster(m, name, sync) ==
  LET Api(S) == {c \in Named(S, name) : c.api}
      n == FoldSet(LAMBDA c, k : [HelperRemoveCluster(k, c, sync) EXCEPT !.active = @ \ {c}],
                   m, Api(m.active))
      o == FoldSet(LAMBDA c, k : [HelperRemoveCluster(k, c, sync) EXCEPT !.warming = @ \ {c}],
                   n, Api(n.warming))
  IN Destroyed(UpdateClusterCounts(o))

Init ==
  /\ cm \in
       [state : {"Loading"}, started : {FALSE},
        primary : {{}}, secondary : {{}}, initializing : {{}},
        active : {{[id |-> 0, name |-> n, config |-> Bootstrap[n], api |-> FALSE]
                     : n \in StaticNames}},
        warming : {{}}, reloading : {{}},
        hasCds : BOOLEAN, cdsStarted : {FALSE}, cdsPaused : {FALSE},
        primaryCb : {FALSE}, initializedCb : {FALSE}, rtds : {"off"}, finished : {0}]
  /\ startup = "load"
  /\ cdsCallback = cm.hasCds
  /\ updates = 0

-----------------------------------------------------------------------------
(* Start-up of the server *)

\* The constructor adds the clusters of the bootstrap.
LoadStaticClusters ==
  /\ startup = "load"
  /\ \E sync \in SUBSET StaticNames :
       LET m == FoldSet(LAMBDA c, k : AddCluster(k, c, sync), cm, cm.active)
       IN cm' = MaybeFinishInitialize(
                  [m EXCEPT !.state = "WaitingForPrimaryInitializationToComplete"], sync)
  /\ startup' = "loaded"
  /\ UNCHANGED <<cdsCallback, updates>>

SetPrimaryClustersInitializedCb ==
  /\ startup = "loaded"
  /\ cm' = IF cm.state = "WaitingToStartSecondaryInitialization"
             THEN [cm EXCEPT !.rtds = "loading"] ELSE [cm EXCEPT !.primaryCb = TRUE]
  /\ startup' = "initialized"
  /\ UNCHANGED <<cdsCallback, updates>>

\* RunHelper registers its callback, then the main thread enters its dispatch loop.
SetInitializedCb ==
  /\ startup = "initialized"
  /\ cm' = IF cm.state = "AllClustersInitialized"
             THEN [cm EXCEPT !.finished = @ + 1] ELSE [cm EXCEPT !.initializedCb = TRUE]
  /\ startup' = "running"
  /\ UNCHANGED <<cdsCallback, updates>>

\* The runtime is loaded, at once when there is no RTDS: onRuntimeReady().
OnRuntimeReady ==
  /\ startup \in {"initialized", "running"} /\ cm.rtds = "loading"
  /\ \E sync \in SUBSET NamesOf(cm.secondary) :
       cm' = MaybeFinishInitialize([cm EXCEPT !.rtds = "ready"], sync)
  /\ UNCHANGED <<startup, cdsCallback, updates>>

(* Events of the dispatch loop *)

\* A cluster completes its initialisation in a turn of its own.
ClusterInitialized ==
  /\ startup = "running"
  /\ UNCHANGED <<startup, cdsCallback, updates>>
  /\ \/ \E c \in cm.initializing, sync \in SUBSET NamesOf(cm.secondary) :
          cm' = HelperOnClusterInit(cm, c, sync)
     \/ \E c \in cm.reloading :
          cm' = ManagerOnClusterInit([cm EXCEPT !.reloading = @ \ {c}], {c})

\* A subscription to a file reads it within start(), which may be before the server runs; the
\* others call from the dispatch loop.
CdsMayCall == cm.cdsStarted /\ (startup = "running" \/ cdsCallback)

\* runInitializeCallbackIfAny()
RunInitializeCallback(m, sync) ==
  IF cdsCallback THEN MaybeFinishInitialize([m EXCEPT !.state = "CdsInitialized"], sync) ELSE m

\* No cluster that is warming is given the other phase; a configuration may be refused.
KeepsPhases(config) ==
  \A c \in cm.warming : c.name \in DOMAIN config /\ config[c.name] \notin Rejected =>
    (Secondary(c) <=> config[c.name] \in SecondaryConfigs)

\* CdsApiHelper::onConfigUpdate(): the clusters of the response in its order, then the
\* removed ones.  A cluster that is refused does not stop the others.
ApplyUpdate(adds, config, removes, sync) ==
  LET m == FoldLeft(LAMBDA k, n : AddOrUpdateCluster(k, n, config[n], updates + 1, sync),
                    cm, adds)
  IN FoldLeft(LAMBDA k, name : RemoveCluster(k, name, sync), m, removes)

\* CdsApiImpl::onConfigUpdate()
CdsUpdate ==
  /\ CdsMayCall /\ updates < MaxUpdates
  /\ \E added \in SUBSET CdsNames :
     \E config \in [added -> Configs], removed \in SUBSET (CdsNames \ added),
        sync \in SUBSET (added \cup NamesOf(cm.secondary)) :
       /\ Cardinality(added \cup removed) <= MaxMentioned
       /\ PhaseChanges \/ KeepsPhases(config)
       /\ \E adds \in SetToSeqs(added), removes \in SetToSeqs(removed) :
            cm' = RunInitializeCallback(ApplyUpdate(adds, config, removes, sync), sync)
  /\ updates' = updates + 1
  /\ cdsCallback' = FALSE
  /\ UNCHANGED startup

\* CdsApiImpl::onConfigUpdateFailed(): a rejected response or the fetch timeout.
CdsUpdateFailed ==
  /\ cdsCallback /\ CdsMayCall
  /\ \E sync \in SUBSET NamesOf(cm.secondary) : cm' = RunInitializeCallback(cm, sync)
  /\ cdsCallback' = FALSE
  /\ UNCHANGED <<startup, updates>>

Next ==
  \/ LoadStaticClusters \/ SetPrimaryClustersInitializedCb \/ SetInitializedCb
  \/ OnRuntimeReady \/ ClusterInitialized \/ CdsUpdate \/ CdsUpdateFailed

Spec == Init /\ [][Next]_vars

\* The server goes on with its start-up.  RTDS and the clusters report in the end, and CDS has
\* answered or fails: their subscriptions have a fetch timeout, and DNS queries and health
\* checks time out.
FairSpec ==
  /\ Spec
  /\ WF_vars(LoadStaticClusters \/ SetPrimaryClustersInitializedCb \/ SetInitializedCb)
  /\ WF_vars(OnRuntimeReady) /\ WF_vars(ClusterInitialized)
  /\ WF_vars(CdsUpdateFailed)

-----------------------------------------------------------------------------
(* Properties *)

\* The type of the state.
TypeOK ==
  /\ cm \in HelperStates
  /\ startup \in {"load", "loaded", "initialized", "running"}
  /\ cdsCallback \in BOOLEAN
  /\ updates \in 0..MaxUpdates

\* addCluster() says of its insert_or_assign() "Remove the previous cluster before the cluster
\* object is destroyed": the maps of the helper point to clusters that exist.
InitClustersAreLive == cm.primary \cup cm.secondary \subseteq cm.active \cup cm.warming

\* The helper waits for exactly the clusters that will still report to it, and for none once
\* it has said that all clusters are initialised: the assertions of addCluster() and
\* onClusterInit() hold, whatever CDS adds, replaces or removes in between.
HelperWaitsForItsClusters ==
  /\ TypeOK
  /\ InitClustersAreLive
  /\ cm.primary \subseteq cm.initializing
  /\ cm.initializing \subseteq cm.primary \cup cm.secondary
  /\ cm.state = "AllClustersInitialized" => cm.primary \cup cm.secondary = {}

\* Until the primary clusters of the bootstrap are initialised and the runtime is loaded, no
\* secondary cluster is initialised and CDS is not started.
SecondaryClustersWait ==
  cm.rtds # "ready" /\ startup # "load" =>
    /\ {c \in cm.active : Secondary(c)} = cm.secondary \ cm.initializing
    /\ ~cm.cdsStarted
    /\ cm.rtds = "loading" => cm.primary = {}

\* updateClusterCounts() holds CDS back while a cluster warms, and only then: once all clusters
\* are initialised CDS is paused exactly when there are warming clusters, each of which will
\* report to the manager, so that CDS does not stay paused for ever.
CdsPausedWhileWarming ==
  /\ cm.cdsPaused <=> cm.state = "AllClustersInitialized" /\ cm.warming # {}
  /\ cm.state = "AllClustersInitialized" => cm.warming = cm.reloading

\* The server is told once that all clusters are initialised, whatever order the clusters, the
\* runtime and CDS report in.
InitializationCompletes == <>[](cm.finished = 1)

=============================================================================
