---------------------------- MODULE ConfigReload ----------------------------
(***************************************************************************)
(* Reloading the pool configuration: the Watcher on the config file, Base  *)
(* (which reads the file and tells its listeners) and Network (which       *)
(* replaces the user strategy when the pools changed).                     *)
(*                                                                         *)
(* Watcher::reload() calls m_listener->onFileChanged(path).  Base is that  *)
(* listener; it is not in the repository, and xmrig's Base::onFileChanged *)
(* reads the file into a new Config, swaps it with the current one and     *)
(* calls onConfigChanged(config, previous) on every config listener, among *)
(* them Network.  A pool list is abstracted to a member of PoolSets, one   *)
(* of which (Inactive) has no enabled pool.                                *)
(***************************************************************************)
EXTENDS Naturals

CONSTANTS
  MaxChanges, Named,          \* Watcher's constants
  HasDonate, MaxJobs, MaxGens, \* Network's constants
  PoolSets,  \* the pool lists a configuration file may hold
  Inactive   \* the one of them for which pools().active() is false

ASSUME Inactive \in PoolSets /\ PoolSets \ {Inactive} # {}
\* Every change may replace the strategy, so the strategy bound never blocks
\* a reload.
ASSUME MaxGens > MaxChanges

VARIABLES
  content, readVer, watch, queued, named, timer, phase, alive,
  donate, gen, userActive, userJob, donateJob, minerJob, minerIndex,
  paused, results, submitted, issued,
  filePools,     \* the pools written in the file on disk
  configPools,   \* the pools of the Config Base holds (its m_config)
  strategyPools  \* the pools m_strategy was created from

W == INSTANCE Watcher
Net == INSTANCE Network

watcherVars == <<content, readVer, watch, queued, named, timer, phase, alive>>
networkVars == <<donate, gen, userActive, userJob, donateJob, minerJob,
                 minerIndex, paused, results, submitted, issued>>
poolVars == <<filePools, configPools, strategyPools>>
vars == <<watcherVars, networkVars, poolVars>>

\* The process starts from a file with enabled pools: Base reads it, and
\* Network's constructor creates the strategy from its pools.
Init ==
  /\ W!Init /\ Net!Init
  /\ \E p \in PoolSets \ {Inactive} :
       filePools = p /\ configPools = p /\ strategyPools = p

\* Another process rewrites the file with the pool list p.
Change(n, p) ==
  /\ W!Change(n)
  /\ filePools' = p
  /\ UNCHANGED <<networkVars, configPools, strategyPools>>

\* Mutant: the early return does not check that the new pools are active.
PoolsChangedIgnoringActive(previous, config) == previous # config

\* Network::onConfigChanged goes on past its early return only when the
\* pools differ from the previous configuration's and some pool is enabled.
PoolsChanged(previous, config) == previous # config /\ config # Inactive

\* Base::onFileChanged: the configuration read becomes current, and
\* Network::onConfigChanged(config, previous) replaces the strategy when
\* the pools changed.
OnFileChanged ==
  /\ configPools' = filePools
  /\ IF PoolsChanged(configPools, filePools)
     THEN Net!OnConfigChanged /\ strategyPools' = filePools
     ELSE UNCHANGED <<networkVars, strategyPools>>

\* The debounce timer fires: reload() calls the listener, which reads the
\* file and notifies Network, all within the one timer callback.
Reload == W!OnTimer /\ OnFileChanged /\ UNCHANGED filePools

FsEvent == W!OnFsEvent /\ UNCHANGED <<networkVars, poolVars>>
Restart == W!Restart /\ UNCHANGED <<networkVars, poolVars>>
Destroy == W!Destroy /\ UNCHANGED <<networkVars, poolVars>>

\* Every Network callback other than onConfigChanged.
NetworkStep ==
  /\ \/ Net!UserConnect \/ Net!UserNewJob \/ Net!UserLost
     \/ Net!DonateStart \/ Net!DonateNewJob \/ Net!DonateEnd
     \/ Net!Found \/ \E r \in results : Net!OnJobResult(r)
  /\ UNCHANGED <<watcherVars, poolVars>>

Next ==
  \/ \E n \in Named, p \in PoolSets : Change(n, p)
  \/ FsEvent \/ Reload \/ Restart \/ Destroy
  \/ NetworkStep

\* The libuv loop delivers fs events and due timers and finishes the
\* callback it runs, as for the Watcher alone.
Fairness == WF_vars(FsEvent) /\ WF_vars(Reload) /\ WF_vars(Restart)

Spec == Init /\ [][Next]_vars /\ Fairness

-----------------------------------------------------------------------------
\* The Watcher's debounce (queueUpdate) still ends every pending named
\* change in a reload when the reload also replaces the strategy.
PendingChangeReloaded == W!PendingChangeReloaded

\* onJobResult routes results to the strategy kind of their job also
\* across strategy replacements by onConfigChanged.
ResultsReachTheirKind == Net!ResultsReachTheirKind

\* The miner works on the current strategy's job also across reloads.
MinerOnCurrentJob == Net!MinerOnCurrentJob

\* Network::onConfigChanged keeps the strategy's pools in step with the
\* configuration Base holds: the strategy always has an enabled pool, and
\* runs exactly the configured pools whenever those have one.  A reload of
\* a file whose pools are all disabled keeps the previous strategy.
StrategyFollowsConfig ==
  /\ strategyPools # Inactive
  /\ configPools # Inactive => strategyPools = configPools

\* A file written with enabled pools is eventually mined with: unless it is
\* rewritten or the Watcher is deleted, the strategy ends up created from
\* those pools.
PoolsEventuallyApplied ==
  \A p \in PoolSets \ {Inactive} :
    (filePools = p) ~> (strategyPools = p \/ filePools # p \/ ~alive)
=============================================================================
