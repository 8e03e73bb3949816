------------------------------- MODULE Network -------------------------------
(***************************************************************************)
(* Network (src/net/Network.cpp): the listener of the user pool strategy,  *)
(* of the donate strategy and of the miner's results.  It forwards jobs to *)
(* the miner (dropping user jobs while a donate round is active), routes   *)
(* each result to a strategy by result.index, resumes the user strategy    *)
(* when a donate round ends, pauses the miner when no user pool is active  *)
(* and replaces the user strategy when the pool configuration changes.     *)
(*                                                                         *)
(* The strategies (FailoverStrategy, DonateStrategy) and the Miner are not *)
(* in the repository: their behaviour is the environment's actions below,  *)
(* each calling the Network handler the way xmrig's classes do.  A job is  *)
(* a record naming the strategy that issued it: Donor (0) or the number of *)
(* the user strategy (onConfigChanged creates a new one).  Every callback  *)
(* runs on the libuv loop, so each one is a single step.                  *)
(***************************************************************************)
EXTENDS Naturals, FiniteSets

CONSTANTS
  HasDonate,  \* pools.donateLevel() > 0: the constructor creates m_donate
  MaxJobs,    \* bound on the jobs the pools issue
  MaxGens     \* bound on the user strategies (1 + configuration changes)

ASSUME HasDonate \subseteq BOOLEAN /\ HasDonate # {}
ASSUME MaxJobs \in Nat /\ MaxGens \in Nat \ {0}

VARIABLES
  donate,      \* "none" (m_donate is null), "idle" or "active" (isActive())
  gen,         \* which user strategy m_strategy is
  userActive,  \* m_strategy->isActive()
  userJob,     \* the job of m_strategy's active client
  donateJob,   \* the job of the donate client
  minerJob,    \* the job Miner::setJob was given last
  minerIndex,  \* its index: 1 for a donate job, 0 for a user job
  paused,      \* Miner::pause() was called and no job set since
  results,     \* results found by the miner, not yet passed to onJobResult
  submitted,   \* [to, job]: which strategy each result was submitted to
  issued       \* jobs issued so far

vars == <<donate, gen, userActive, userJob, donateJob, minerJob, minerIndex,
          paused, results, submitted, issued>>

Donor == 0
NoJob == [pool |-> Donor, n |-> 0]
Pools == {Donor} \cup 1 .. MaxGens
Job == [pool : Pools, n : 1 .. MaxJobs] \cup {NoJob}

\* Network(controller): createStrategy, and a DonateStrategy if the donate
\* level is positive.  Nothing is connected or mined yet.
Init ==
  /\ donate \in {IF d THEN "idle" ELSE "none" : d \in HasDonate}
  /\ gen = 1 /\ userActive = FALSE /\ userJob = NoJob /\ donateJob = NoJob
  /\ minerJob = NoJob /\ minerIndex = 0 /\ paused = FALSE
  /\ results = {} /\ submitted = {} /\ issued = 0

\* setJob(client, job, donate): DonateStrategy::update for a user job, then
\* Miner::setJob(job, donate), which records the index and resumes mining.
SetJob(j, isDonate) ==
  /\ minerJob' = j
  /\ minerIndex' = IF isDonate THEN 1 ELSE 0
  /\ paused' = FALSE

\* onJob(strategy, client, job), with the donate strategy in state d: a
\* user job is dropped while it is active; otherwise setJob with
\* donate = (m_donate == strategy).
OnJob(from, j, d) ==
  IF d = "active" /\ from # Donor
  THEN UNCHANGED <<minerJob, minerIndex, paused>>
  ELSE SetJob(j, from = Donor)

\* Mutant: onPause does not resume the user strategy after a donate round.
OnPauseNoResume(from, active) ==
  IF ~active
  THEN paused' = TRUE /\ UNCHANGED <<minerJob, minerIndex>>
  ELSE UNCHANGED <<minerJob, minerIndex, paused>>

\* onPause(strategy), called by a strategy that has already changed its
\* state (active: m_strategy->isActive() now): when the donate round
\* ended, m_strategy->resume(), which (FailoverStrategy::resume) hands the
\* active client's job to onJob again; then, if no user pool is active,
\* Miner::pause().
OnPause(from, active) ==
  IF ~active
  THEN paused' = TRUE /\ UNCHANGED <<minerJob, minerIndex>>
  ELSE IF from = Donor /\ userJob # NoJob
       THEN OnJob(gen, userJob, "idle")
       ELSE UNCHANGED <<minerJob, minerIndex, paused>>

\* Mutant: results are routed by whether a donate round is running.
RouteByActivity(r) == IF donate = "active" THEN Donor ELSE gen

\* onJobResult(result): index 1 goes to m_donate when there is one,
\* everything else to the current m_strategy.
Route(r) == IF r.index = 1 /\ donate # "none" THEN Donor ELSE gen

-----------------------------------------------------------------------------
\* The user strategy's client logs in (onActive only logs).
UserConnect ==
  /\ ~userActive
  /\ userActive' = TRUE
  /\ UNCHANGED <<donate, gen, userJob, donateJob, minerJob, minerIndex,
                 paused, results, submitted, issued>>

\* The user pool sends a job: onJob(m_strategy, ...).
UserNewJob ==
  /\ userActive /\ issued < MaxJobs
  /\ issued' = issued + 1
  /\ userJob' = [pool |-> gen, n |-> issued + 1]
  /\ OnJob(gen, userJob', donate)
  /\ UNCHANGED <<donate, gen, userActive, donateJob, results, submitted>>

\* Every user pool is lost: the strategy calls onPause(m_strategy).
UserLost ==
  /\ userActive
  /\ userActive' = FALSE /\ userJob' = NoJob
  /\ OnPause(gen, FALSE)
  /\ UNCHANGED <<donate, gen, donateJob, results, submitted, issued>>

\* The donate strategy's timer starts a round and its client logs in.
DonateStart ==
  /\ donate = "idle"
  /\ donate' = "active"
  /\ UNCHANGED <<gen, userActive, userJob, donateJob, minerJob, minerIndex,
                 paused, results, submitted, issued>>

\* The donate pool sends a job: onJob(m_donate, ...).
DonateNewJob ==
  /\ donate = "active" /\ issued < MaxJobs
  /\ issued' = issued + 1
  /\ donateJob' = [pool |-> Donor, n |-> issued + 1]
  /\ OnJob(Donor, donateJob', donate)
  /\ UNCHANGED <<donate, gen, userActive, userJob, results, submitted>>

\* The round ends: DonateStrategy goes idle, then calls onPause(m_donate).
DonateEnd ==
  /\ donate = "active"
  /\ donate' = "idle" /\ donateJob' = NoJob
  /\ OnPause(Donor, userActive)
  /\ UNCHANGED <<gen, userActive, userJob, results, submitted, issued>>

\* A worker finds a result for the miner's current job and index.
Found ==
  /\ minerJob # NoJob /\ ~paused
  /\ results' = results \cup {[job |-> minerJob, index |-> minerIndex]}
  /\ UNCHANGED <<donate, gen, userActive, userJob, donateJob, minerJob,
                 minerIndex, paused, submitted, issued>>

\* JobResults hands a result to onJobResult on the loop; the strategy
\* chosen by Route submits it.
OnJobResult(r) ==
  /\ r \in results
  /\ results' = results \ {r}
  /\ submitted' = submitted \cup {[to |-> Route(r), job |-> r.job]}
  /\ UNCHANGED <<donate, gen, userActive, userJob, donateJob, minerJob,
                 minerIndex, paused, issued>>

\* onConfigChanged(config, previous) with changed, active pools (otherwise
\* it returns and nothing changes): m_strategy->stop(), which disconnects
\* and calls onPause(m_strategy); delete it, create a new strategy and
\* connect() it (it is not active until a client logs in).
OnConfigChanged ==
  /\ gen < MaxGens
  /\ gen' = gen + 1
  /\ userActive' = FALSE /\ userJob' = NoJob
  /\ OnPause(gen, FALSE)
  /\ UNCHANGED <<donate, donateJob, results, submitted, issued>>

Next ==
  \/ UserConnect \/ UserNewJob \/ UserLost
  \/ DonateStart \/ DonateNewJob \/ DonateEnd
  \/ Found \/ \E r \in results : OnJobResult(r)
  \/ OnConfigChanged

Spec == Init /\ [][Next]_vars

-----------------------------------------------------------------------------
\* A result is submitted to the donate strategy exactly when it was found
\* for a donate job, also when it arrives after the round ended or after
\* a user job replaced the donate job on the miner.
ResultsReachTheirKind ==
  \A s \in submitted : (s.to = Donor) <=> (s.job.pool = Donor)

\* Between callbacks the miner works on the job of the strategy that owns
\* it: the donate job during a round that has one, and otherwise the
\* current job of an active user pool, unpaused; a user job that arrived
\* during the round is not lost when the round ends.
MinerOnCurrentJob ==
  /\ (donate = "active" /\ donateJob # NoJob) => minerJob = donateJob
  /\ (donate # "active" /\ userActive /\ userJob # NoJob)
       => minerJob = userJob /\ ~paused
=============================================================================
