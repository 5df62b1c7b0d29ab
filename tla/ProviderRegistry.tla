--------------------------- MODULE ProviderRegistry ---------------------------
(***************************************************************************)
(* The provider registry and what the process makes of it: administrators  *)
(* change rows (api/admin/providers.py), every change reloads the runtime   *)
(* pool (services/provider_pool.py), and Agents call through the pool with  *)
(* client objects they created from an earlier one (services/llm_client.py).*)
(*                                                                         *)
(* One kind of provider is modelled; the kinds are loaded together and do  *)
(* not affect each other.  A reload reads the rows in one transaction,     *)
(* awaits (an address check per row, the policy), and replaces the pool at *)
(* the end, so two reloads may be applied in the opposite order.           *)
(***************************************************************************)
EXTENDS Naturals, FiniteSets

CONSTANTS
  Providers,   \* rows of provider_registry
  Env,         \* the deployment configured in the environment
  ModelOf,     \* the routing group (model name) of each deployment
  AutoBan,     \* providers with the auto_ban flag
  BanAfter,    \* failed tests that disable one (3 in _update_health)
  Admins,      \* concurrent administration requests
  Agents,      \* LLM callers
  Production,  \* the environment setting of the same name
  MaxOps,      \* bound: administration requests and restarts
  MaxCalls,    \* bound: LLM calls
  MaxFaults    \* bound: failed reloads and failed start-up reads

ASSUME RegistryAssumption ==
  /\ Env \notin Providers
  /\ AutoBan \subseteq Providers
  /\ BanAfter \in Nat \ {0}
  /\ MaxOps \in Nat /\ MaxCalls \in Nat /\ MaxFaults \in Nat
  /\ Production \in BOOLEAN

VARIABLES
  row,       \* [Providers -> the row: its state, its fitness, its failed tests]
  pool,      \* the deployments of the runtime pool; {} is no pool at all
  job,       \* what each administration request is at
  agent,     \* each Agent's client object and its call in progress
  ops, calls, faults,
  reads,     \* history: readings of the registry begun or failed so far
  applied    \* history: the reading the pool comes from

vars == <<row, pool, job, agent, ops, calls, faults, reads, applied>>

None == "none"
Deployments == Providers \cup {Env}
\* A fit row has a safe address, a key that can be decrypted, a model and sane
\* limits; a keyless one is refused by the health test itself
Fitness == {"fit", "unfit", "keyless"}
Absent == [state |-> "absent", fit |-> "unfit", failures |-> 0]
Idle == [at |-> "idle", provider |-> None, snap |-> {}, reading |-> 0]
\* client: whom the client object was made for; via: the pool the call holds, {}
\* when it calls the client directly; target: whom the request went to
NoClient == [client |-> None, calling |-> FALSE, via |-> {}, target |-> None, allowed |-> {}]

TypeOK ==
  /\ row \in [Providers -> [state : {"absent", "enabled", "disabled", "deleted"},
                            fit : Fitness, failures : 0..BanAfter]]
  /\ pool \subseteq Deployments
  /\ job \in [Admins -> [at : {"idle", "testing", "reload", "apply"},
                         provider : Providers \cup {None},
                         snap : SUBSET Deployments, reading : Nat]]
  /\ agent \in [Agents -> [client : Deployments \cup {None}, calling : BOOLEAN,
                           via : SUBSET Deployments, target : Deployments \cup {None},
                           allowed : SUBSET Deployments]]
  /\ ops \in 0..MaxOps /\ calls \in 0..MaxCalls /\ faults \in 0..MaxFaults
  /\ reads \in Nat /\ applied \in Nat

Exists(p) == row[p].state \in {"enabled", "disabled"}
HasRows == \E p \in Providers : Exists(p)

\* Enabled rows that survive the address check, the decryption and the parser
Usable == {p \in Providers : row[p].state = "enabled" /\ row[p].fit = "fit"}

\* init_pools: the registry rules once it has rows, the environment bootstraps
InitialPool == IF HasRows THEN Usable ELSE {Env}

Init ==
  /\ row \in [Providers -> {Absent, [state |-> "enabled", fit |-> "fit", failures |-> 0]}]
  /\ pool = InitialPool
  /\ job = [a \in Admins |-> Idle]
  /\ agent = [g \in Agents |-> NoClient]
  /\ ops = 0 /\ calls = 0 /\ faults = 0
  /\ reads = 1 /\ applied = 1

-----------------------------------------------------------------------------
(* Administration requests.  Each ends with a reload of the pool; the audit *)
(* entry written before or after it is best effort and changes nothing here *)

Start(a) == job[a].at = "idle" /\ ops < MaxOps /\ ops' = ops + 1

\* the row is committed, the reload is next
Commit(a, p, r) ==
  /\ row' = [row EXCEPT ![p] = r]
  /\ job' = [job EXCEPT ![a] = [Idle EXCEPT !.at = "reload"]]
  /\ UNCHANGED <<pool, agent, calls, faults, reads, applied>>

Create(a, p) ==
  /\ Start(a) /\ row[p].state = "absent"
  /\ \E s \in {"enabled", "disabled"}, f \in Fitness :
        Commit(a, p, [state |-> s, fit |-> f, failures |-> 0])

\* any of the fields; the count of failures stays
Update(a, p) ==
  /\ Start(a) /\ Exists(p)
  /\ \E s \in {"enabled", "disabled"}, f \in Fitness :
        Commit(a, p, [row[p] EXCEPT !.state = s, !.fit = f])

Toggled(p) == [row[p] EXCEPT !.state = IF @ = "enabled" THEN "disabled" ELSE "enabled"]

\* Mutant: the toggle changes the row only.
ToggleWithoutReload(a, p) ==
  /\ Start(a) /\ Exists(p)
  /\ row' = [row EXCEPT ![p] = Toggled(p)]
  /\ UNCHANGED <<pool, job, agent, calls, faults, reads, applied>>

Toggle(a, p) == Start(a) /\ Exists(p) /\ Commit(a, p, Toggled(p))

\* a row's id is never used again
Delete(a, p) == Start(a) /\ Exists(p) /\ Commit(a, p, [Absent EXCEPT !.state = "deleted"])

\* reload_providers: nothing but the reload
Reload(a) ==
  /\ Start(a)
  /\ job' = [job EXCEPT ![a] = [Idle EXCEPT !.at = "reload"]]
  /\ UNCHANGED <<row, pool, agent, calls, faults, reads, applied>>

\* _update_health after a failure: the counter, and the ban when it is reached
Failed(p) ==
  LET n == IF row[p].failures < BanAfter THEN row[p].failures + 1 ELSE BanAfter IN
  [row[p] EXCEPT !.failures = n,
                 !.state = IF p \in AutoBan /\ n >= BanAfter THEN "disabled" ELSE @]

\* test_provider of a row without a usable key: it is marked, nothing is reloaded
TestKeyless(a, p) ==
  /\ Start(a) /\ Exists(p) /\ row[p].fit = "keyless"
  /\ row' = [row EXCEPT ![p] = Failed(p)]
  /\ UNCHANGED <<pool, job, agent, calls, faults, reads, applied>>

\* otherwise the row is read and the provider is asked
BeginTest(a, p) ==
  /\ Start(a) /\ Exists(p) /\ row[p].fit # "keyless"
  /\ job' = [job EXCEPT ![a] = [Idle EXCEPT !.at = "testing", !.provider = p]]
  /\ UNCHANGED <<row, pool, agent, calls, faults, reads, applied>>

\* the verdict is written to whatever row has that id by now, if any
EndTest(a) ==
  LET p == job[a].provider IN
  /\ job[a].at = "testing"
  /\ \E verdict \in {Failed(p), [row[p] EXCEPT !.failures = 0]} :
        row' = IF Exists(p) THEN [row EXCEPT ![p] = verdict] ELSE row
  /\ job' = [job EXCEPT ![a] = [Idle EXCEPT !.at = "reload"]]
  /\ UNCHANGED <<pool, agent, ops, calls, faults, reads, applied>>

-----------------------------------------------------------------------------
(* The pool *)

\* _load_enabled_provider_configs_from_db
ReadRows(a) ==
  /\ job[a].at = "reload"
  /\ reads' = reads + 1
  /\ job' = [job EXCEPT ![a].at = "apply", ![a].snap = Usable, ![a].reading = reads + 1]
  /\ UNCHANGED <<row, pool, agent, ops, calls, faults, applied>>

\* _set_pools_from_configs: one assignment, no await
SetPool(a) ==
  /\ job[a].at = "apply"
  /\ pool' = job[a].snap /\ applied' = job[a].reading
  /\ job' = [job EXCEPT ![a] = Idle]
  /\ UNCHANGED <<row, agent, ops, calls, faults, reads>>

\* _reload_runtime_pools logs the failure; the old pool stays
ReloadFails(a) ==
  /\ job[a].at \in {"reload", "apply"} /\ faults < MaxFaults
  /\ faults' = faults + 1 /\ reads' = reads + 1
  /\ job' = [job EXCEPT ![a] = Idle]
  /\ UNCHANGED <<row, pool, agent, ops, calls, applied>>

\* The process starts again: init_pools reads the registry, or falls back to the
\* environment when it cannot; production refuses to start without a pool
Restart ==
  /\ ops < MaxOps /\ ops' = ops + 1
  /\ job' = [a \in Admins |-> Idle]
  /\ agent' = [g \in Agents |-> NoClient]
  /\ reads' = reads + 1
  /\ \/ pool' = InitialPool /\ applied' = reads + 1 /\ UNCHANGED faults
     \/ /\ faults < MaxFaults /\ faults' = faults + 1
        /\ pool' = {Env} /\ UNCHANGED applied
  /\ Production => pool' # {}
  /\ UNCHANGED <<row, calls>>

-----------------------------------------------------------------------------
(* Agents *)

Settled == applied = reads /\ \A a \in Admins : job[a].at = "idle"
Registered == IF HasRows THEN Usable ELSE {Env}

\* create_llm: round robin over the pool of that moment
CreateClient(g) ==
  /\ agent[g].client = None
  /\ \E d \in pool : agent' = [agent EXCEPT ![g].client = d]
  /\ UNCHANGED <<row, pool, job, ops, calls, faults, reads, applied>>

\* ainvoke_with_callbacks takes the pool there is, for all its attempts
Invoke(g) ==
  /\ agent[g].client # None /\ ~agent[g].calling /\ calls < MaxCalls
  /\ calls' = calls + 1
  /\ agent' = [agent EXCEPT ![g].calling = TRUE, ![g].via = pool,
                 ![g].allowed = IF Settled THEN Registered ELSE Deployments]
  /\ UNCHANGED <<row, pool, job, ops, faults, reads, applied>>

\* the Router picks among the deployments of the client's routing group; without
\* a pool the client calls its own provider.  Repeated after a time-out
Send(g) ==
  /\ agent[g].calling
  /\ \E d \in {e \in agent[g].via : ModelOf[e] = ModelOf[agent[g].client]}
              \cup (IF agent[g].via = {} THEN {agent[g].client} ELSE {}) :
        agent' = [agent EXCEPT ![g].target = d]
  /\ UNCHANGED <<row, pool, job, ops, calls, faults, reads, applied>>

\* an answer, an error, or no deployment of that group any more; the client
\* object may serve another call
EndCall(g) ==
  /\ agent[g].calling
  /\ agent' = [agent EXCEPT ![g] = [NoClient EXCEPT !.client = agent[g].client]]
  /\ UNCHANGED <<row, pool, job, ops, calls, faults, reads, applied>>

DropClient(g) ==
  /\ agent[g].client # None /\ ~agent[g].calling
  /\ agent' = [agent EXCEPT ![g] = NoClient]
  /\ UNCHANGED <<row, pool, job, ops, calls, faults, reads, applied>>

Next ==
  \/ \E a \in Admins : Reload(a) \/ EndTest(a) \/ ReadRows(a) \/ SetPool(a) \/ ReloadFails(a)
  \/ \E a \in Admins, p \in Providers :
        Create(a, p) \/ Update(a, p) \/ Toggle(a, p) \/ Delete(a, p) \/ TestKeyless(a, p) \/ BeginTest(a, p)
  \/ \E g \in Agents : CreateClient(g) \/ Invoke(g) \/ Send(g) \/ EndCall(g) \/ DropClient(g)
  \/ Restart

Spec == Init /\ [][Next]_vars

-----------------------------------------------------------------------------
(* Properties *)

\* When no administration request is under way and the newest reading of the
\* registry is the one that was applied, the pool is the usable rows: whatever the
\* order of the changes, tests, bans, reloads and restarts that led there.  Only a
\* registry without rows may leave the bootstrap pool of the environment.  When an
\* older reading was applied last, or a reload failed, the pool stays behind the
\* rows until the next reload, and nothing is said of it.
SettledPoolIsRegistry == Settled => pool = Usable \/ (~HasRows /\ pool = {Env})

\* A call begun when the pool had settled goes, on every attempt, to a provider
\* that was enabled and usable at that moment, whenever its client was created,
\* as long as there was a pool for it to go through.
RoutedCallsRegistered ==
  \A g \in Agents :
     agent[g].target # None /\ agent[g].via # {} => agent[g].target \in agent[g].allowed

\* What the registry rules once it has been read: the pool, and through it the
\* calls.  Types are part of it.
RegistryRules == TypeOK /\ SettledPoolIsRegistry /\ RoutedCallsRegistered

\* The same of every call: no provider is called by a call begun after it was
\* disabled or deleted.  The registry "is the runtime source of truth, including
\* the case where every provider is disabled" (provider_pool.py:293-294).
CallsRegistered ==
  \A g \in Agents : agent[g].target # None => agent[g].target \in agent[g].allowed

=============================================================================
