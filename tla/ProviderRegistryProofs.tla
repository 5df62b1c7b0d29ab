------------------------ MODULE ProviderRegistryProofs ------------------------
(***************************************************************************)
(* The registry rules, for any number of providers, administrators and      *)
(* Agents and in any order of changes, readings and replacements of the     *)
(* pool.  What makes it inductive: unless a reload is still to read the     *)
(* rows, the newest reading is what the rows say - wherever it is by now,   *)
(* in the pool or in the hands of the reload that will set it.             *)
(***************************************************************************)
EXTENDS ProviderRegistry, TLAPS

NoneToRead == \A a \in Admins : job[a].at # "reload"

Newest ==
  /\ applied <= reads
  /\ \A a \in Admins : job[a].at = "apply" => job[a].reading <= reads
  /\ NoneToRead =>
       /\ \A a \in Admins : job[a].at = "apply" /\ job[a].reading = reads => job[a].snap = Usable
       /\ applied = reads => pool = Usable \/ (~HasRows /\ pool = {Env})

\* A call goes through the pool it took, and took what was allowed.
Routed ==
  \A g \in Agents :
    /\ agent[g].via \subseteq agent[g].allowed
    /\ ~agent[g].calling => agent[g].target = None
    /\ agent[g].target # None /\ agent[g].via # {} => agent[g].target \in agent[g].via

RegistryInv == TypeOK /\ Newest /\ Routed

RowType == [state : {"absent", "enabled", "disabled", "deleted"}, fit : Fitness,
            failures : 0..BanAfter]
JobType == [at : {"idle", "testing", "reload", "apply"}, provider : Providers \cup {None},
            snap : SUBSET Deployments, reading : Nat]
CallType == [client : Deployments \cup {None}, calling : BOOLEAN, via : SUBSET Deployments,
             target : Deployments \cup {None}, allowed : SUBSET Deployments]

\* The types, by what the actions change together.
LEMMA TypeInParts ==
  TypeOK <=> /\ row \in [Providers -> RowType]
             /\ pool \subseteq Deployments
             /\ job \in [Admins -> JobType]
             /\ agent \in [Agents -> CallType]
             /\ ops \in 0..MaxOps /\ calls \in 0..MaxCalls /\ faults \in 0..MaxFaults
             /\ reads \in Nat /\ applied \in Nat
BY DEF TypeOK, RowType, JobType, CallType

\* What administrators make of a row is a row.
LEMMA RowsStayRows ==
  ASSUME TypeOK, NEW p \in Providers
  PROVE  /\ Failed(p) \in RowType /\ Toggled(p) \in RowType
         /\ [row[p] EXCEPT !.failures = 0] \in RowType
         /\ [Absent EXCEPT !.state = "deleted"] \in RowType
         /\ \A s \in {"enabled", "disabled"}, f \in Fitness :
              /\ [state |-> s, fit |-> f, failures |-> 0] \in RowType
              /\ [row[p] EXCEPT !.state = s, !.fit = f] \in RowType
<1>1. row[p] \in RowType /\ BanAfter \in Nat \ {0}
  BY RegistryAssumption DEF TypeOK, RowType
<1>2. Failed(p) \in RowType
  <2> DEFINE n == IF row[p].failures < BanAfter THEN row[p].failures + 1 ELSE BanAfter
             state == IF p \in AutoBan /\ n >= BanAfter THEN "disabled" ELSE row[p].state
  <2>1. row[p].failures \in 0..BanAfter
    BY <1>1 DEF RowType
  <2>2. n \in 0..BanAfter
    BY <1>1, <2>1
  <2>3. state \in {"absent", "enabled", "disabled", "deleted"}
    BY <1>1 DEF RowType
  <2>4. Failed(p) = [row[p] EXCEPT !.failures = n, !.state = state]
    BY DEF Failed
  <2> HIDE DEF n, state
  <2> QED BY <1>1, <2>2, <2>3, <2>4 DEF RowType
<1>3. Toggled(p) \in RowType
  BY <1>1 DEF Toggled, RowType
<1>4. [row[p] EXCEPT !.failures = 0] \in RowType /\ [Absent EXCEPT !.state = "deleted"] \in RowType
  BY <1>1 DEF RowType, Absent, Fitness
<1>5. ASSUME NEW s \in {"enabled", "disabled"}, NEW f \in Fitness
      PROVE  /\ [state |-> s, fit |-> f, failures |-> 0] \in RowType
             /\ [row[p] EXCEPT !.state = s, !.fit = f] \in RowType
  <2>1. 0 \in 0..BanAfter
    BY <1>1
  <2>2. [state |-> s, fit |-> f, failures |-> 0] \in RowType
    BY <2>1 DEF RowType
  <2>3. [row[p] EXCEPT !.state = s, !.fit = f] \in RowType
    BY <1>1 DEF RowType
  <2> QED BY <2>2, <2>3
<1> QED BY <1>2, <1>3, <1>4, <1>5
-----------------------------------------------------------------------------
\* A request whose reload is to come, after a change of at most its own row.
LEMMA ReloadIsDue ==
  ASSUME RegistryInv, NEW a \in Admins, ops' \in 0..MaxOps,
         row' \in [Providers -> RowType],
         job' = [job EXCEPT ![a] = [Idle EXCEPT !.at = "reload"]],
         UNCHANGED <<pool, agent, calls, faults, reads, applied>>
  PROVE  RegistryInv'
<1>1. [Idle EXCEPT !.at = "reload"] \in JobType
  BY DEF Idle, JobType
<1>2. TypeOK'
  <2>1. job' \in [Admins -> JobType]
    BY <1>1, TypeInParts DEF RegistryInv
  <2> QED BY <2>1 DEF RegistryInv, TypeOK, RowType, JobType
<1>3. job'[a].at = "reload" /\ \A b \in Admins \ {a} : job'[b] = job[b]
  BY TypeInParts DEF RegistryInv, Idle
<1>4. Newest'
  BY <1>3 DEF RegistryInv, Newest, NoneToRead
<1>5. Routed'
  BY DEF RegistryInv, Routed
<1> QED BY <1>2, <1>4, <1>5 DEF RegistryInv

\* Every change of a row by an administrator is followed by a reload.
LEMMA ChangesKeepInv ==
  ASSUME RegistryInv, NEW a \in Admins, NEW p \in Providers,
         Create(a, p) \/ Update(a, p) \/ Toggle(a, p) \/ Delete(a, p)
  PROVE  RegistryInv'
<1>1. TypeOK /\ row \in [Providers -> RowType]
  BY TypeInParts DEF RegistryInv
<1>2. ops' \in 0..MaxOps
  <2>1. Start(a)
    BY DEF Create, Update, Toggle, Delete
  <2> QED BY <1>1, <2>1, RegistryAssumption DEF Start, TypeOK
<1>3. PICK r \in RowType : Commit(a, p, r)
  <2>1. CASE Create(a, p)
    BY <1>1, <2>1, RowsStayRows DEF Create
  <2>2. CASE Update(a, p)
    BY <1>1, <2>2, RowsStayRows DEF Update
  <2>3. CASE Toggle(a, p)
    BY <1>1, <2>3, RowsStayRows DEF Toggle
  <2>4. CASE Delete(a, p)
    BY <1>1, <2>4, RowsStayRows DEF Delete
  <2> QED BY <2>1, <2>2, <2>3, <2>4
<1>4. row' \in [Providers -> RowType]
  BY <1>1, <1>3 DEF Commit
<1> QED BY <1>2, <1>3, <1>4, ReloadIsDue DEF Commit

\* A plain reload, and the verdict of a test.
LEMMA ReloadRequestKeepsInv ==
  ASSUME RegistryInv, NEW a \in Admins, Reload(a) \/ EndTest(a)
  PROVE  RegistryInv'
<1>1. TypeOK /\ row \in [Providers -> RowType]
  BY TypeInParts DEF RegistryInv
<1>2. ops' \in 0..MaxOps
  BY <1>1, RegistryAssumption DEF Reload, EndTest, Start, TypeOK
<1>3. CASE Reload(a)
  BY <1>1, <1>2, <1>3, ReloadIsDue DEF Reload
<1>4. CASE EndTest(a)
  <2> DEFINE p == job[a].provider
  <2>1. row' \in [Providers -> RowType]
    <3>1. CASE p \in Providers
      <4>1. PICK verdict \in {Failed(p), [row[p] EXCEPT !.failures = 0]} :
              row' = IF Exists(p) THEN [row EXCEPT ![p] = verdict] ELSE row
        BY <1>4 DEF EndTest
      <4>2. verdict \in RowType
        BY <1>1, <3>1, RowsStayRows
      <4> QED BY <1>1, <4>1, <4>2
    <3>2. CASE p \notin Providers
      BY <1>1, <1>4, <3>2 DEF EndTest
    <3> QED BY <3>1, <3>2
  <2> QED BY <1>2, <1>4, <2>1, ReloadIsDue DEF EndTest
<1> QED BY <1>3, <1>4

\* A test of a keyless row marks it, which no pool is made of.
LEMMA TestsKeepInv ==
  ASSUME RegistryInv, NEW a \in Admins, NEW p \in Providers,
         TestKeyless(a, p) \/ BeginTest(a, p)
  PROVE  RegistryInv'
<1>1. TypeOK /\ row \in [Providers -> RowType] /\ job \in [Admins -> JobType]
  BY TypeInParts DEF RegistryInv
<1>2. ops' \in 0..MaxOps
  BY <1>1, RegistryAssumption DEF TestKeyless, BeginTest, Start, TypeOK
<1>3. Routed'
  BY DEF RegistryInv, Routed, TestKeyless, BeginTest
<1>4. CASE TestKeyless(a, p)
  <2>1. Failed(p) \in RowType /\ row' = [row EXCEPT ![p] = Failed(p)] /\ row[p].fit = "keyless"
        /\ Exists(p)
    BY <1>1, <1>4, RowsStayRows DEF TestKeyless
  <2>2. TypeOK'
    <3>1. row' \in [Providers -> RowType]
      BY <1>1, <2>1
    <3> QED BY <1>1, <1>2, <1>4, <3>1 DEF TestKeyless, TypeOK, RowType
  <2>3. row[p] \in RowType
    BY <1>1
  <2>4. /\ Failed(p).fit = "keyless"
        /\ Failed(p).state \in {row[p].state, "disabled"}
    BY <2>1, <2>3 DEF Failed, RowType
  <2>5. \A q \in Providers : row'[q] = IF q = p THEN Failed(p) ELSE row[q]
    BY <1>1, <2>1
  <2>6. Usable' = Usable
    BY <2>1, <2>4, <2>5 DEF Usable
  <2>7. HasRows' = HasRows
    BY <2>1, <2>4, <2>5 DEF HasRows, Exists
  <2>8. Newest'
    BY <1>4, <2>6, <2>7 DEF RegistryInv, Newest, NoneToRead, TestKeyless
  <2> QED BY <1>3, <2>2, <2>8 DEF RegistryInv
<1>5. CASE BeginTest(a, p)
  <2> DEFINE new == [Idle EXCEPT !.at = "testing", !.provider = p]
  <2>1. new \in JobType /\ new.at = "testing"
    BY DEF Idle, JobType
  <2>2. job' = [job EXCEPT ![a] = new]
    BY <1>5 DEF BeginTest
  <2> HIDE DEF new
  <2>3. TypeOK'
    <3>1. job' \in [Admins -> JobType]
      BY <1>1, <2>1, <2>2
    <3> QED BY <1>1, <1>2, <1>5, <3>1 DEF BeginTest, TypeOK, JobType
  <2>4. job'[a].at = "testing" /\ \A b \in Admins \ {a} : job'[b] = job[b]
    BY <1>1, <2>1, <2>2
  <2>5. job[a].at = "idle" /\ UNCHANGED <<row, pool, reads, applied>>
    BY <1>5 DEF BeginTest, Start
  <2>6. Usable' = Usable /\ HasRows' = HasRows
    BY <2>5 DEF Usable, HasRows, Exists
  <2>7. NoneToRead' => NoneToRead
    BY <2>4, <2>5 DEF NoneToRead
  <2>8. Newest'
    BY <2>4, <2>5, <2>6, <2>7 DEF RegistryInv, Newest
  <2> QED BY <1>3, <2>3, <2>8 DEF RegistryInv
<1> QED BY <1>4, <1>5
-----------------------------------------------------------------------------
\* The newest reading is what the rows say at that moment.
LEMMA ReadRowsKeepsInv ==
  ASSUME RegistryInv, NEW a \in Admins, ReadRows(a)
  PROVE  RegistryInv'
<1>1. TypeOK /\ job \in [Admins -> JobType] /\ reads \in Nat /\ applied \in Nat
  BY TypeInParts DEF RegistryInv
<1> DEFINE new == [job[a] EXCEPT !.at = "apply", !.snap = Usable, !.reading = reads + 1]
<1>2. /\ job' = [job EXCEPT ![a] = new] /\ reads' = reads + 1
      /\ UNCHANGED <<row, pool, agent, ops, calls, faults, applied>>
  BY <1>1 DEF ReadRows
<1>3. Usable \subseteq Deployments
  BY DEF Usable, Deployments
<1>4. new \in JobType /\ new.at = "apply" /\ new.snap = Usable /\ new.reading = reads + 1
  <2>1. job[a] \in JobType /\ reads + 1 \in Nat /\ Usable \in SUBSET Deployments
    BY <1>1, <1>3
  <2> QED BY <2>1 DEF JobType
<1> HIDE DEF new
<1>5. job'[a] = new /\ \A b \in Admins \ {a} : job'[b] = job[b]
  BY <1>1, <1>2
<1>6. TypeOK'
  <2>1. job' \in [Admins -> JobType]
    BY <1>1, <1>2, <1>4
  <2> QED BY <1>1, <1>2, <2>1 DEF TypeOK, JobType
<1>7. Usable' = Usable
  BY <1>2 DEF Usable
<1>8. Newest'
  <2>1. applied' <= reads' /\ applied' # reads'
    BY <1>1, <1>2 DEF RegistryInv, Newest
  <2>2. \A b \in Admins \ {a} :
          job'[b].at = "apply" => job'[b].reading <= reads' /\ job'[b].reading # reads'
    <3>1. \A b \in Admins : job[b].reading \in Nat
      BY <1>1 DEF JobType
    <3>2. \A b \in Admins \ {a} : job'[b].at = "apply" => job'[b].reading <= reads
      BY <1>5 DEF RegistryInv, Newest
    <3> QED BY <1>1, <1>2, <1>5, <3>1, <3>2
  <2>3. job'[a].reading <= reads' /\ job'[a].snap = Usable'
    BY <1>1, <1>2, <1>4, <1>5, <1>7
  <2> QED BY <2>1, <2>2, <2>3 DEF Newest
<1>9. Routed'
  BY <1>2 DEF RegistryInv, Routed
<1> QED BY <1>6, <1>8, <1>9 DEF RegistryInv

\* The pool becomes what a reload has read.
LEMMA SetPoolKeepsInv ==
  ASSUME RegistryInv, NEW a \in Admins, SetPool(a)
  PROVE  RegistryInv'
<1>1. TypeOK /\ job \in [Admins -> JobType]
  BY TypeInParts DEF RegistryInv
<1>2. /\ job[a].at = "apply" /\ job' = [job EXCEPT ![a] = Idle]
      /\ pool' = job[a].snap /\ applied' = job[a].reading
      /\ UNCHANGED <<row, agent, ops, calls, faults, reads>>
  BY DEF SetPool
<1>3. Idle \in JobType /\ Idle.at = "idle"
  BY DEF Idle, JobType
<1>4. job'[a] = Idle /\ \A b \in Admins \ {a} : job'[b] = job[b]
  BY <1>1, <1>2
<1>5. TypeOK'
  <2>1. job' \in [Admins -> JobType]
    BY <1>1, <1>2, <1>3
  <2>2. job[a].snap \subseteq Deployments /\ job[a].reading \in Nat
    BY <1>1 DEF JobType
  <2> QED BY <1>1, <1>2, <2>1, <2>2 DEF TypeOK, JobType
<1>6. Usable' = Usable
  BY <1>2 DEF Usable
<1>7. NoneToRead' => NoneToRead
  BY <1>2, <1>4 DEF NoneToRead
<1>8. Newest'
  BY <1>2, <1>3, <1>4, <1>6, <1>7 DEF RegistryInv, Newest
<1>9. Routed'
  BY <1>2 DEF RegistryInv, Routed
<1> QED BY <1>5, <1>8, <1>9 DEF RegistryInv

\* After a reload that failed the pool does not count as the newest reading.
LEMMA ReloadFailsKeepsInv ==
  ASSUME RegistryInv, NEW a \in Admins, ReloadFails(a)
  PROVE  RegistryInv'
<1>1. TypeOK /\ job \in [Admins -> JobType] /\ reads \in Nat /\ applied \in Nat
  BY TypeInParts DEF RegistryInv
<1>2. /\ job' = [job EXCEPT ![a] = Idle] /\ reads' = reads + 1
      /\ faults < MaxFaults /\ faults' = faults + 1
      /\ UNCHANGED <<row, pool, agent, ops, calls, applied>>
  BY DEF ReloadFails
<1>3. Idle \in JobType /\ Idle.at = "idle"
  BY DEF Idle, JobType
<1>4. job'[a] = Idle /\ \A b \in Admins \ {a} : job'[b] = job[b]
  BY <1>1, <1>2
<1>5. TypeOK'
  <2>1. job' \in [Admins -> JobType]
    BY <1>1, <1>2, <1>3
  <2>2. faults' \in 0..MaxFaults /\ reads' \in Nat
    BY <1>1, <1>2, RegistryAssumption DEF TypeOK
  <2> QED BY <1>1, <1>2, <2>1, <2>2 DEF TypeOK, JobType
<1>6. Newest'
  <2>1. applied' <= reads' /\ applied' # reads'
    BY <1>1, <1>2 DEF RegistryInv, Newest
  <2>2. \A b \in Admins :
          job'[b].at = "apply" => job'[b].reading <= reads' /\ job'[b].reading # reads'
    <3>1. \A b \in Admins : job[b].reading \in Nat
      BY <1>1 DEF JobType
    <3>2. \A b \in Admins : job'[b].at = "apply" => b # a /\ job[b].reading <= reads
      BY <1>3, <1>4 DEF RegistryInv, Newest
    <3> QED BY <1>1, <1>2, <1>4, <3>1, <3>2
  <2> QED BY <2>1, <2>2 DEF Newest
<1>7. Routed'
  BY <1>2 DEF RegistryInv, Routed
<1> QED BY <1>5, <1>6, <1>7 DEF RegistryInv
-----------------------------------------------------------------------------
\* A restart reads the registry again, or takes the environment's deployment.
LEMMA RestartKeepsInv ==
  ASSUME RegistryInv, Restart
  PROVE  RegistryInv'
<1>1. TypeOK /\ reads \in Nat /\ applied \in Nat
  BY TypeInParts DEF RegistryInv
<1>2. /\ job' = [a \in Admins |-> Idle] /\ agent' = [g \in Agents |-> NoClient]
      /\ reads' = reads + 1 /\ UNCHANGED <<row, calls>>
      /\ ops < MaxOps /\ ops' = ops + 1
      /\ \/ pool' = InitialPool /\ applied' = reads + 1 /\ faults' = faults
         \/ /\ faults < MaxFaults /\ faults' = faults + 1
            /\ pool' = {Env} /\ applied' = applied
  BY DEF Restart
<1>3. Idle \in JobType /\ Idle.at = "idle" /\ NoClient \in CallType
  BY DEF Idle, JobType, NoClient, CallType
<1>4. InitialPool \subseteq Deployments /\ {Env} \subseteq Deployments
  BY DEF InitialPool, Usable, Deployments
<1>5. Usable' = Usable /\ HasRows' = HasRows
  BY <1>2 DEF Usable, HasRows, Exists
<1>6. TypeOK'
  <2>1. job' \in [Admins -> JobType] /\ agent' \in [Agents -> CallType]
    BY <1>2, <1>3
  <2>2. ops' \in 0..MaxOps /\ faults' \in 0..MaxFaults
    BY <1>1, <1>2, RegistryAssumption DEF TypeOK
  <2>3. reads' \in Nat /\ applied' \in Nat /\ pool' \subseteq Deployments
    BY <1>1, <1>2, <1>4
  <2> QED BY <1>1, <1>2, <2>1, <2>2, <2>3 DEF TypeOK, JobType, CallType
<1>7. Newest'
  <2>1. applied' <= reads' /\ (applied' = reads' => pool' = InitialPool)
    BY <1>1, <1>2 DEF RegistryInv, Newest
  <2>2. \A a \in Admins : job'[a].at = "idle"
    BY <1>2, <1>3
  <2> QED BY <1>5, <2>1, <2>2 DEF Newest, InitialPool
<1>8. Routed'
  BY <1>2 DEF Routed, NoClient
<1> QED BY <1>6, <1>7, <1>8 DEF RegistryInv

\* A settled pool is registered.
LEMMA SettledPoolIsRegistered ==
  ASSUME RegistryInv, Settled
  PROVE  /\ pool = Usable \/ (~HasRows /\ pool = {Env})
         /\ pool \subseteq Registered
<1>1. pool = Usable \/ (~HasRows /\ pool = {Env})
  BY DEF RegistryInv, Newest, NoneToRead, Settled
<1>2. ~HasRows => Usable = {}
  BY DEF HasRows, Exists, Usable
<1> QED BY <1>1, <1>2 DEF Registered

\* The steps of an Agent change nothing but its own client and its calls.
LEMMA AgentStep ==
  ASSUME RegistryInv, NEW g \in Agents, NEW new \in CallType,
         agent' = [agent EXCEPT ![g] = new], calls' \in 0..MaxCalls,
         UNCHANGED <<row, pool, job, ops, faults, reads, applied>>,
         new.via \subseteq new.allowed, ~new.calling => new.target = None,
         new.target # None /\ new.via # {} => new.target \in new.via
  PROVE  RegistryInv'
<1>1. TypeOK /\ agent \in [Agents -> CallType]
  BY TypeInParts DEF RegistryInv
<1>2. TypeOK'
  <2>1. agent' \in [Agents -> CallType]
    BY <1>1
  <2> QED BY <1>1, <2>1 DEF TypeOK, CallType
<1>3. Newest'
  BY DEF RegistryInv, Newest, NoneToRead, Usable, HasRows, Exists
<1>4. agent'[g] = new /\ \A h \in Agents \ {g} : agent'[h] = agent[h]
  BY <1>1
<1>5. Routed'
  BY <1>4 DEF RegistryInv, Routed
<1> QED BY <1>2, <1>3, <1>5 DEF RegistryInv

\* Clients are made and dropped, calls begun, sent and ended.
LEMMA AgentsKeepInv ==
  ASSUME RegistryInv, NEW g \in Agents,
         CreateClient(g) \/ Invoke(g) \/ Send(g) \/ EndCall(g) \/ DropClient(g)
  PROVE  RegistryInv'
<1>1. TypeOK /\ agent[g] \in CallType /\ pool \subseteq Deployments /\ calls \in 0..MaxCalls
  BY TypeInParts DEF RegistryInv
<1>2. /\ agent[g].via \subseteq agent[g].allowed
      /\ ~agent[g].calling => agent[g].target = None
      /\ agent[g].target # None /\ agent[g].via # {} => agent[g].target \in agent[g].via
  BY DEF RegistryInv, Routed
<1>3. CASE CreateClient(g)
  <2>1. PICK d \in pool : agent' = [agent EXCEPT ![g].client = d]
    BY <1>3 DEF CreateClient
  <2> DEFINE new == [agent[g] EXCEPT !.client = d]
  <2>2. new \in CallType
    BY <1>1 DEF CallType
  <2>3. new.via = agent[g].via /\ new.allowed = agent[g].allowed
        /\ new.calling = agent[g].calling /\ new.target = agent[g].target
    BY <1>1 DEF CallType
  <2>4. agent' = [agent EXCEPT ![g] = new]
    BY <2>1
  <2> HIDE DEF new
  <2> QED BY <1>1, <1>2, <1>3, <2>2, <2>3, <2>4, AgentStep DEF CreateClient
<1>4. CASE Invoke(g)
  <2> DEFINE allowed == IF Settled THEN Registered ELSE Deployments
             new == [agent[g] EXCEPT !.calling = TRUE, !.via = pool, !.allowed = allowed]
  <2>1. pool \subseteq allowed /\ allowed \subseteq Deployments
    BY <1>1, SettledPoolIsRegistered DEF Registered, Usable, Deployments
  <2>2. agent' = [agent EXCEPT ![g] = new]
    BY <1>4 DEF Invoke
  <2> HIDE DEF allowed
  <2>3. new \in CallType /\ new.via = pool /\ new.allowed = allowed
        /\ new.target = agent[g].target /\ new.calling
    BY <1>1, <2>1 DEF CallType
  <2>4. agent[g].target = None
    BY <1>2, <1>4 DEF Invoke
  <2>5. calls' \in 0..MaxCalls
    BY <1>1, <1>4, RegistryAssumption DEF Invoke
  <2> HIDE DEF new
  <2> QED BY <1>4, <2>1, <2>2, <2>3, <2>4, <2>5, AgentStep DEF Invoke
<1>5. CASE Send(g)
  <2>1. PICK d \in {e \in agent[g].via : ModelOf[e] = ModelOf[agent[g].client]}
                   \cup (IF agent[g].via = {} THEN {agent[g].client} ELSE {}) :
          agent' = [agent EXCEPT ![g].target = d]
    BY <1>5 DEF Send
  <2> DEFINE new == [agent[g] EXCEPT !.target = d]
  <2>2. d \in Deployments \cup {None} /\ (agent[g].via # {} => d \in agent[g].via)
    BY <1>1, <2>1 DEF CallType
  <2>3. new \in CallType /\ new.via = agent[g].via /\ new.allowed = agent[g].allowed
        /\ new.calling = agent[g].calling /\ new.target = d
    BY <1>1, <2>2 DEF CallType
  <2>4. agent' = [agent EXCEPT ![g] = new]
    BY <2>1
  <2>5. agent[g].calling
    BY <1>5 DEF Send
  <2> HIDE DEF new
  <2> QED BY <1>1, <1>2, <1>5, <2>2, <2>3, <2>4, <2>5, AgentStep DEF Send
<1>6. CASE EndCall(g)
  <2> DEFINE new == [NoClient EXCEPT !.client = agent[g].client]
  <2>1. agent[g].client \in Deployments \cup {None}
    BY <1>1 DEF CallType
  <2>2. new \in CallType /\ new.via = {} /\ new.target = None
    BY <2>1 DEF NoClient, CallType
  <2>3. agent' = [agent EXCEPT ![g] = new]
    BY <1>6 DEF EndCall
  <2> HIDE DEF new
  <2> QED BY <1>1, <1>6, <2>2, <2>3, AgentStep DEF EndCall
<1>7. CASE DropClient(g)
  <2>1. NoClient \in CallType /\ NoClient.via = {} /\ NoClient.target = None
    BY DEF NoClient, CallType
  <2> QED BY <1>1, <1>7, <2>1, AgentStep DEF DropClient
<1> QED BY <1>3, <1>4, <1>5, <1>6, <1>7

-----------------------------------------------------------------------------
\* The invariant holds at the start and is kept by every step.
THEOREM RegistryInvariant == Spec => []RegistryInv
<1>1. Init => RegistryInv
  <2> SUFFICES ASSUME Init PROVE RegistryInv
    OBVIOUS
  <2>1. /\ pool = InitialPool /\ job = [a \in Admins |-> Idle]
        /\ agent = [g \in Agents |-> NoClient] /\ reads = 1 /\ applied = 1
    BY DEF Init
  <2>2. Idle \in JobType /\ Idle.at = "idle" /\ NoClient \in CallType
    BY DEF Idle, JobType, NoClient, CallType
  <2>3. row \in [Providers -> RowType]
    <3>1. /\ Absent \in RowType
          /\ [state |-> "enabled", fit |-> "fit", failures |-> 0] \in RowType
      BY RegistryAssumption DEF Absent, RowType, Fitness
    <3>2. row \in [Providers -> {Absent, [state |-> "enabled", fit |-> "fit", failures |-> 0]}]
      BY DEF Init
    <3> QED BY <3>1, <3>2
  <2>4. pool \subseteq Deployments
    BY <2>1 DEF InitialPool, Usable, Deployments
  <2>5. job \in [Admins -> JobType] /\ agent \in [Agents -> CallType]
    BY <2>1, <2>2
  <2>6. ops \in 0..MaxOps /\ calls \in 0..MaxCalls /\ faults \in 0..MaxFaults
    BY RegistryAssumption DEF Init
  <2>7. TypeOK
    BY <2>1, <2>3, <2>4, <2>5, <2>6, TypeInParts
  <2>8. Newest
    BY <2>1, <2>2 DEF Newest, InitialPool
  <2>9. Routed
    BY <2>1 DEF Routed, NoClient
  <2> QED BY <2>7, <2>8, <2>9 DEF RegistryInv
<1>2. RegistryInv /\ [Next]_vars => RegistryInv'
  <2> SUFFICES ASSUME RegistryInv, [Next]_vars PROVE RegistryInv'
    OBVIOUS
  <2>1. CASE \E a \in Admins :
               Reload(a) \/ EndTest(a) \/ ReadRows(a) \/ SetPool(a) \/ ReloadFails(a)
    BY <2>1, ReloadRequestKeepsInv, ReadRowsKeepsInv, SetPoolKeepsInv, ReloadFailsKeepsInv
  <2>2. CASE \E a \in Admins, p \in Providers :
               Create(a, p) \/ Update(a, p) \/ Toggle(a, p) \/ Delete(a, p)
               \/ TestKeyless(a, p) \/ BeginTest(a, p)
    BY <2>2, ChangesKeepInv, TestsKeepInv
  <2>3. CASE \E g \in Agents :
               CreateClient(g) \/ Invoke(g) \/ Send(g) \/ EndCall(g) \/ DropClient(g)
    BY <2>3, AgentsKeepInv
  <2>4. CASE Restart
    BY <2>4, RestartKeepsInv
  <2>5. CASE UNCHANGED vars
    BY <2>5 DEF vars, RegistryInv, TypeOK, Newest, NoneToRead, Routed, Usable, HasRows, Exists
  <2> QED BY <2>1, <2>2, <2>3, <2>4, <2>5 DEF Next
<1> QED BY <1>1, <1>2, PTL DEF Spec

\* Whenever administration has come to rest and its last reading was applied,
\* the pool is exactly what the rows say, and the environment counts only while
\* there are none: for any number of concurrent changes, tests and reloads.  A
\* call begun then never reaches a provider that was disabled, unfit or gone, as
\* long as it goes through a pool.
THEOREM RegistryIsTheSource == Spec => []RegistryRules
<1>1. RegistryInv => SettledPoolIsRegistry
  BY SettledPoolIsRegistered DEF SettledPoolIsRegistry
<1>2. RegistryInv => RoutedCallsRegistered
  BY DEF RegistryInv, Routed, RoutedCallsRegistered
<1>3. RegistryInv => RegistryRules
  BY <1>1, <1>2 DEF RegistryInv, RegistryRules
<1> QED BY <1>3, RegistryInvariant, PTL
=============================================================================
