---------------------------- MODULE Config_proofs ----------------------------
(***************************************************************************)
(* Module Config keeps its types, the collector is only ever reconfigured  *)
(* to a router that a discovery has logged in to, and a start finds what   *)
(* of the settings in force load() gives back as save() wrote it, whatever *)
(* the routers, passwords, servers, retentions and environments are.       *)
(*                                                                         *)
(* What a PATCH saves is checked against a token, so the invariant says of *)
(* every token that its router was tested; the history of tests only grows.*)
(* Of a request that saves it says what memory and file have in common,    *)
(* before and after os.replace.                                            *)
(***************************************************************************)
EXTENDS Config, TLAPS

TokensTested ==
    \A k \in TokenIds : tokens[k] # Absent =>
        [host |-> tokens[k].host, password |-> tokens[k].password] \in tested

(* While a request saves, the temporary file is its own; whole once flushed. *)
TempIsOfJob ==
    Saving => /\ temp \in FileRows
              /\ temp.text = job.candidate
              /\ job.step = "flushed" => temp.whole

IInv == TypeOK /\ TokensTested /\ ReconfiguresToTested /\ TempIsOfJob

(* The copy a PATCH prepares is a settings row again (main.py:962-1018). *)
LEMMA CandidateType ==
    ASSUME TypeOK, NEW q \in PatchRequests
    PROVE  Candidate(q) \in SettingsRows
<1>1. Candidate(q).router \in Routers
  BY AbsentAssumption DEF TypeOK, PatchRequests, Candidate, Or, OrAbsent, SettingsRows, Routers
<1>2. Candidate(q).days \in Days \cup (MinDays..MaxDays)
  BY AbsentAssumption DEF TypeOK, PatchRequests, Candidate, Or, OrAbsent, SettingsRows
<1>3. Candidate(q).database \in DatabaseRows
  <2>1. settings.database \in DatabaseRows /\ q.database \in Servers \cup {"sqlite", Absent}
    BY DEF TypeOK, SettingsRows, PatchRequests, OrAbsent, Candidates
  <2>2. Candidate(q).database = WithDatabase(settings.database, q.database)
    BY DEF Candidate
  <2>3. CASE q.database = Absent
    BY <2>1, <2>2, <2>3, AbsentAssumption DEF WithDatabase
  <2>4. CASE q.database = "sqlite"
    BY <2>1, <2>2, <2>4, AbsentAssumption DEF WithDatabase, DatabaseRows
  <2>5. CASE q.database \in Servers /\ q.database # "sqlite"
    BY <2>1, <2>2, <2>5, AbsentAssumption DEF WithDatabase, DatabaseRows, OrAbsent
  <2> QED BY <2>1, <2>3, <2>4, <2>5
<1> QED BY <1>1, <1>2, <1>3 DEF Candidate, SettingsRows

(* What a POST leaves in memory is one too (main.py:920-943). *)
LEMMA PostedType ==
    ASSUME TypeOK, NEW q \in PostRequests
    PROVE  Posted(q) \in SettingsRows
<1>1. settings.database \in DatabaseRows /\ settings.router \in Routers
  BY DEF TypeOK, SettingsRows
<1>2. Posted(q).router \in Routers
  BY <1>1 DEF PostRequests, Posted, Routers, OrAbsent
<1>3. Posted(q).database \in DatabaseRows
  BY <1>1 DEF PostRequests, Posted, DatabaseRows, OrAbsent, Candidates
<1>4. Posted(q).days \in Days \cup (MinDays..MaxDays)
  BY DEF PostRequests, Posted
<1> QED BY <1>2, <1>3, <1>4 DEF Posted, SettingsRows

(* What a start loads is one too, the retention clamped into its range       *)
(* (config.py:93-114).                                                       *)
LEMMA LoadedType ==
    ASSUME NEW saved \in SettingsRows, NEW e \in Environments, Loadable(saved, e)
    PROVE  Loaded(saved, e) \in SettingsRows
<1>1. saved.days \in Int \cup {Garbage}
  <2>1. saved.days \in Days \/ saved.days \in MinDays..MaxDays
    BY DEF SettingsRows
  <2>2. CASE saved.days \in Days
    BY <2>2, DaysAssumption
  <2>3. CASE saved.days \in MinDays..MaxDays
    BY <2>3, DaysAssumption
  <2> QED BY <2>1, <2>2, <2>3
<1>2. Read(e, "days", saved.days) \in Int
  BY <1>1, EnvironmentsAssumption DEF Read, Loadable
<1>3. Loaded(saved, e).days \in MinDays..MaxDays
  <2>1. \A n \in Int : Clamp(n) \in MinDays..MaxDays
    BY DaysAssumption DEF Clamp
  <2> QED BY <1>2, <2>1 DEF Loaded
<1>4. saved.router \in Routers
  BY DEF SettingsRows
<1>5. Read(e, "host", saved.router.host) \in Hosts
  BY <1>4, EnvironmentsAssumption DEF Read, Routers
<1>6. FilePassword(saved.router.password) \in OrAbsent(Passwords)
  BY <1>4, ExpandedAssumption DEF FilePassword, Routers, OrAbsent
<1>7. Read(e, "password", FilePassword(saved.router.password)) \in OrAbsent(Passwords)
  BY <1>6, EnvironmentsAssumption DEF Read
<1>8. Loaded(saved, e).router \in Routers
  BY <1>5, <1>7 DEF Loaded, Routers
<1>9. Loaded(saved, e).database \in DatabaseRows
  BY DEF Loaded, SettingsRows
<1> QED BY <1>3, <1>8, <1>9 DEF Loaded, SettingsRows

LEMMA InitIInv == Init => IInv
<1> SUFFICES ASSUME Init PROVE IInv
  OBVIOUS
<1> DEFINE first == [router : Routers, days : {MinDays},
                     database : [type : {"sqlite"}, server : {Absent}, login : {Absent}]]
<1>0. file \in [text : first, whole : {TRUE}]
  BY DEF Init
<1>1. file \in FileRows /\ file.text \in SettingsRows
  <2>1. MinDays \in MinDays..MaxDays
    BY DaysAssumption
  <2>2. \A s \in first : s \in SettingsRows
    BY <2>1 DEF SettingsRows, DatabaseRows, OrAbsent
  <2> HIDE DEF first
  <2>3. \A f \in [text : first, whole : {TRUE}] : f \in FileRows /\ f.text \in SettingsRows
    BY <2>2 DEF FileRows
  <2> QED BY <1>0, <2>3 DEF first
<1>2. settings \in SettingsRows /\ settings.router \in Routers /\ file.text.router \in Routers
  <2>1. settings \in SettingsRows
    BY <1>1, LoadedType DEF Init
  <2> QED BY <1>1, <2>1 DEF SettingsRows
<1>3. TypeOK
  BY <1>1, <1>2 DEF Init, TypeOK, OrAbsent, NoToken, Candidates
<1>4. TokensTested /\ ReconfiguresToTested /\ TempIsOfJob
  BY DEF Init, TokensTested, ReconfiguresToTested, NoToken, TempIsOfJob, Saving
<1> QED BY <1>3, <1>4 DEF IInv

(* Every step keeps the invariant. *)
LEMMA NextIInv == IInv /\ [Next]_vars => IInv'
<1> SUFFICES ASSUME IInv, [Next]_vars PROVE IInv'
  OBVIOUS
<1> USE DEF IInv
<1>1. CASE UNCHANGED vars
  BY <1>1 DEF vars, history, disk, TypeOK, TokensTested, ReconfiguresToTested,
              TempIsOfJob, Saving
<1>2. ASSUME NEW host \in Hosts, NEW password \in OrAbsent(Passwords), NEW k \in TokenIds,
             Discover(host, password, k)
      PROVE  IInv'
  <2> DEFINE used == ProbePassword(host, password)
  <2>1. settings.router \in Routers
    BY DEF TypeOK, SettingsRows
  <2>2. used \in Passwords
    BY <1>2, <2>1 DEF Discover, CanProbe, ProbePassword, Routers, OrAbsent
  <2>3. tokens' = [tokens EXCEPT ![k] = [host |-> host, password |-> used, expired |-> FALSE]]
    BY <1>2 DEF Discover
  <2>4. tested' = tested \cup {[host |-> host, password |-> used]}
    BY <1>2 DEF Discover
  <2>5. UNCHANGED <<alive, env, settings, file, temp, job, collector, verified, posted>>
    BY <1>2 DEF Discover, disk
  <2> HIDE DEF used
  <2>6. TypeOK'
    BY <2>2, <2>3, <2>4, <2>5 DEF TypeOK, TokenRows, Routers, OrAbsent
  <2>7. TokensTested'
    BY <2>3, <2>4 DEF TypeOK, TokensTested
  <2>8. ReconfiguresToTested' /\ TempIsOfJob'
    BY <2>4, <2>5 DEF ReconfiguresToTested, TempIsOfJob, Saving
  <2> QED BY <2>6, <2>7, <2>8
<1>3. ASSUME NEW k \in TokenIds, Expire(k) PROVE IInv'
  <2>1. tokens[k] \in TokenRows
    BY <1>3 DEF Expire, TypeOK, OrAbsent
  <2>2. tokens' = [tokens EXCEPT ![k].expired = TRUE]
    BY <1>3 DEF Expire
  <2>3. UNCHANGED <<alive, env, settings, file, temp, job, collector, tested, verified, posted>>
    BY <1>3 DEF Expire, history, disk
  <2>4. TypeOK'
    BY <2>1, <2>2, <2>3 DEF TypeOK, TokenRows, OrAbsent
  <2>5. TokensTested'
    BY <1>3, <2>1, <2>2, <2>3 DEF TypeOK, TokensTested, TokenRows, Expire
  <2>6. ReconfiguresToTested' /\ TempIsOfJob'
    BY <2>3 DEF ReconfiguresToTested, TempIsOfJob, Saving
  <2> QED BY <2>4, <2>5, <2>6
<1>4. ASSUME NEW q \in PatchRequests, Patch(q) PROVE IInv'
  <2>1. LiveTokens \in [TokenIds -> OrAbsent(TokenRows)]
    BY DEF TypeOK, LiveTokens, OrAbsent
  <2>2. \A k \in TokenIds : LiveTokens[k] # Absent => LiveTokens[k] = tokens[k]
    BY DEF LiveTokens
  <2>3. UNCHANGED <<alive, env, settings, file, collector, tested, verified, posted>>
    BY <1>4 DEF Patch, history
  <2>5. tokens' \in [TokenIds -> OrAbsent(TokenRows)]
    BY <1>4, <2>1 DEF Patch, OrAbsent
  <2>6. \A k \in TokenIds : tokens'[k] # Absent => tokens'[k] = tokens[k]
    BY <1>4, <2>1, <2>2 DEF Patch
  <2>7. job' \in OrAbsent(JobRows) /\ temp' \in OrAbsent(FileRows)
    <3>1. CASE PatchAccepted(q)
      <4>1. /\ job' = [by |-> "patch", candidate |-> Candidate(q), step |-> "writing",
                       reconfigures |-> Reconfigures(q)]
            /\ temp' = [text |-> Candidate(q), whole |-> FALSE]
        BY <1>4, <3>1 DEF Patch, BeginSave
      <4>2. Candidate(q) \in SettingsRows
        BY CandidateType
      <4>3. Reconfigures(q) \in BOOLEAN
        BY DEF Reconfigures, PatchRequests
      <4> QED BY <4>1, <4>2, <4>3 DEF JobRows, FileRows, OrAbsent
    <3>2. CASE ~PatchAccepted(q)
      BY <1>4, <3>2 DEF Patch, TypeOK
    <3> QED BY <3>1, <3>2
  <2>8. TypeOK'
    BY <2>3, <2>5, <2>7 DEF TypeOK
  <2>9. TokensTested'
    BY <2>3, <2>6 DEF TokensTested
  <2>10. ReconfiguresToTested'
    <3>1. CASE PatchAccepted(q) /\ Reconfigures(q)
      <4>1. q.token \in TokenIds /\ LiveTokens[q.token] # Absent
        BY <3>1 DEF PatchAccepted, TokenFits, PatchRequests, OrAbsent
      <4>2. [host |-> LiveTokens[q.token].host, password |-> LiveTokens[q.token].password]
              = Candidate(q).router
        BY <3>1 DEF PatchAccepted, TokenFits
      <4>3. Candidate(q).router \in tested
        BY <2>2, <4>1, <4>2 DEF TokensTested
      <4>4. job'.candidate = Candidate(q)
        BY <1>4, <3>1 DEF Patch, BeginSave
      <4> QED BY <2>3, <4>3, <4>4 DEF ReconfiguresToTested
    <3>2. CASE PatchAccepted(q) /\ ~Reconfigures(q)
      BY <1>4, <3>2 DEF Patch, BeginSave, ReconfiguresToTested
    <3>3. CASE ~PatchAccepted(q)
      BY <1>4, <2>3, <3>3 DEF Patch, ReconfiguresToTested
    <3> QED BY <3>1, <3>2, <3>3
  <2>11. TempIsOfJob'
    <3>1. CASE PatchAccepted(q)
      <4>1. /\ job' = [by |-> "patch", candidate |-> Candidate(q), step |-> "writing",
                       reconfigures |-> Reconfigures(q)]
            /\ temp' = [text |-> Candidate(q), whole |-> FALSE]
        BY <1>4, <3>1 DEF Patch, BeginSave
      <4> QED BY <4>1, CandidateType DEF TempIsOfJob, FileRows
    <3>2. CASE ~PatchAccepted(q)
      BY <1>4, <3>2 DEF Patch, Idle, TempIsOfJob, Saving
    <3> QED BY <3>1, <3>2
  <2> QED BY <2>8, <2>9, <2>10, <2>11
<1>5. ASSUME NEW q \in PostRequests, Post(q) PROVE IInv'
  <2>1. Posted(q) \in SettingsRows
    BY PostedType
  <2>2. settings' = Posted(q) /\ posted' = TRUE
        /\ UNCHANGED <<alive, env, file, tokens, collector, tested>>
    BY <1>5 DEF Post
  <2>3. verified' = verified \cup {q.database} /\ q.database \in Candidates
    BY <1>5 DEF Post, PostRequests
  <2>4. /\ job' \in OrAbsent(JobRows) /\ (job' # Absent => ~job'.reconfigures)
        /\ temp' \in OrAbsent(FileRows) /\ TempIsOfJob'
    <3>1. CASE q.database = "sqlite"
      <4>1. /\ job' = [by |-> "post", candidate |-> Posted(q), step |-> "writing",
                       reconfigures |-> FALSE]
            /\ temp' = [text |-> Posted(q), whole |-> FALSE]
        BY <1>5, <3>1 DEF Post, BeginSave
      <4> QED BY <2>1, <4>1 DEF JobRows, FileRows, OrAbsent, TempIsOfJob
    <3>2. CASE q.database # "sqlite"
      <4>1. job' = job /\ job = Absent /\ temp' = temp
        BY <1>5, <3>2 DEF Post, Idle
      <4> QED BY <4>1 DEF OrAbsent, TypeOK, TempIsOfJob, Saving
    <3> QED BY <3>1, <3>2
  <2>5. TypeOK'
    BY <2>1, <2>2, <2>3, <2>4 DEF TypeOK
  <2>6. TokensTested' /\ ReconfiguresToTested'
    BY <2>2, <2>4 DEF TokensTested, ReconfiguresToTested
  <2> QED BY <2>4, <2>5, <2>6
<1>6. ASSUME NEW candidate \in Candidates, Verify(candidate) PROVE IInv'
  BY <1>6 DEF Verify, disk, TypeOK, TokensTested, ReconfiguresToTested, TempIsOfJob, Saving
<1>7. CASE Flush
  <2>1. job \in JobRows /\ job # Absent /\ job.step = "writing"
    BY <1>7 DEF Flush, TypeOK, OrAbsent
  <2>2. /\ job' \in JobRows /\ job'.candidate = job.candidate
        /\ job'.reconfigures = job.reconfigures
    BY <1>7, <2>1 DEF Flush, JobRows
  <2>3. temp \in FileRows /\ temp.text = job.candidate
    BY <2>1 DEF TempIsOfJob, Saving
  <2>4. temp' \in FileRows /\ temp'.text = job.candidate /\ temp'.whole
    BY <1>7, <2>3 DEF Flush, FileRows
  <2>5. UNCHANGED <<alive, env, settings, file, tokens, collector, tested, verified, posted>>
    BY <1>7 DEF Flush, history
  <2>6. TypeOK'
    BY <2>2, <2>4, <2>5 DEF TypeOK, OrAbsent
  <2>7. TokensTested' /\ ReconfiguresToTested'
    BY <2>1, <2>2, <2>5 DEF TokensTested, ReconfiguresToTested
  <2>8. TempIsOfJob'
    BY <2>2, <2>4 DEF TempIsOfJob
  <2> QED BY <2>6, <2>7, <2>8
<1>8. CASE Replace
  <2>1. job \in JobRows /\ job # Absent /\ temp \in FileRows
    BY <1>8 DEF Replace, MayReplace, Saving, TypeOK, OrAbsent, TempIsOfJob
  <2>2. /\ job' = [job EXCEPT !.step = "saved"] /\ posted' = FALSE
        /\ file' = temp /\ temp' = Absent
        /\ UNCHANGED <<alive, env, settings, tokens, collector, tested, verified>>
    BY <1>8 DEF Replace
  <2>3. TypeOK'
    BY <2>1, <2>2 DEF TypeOK, JobRows, OrAbsent
  <2>4. TokensTested' /\ ReconfiguresToTested' /\ TempIsOfJob'
    BY <2>1, <2>2 DEF TokensTested, ReconfiguresToTested, TempIsOfJob, Saving, JobRows
  <2> QED BY <2>3, <2>4
<1>9. CASE SaveFails
  BY <1>9 DEF SaveFails, MemoryAfterFailure, history, TypeOK, OrAbsent, TokensTested,
              ReconfiguresToTested, TempIsOfJob, Saving
<1>10. CASE Finish
  <2>1. job \in JobRows
    BY <1>10 DEF Finish, TypeOK, OrAbsent
  <2>2. settings' \in SettingsRows /\ collector' \in Routers
    BY <1>10, <2>1 DEF Finish, TypeOK, JobRows, SettingsRows
  <2>3. job' = Absent /\ UNCHANGED <<alive, env, file, temp, tokens, tested, verified, posted>>
    BY <1>10 DEF Finish, history, disk
  <2> QED
    BY <2>2, <2>3 DEF TypeOK, OrAbsent, TokensTested, ReconfiguresToTested, TempIsOfJob, Saving
<1>11. CASE Stop
  BY <1>11 DEF Stop, history, TypeOK, OrAbsent, TokensTested, ReconfiguresToTested,
               TempIsOfJob, Saving, NoToken
<1>12. ASSUME NEW e \in Environments, Start(e) PROVE IInv'
  <2>1. file.text \in SettingsRows
    BY DEF TypeOK, FileRows
  <2>2. settings' \in SettingsRows /\ collector' = settings'.router
    BY <1>12, <2>1, LoadedType DEF Start
  <2>3. collector' \in Routers
    BY <2>2 DEF SettingsRows
  <2>4. alive' = TRUE /\ env' = e /\ posted' = FALSE
        /\ UNCHANGED <<file, temp, job, tokens, tested, verified>>
    BY <1>12 DEF Start, disk
  <2>5. TypeOK'
    BY <2>2, <2>3, <2>4 DEF TypeOK
  <2> QED BY <2>4, <2>5 DEF TokensTested, ReconfiguresToTested, TempIsOfJob, Saving
<1>13. ASSUME NEW e \in Environments, StartFails(e) PROVE IInv'
  BY <1>1, <1>13 DEF StartFails
<1> QED
  BY <1>1, <1>2, <1>3, <1>4, <1>5, <1>6, <1>7, <1>8, <1>9, <1>10, <1>11, <1>12, <1>13 DEF Next

LEMMA InvariantHolds == Spec => []IInv
<1> QED BY InitIInv, NextIInv, PTL DEF Spec

(* The settings, the file, the tokens and the running request stay of their  *)
(* types, a half-made POST included (config.py:33-55; main.py:903-1042).     *)
THEOREM TypeCorrect == Spec => []TypeOK
<1>1. IInv => TypeOK
  BY DEF IInv
<1> QED BY <1>1, InvariantHolds, PTL

(* A request reconfigures the collector only to an address and password a    *)
(* discovery has logged in with, however the settings changed since           *)
(* (main.py:996-1007, 1038-1040).                                            *)
THEOREM OnlyTestedRouters == Spec => []ReconfiguresToTested
<1>1. IInv => ReconfiguresToTested
  BY DEF IInv
<1> QED BY <1>1, InvariantHolds, PTL

-----------------------------------------------------------------------------
(* What the next start finds *)

(* What is in force is what the file says, or what load() made of it in this *)
(* environment, unless a POST has changed memory alone; no request outlives  *)
(* the process.                                                              *)
SavesInv ==
    /\ file.whole
    /\ ~alive => job = Absent
    /\ alive /\ ~posted =>
          \/ InForce = file.text
          \/ Loadable(file.text, env) /\ InForce = Loaded(file.text, env)

SInv == IInv /\ SavesInv

(* What is given back is what it was (config.py:67-74, 98-112).              *)
LEMMA GivenBackIsLoaded ==
    ASSUME NEW s \in SettingsRows, GivenBack(s)
    PROVE  Loadable(s, env) /\ Loaded(s, env) = s
<1>1. Read(env, "days", s.days) = s.days
  BY DEF GivenBack, Read
<1>2. Read(env, "host", s.router.host) = s.router.host
  BY DEF GivenBack, Read
<1>3. Read(env, "password", FilePassword(s.router.password)) = s.router.password
  BY DEF GivenBack, Read
<1>4. s.days \in Int /\ Clamp(s.days) = s.days
  BY DaysAssumption DEF GivenBack, Clamp
<1>5. Loaded(s, env) = [router |-> [host |-> s.router.host, password |-> s.router.password],
                        days |-> s.days, database |-> s.database]
  BY <1>1, <1>2, <1>3, <1>4 DEF Loaded
<1>6. s = [router |-> [host |-> s.router.host, password |-> s.router.password],
           days |-> s.days, database |-> s.database]
  BY DEF SettingsRows, Routers
<1>7. Loadable(s, env)
  BY <1>1, <1>4, DaysAssumption DEF Loadable
<1> QED BY <1>5, <1>6, <1>7

LEMMA InitSInv == Init => SInv
<1> SUFFICES ASSUME Init PROVE SavesInv
  BY InitIInv DEF SInv
<1>1. file.whole
  BY DEF Init
<1> QED BY <1>1 DEF Init, SavesInv, InForce

LEMMA NextSInv == SInv /\ [Next]_vars => SInv'
<1> SUFFICES ASSUME IInv, SavesInv, [Next]_vars PROVE SavesInv'
  BY NextIInv DEF SInv
<1>1. TypeOK /\ TempIsOfJob
  BY DEF IInv
<1>2. CASE UNCHANGED <<alive, env, settings, file, job, posted>>
  BY <1>2 DEF SavesInv, InForce
<1>3. ASSUME NEW q \in PatchRequests, Patch(q) PROVE SavesInv'
  <2>1. UNCHANGED <<alive, env, settings, file, posted>> /\ InForce = settings /\ alive
    BY <1>3 DEF Patch, Idle, history, InForce
  <2>2. job' = job \/ job' = [by |-> "patch", candidate |-> Candidate(q), step |-> "writing",
                              reconfigures |-> Reconfigures(q)]
    BY <1>3 DEF Patch, BeginSave
  <2>3. InForce' = settings'
    BY <1>3, <2>2 DEF InForce, Patch, Idle
  <2> QED BY <2>1, <2>3 DEF SavesInv
<1>4. ASSUME NEW q \in PostRequests, Post(q) PROVE SavesInv'
  BY <1>4 DEF Post, Idle, SavesInv
<1>5. CASE Flush
  <2>1. job \in JobRows /\ job # Absent /\ job.step = "writing"
    BY <1>1, <1>5 DEF Flush, TypeOK, OrAbsent
  <2>2. job'.step = "flushed" /\ UNCHANGED <<alive, env, settings, file, posted>>
    BY <1>5, <2>1 DEF Flush, history, JobRows
  <2> QED BY <2>1, <2>2 DEF SavesInv, InForce
<1>6. CASE Replace
  <2>1. job \in JobRows /\ temp.text = job.candidate /\ temp.whole
    BY <1>1, <1>6 DEF Replace, MayReplace, Saving, TypeOK, OrAbsent, TempIsOfJob
  <2>2. job' \in JobRows /\ job'.step = "saved" /\ job'.candidate = job.candidate /\ file' = temp
    BY <1>6, <2>1 DEF Replace, JobRows
  <2>3. InForce' = file'.text
    BY <2>1, <2>2, RowsAssumption DEF InForce
  <2>4. alive' = alive /\ (~alive => job = Absent) /\ job # Absent
    BY <1>6 DEF Replace, MayReplace, Saving, SavesInv
  <2> QED BY <2>1, <2>2, <2>3, <2>4 DEF SavesInv
<1>7. CASE SaveFails
  BY <1>7 DEF SaveFails, MemoryAfterFailure, Saving, history, SavesInv, InForce
<1>8. CASE Finish
  BY <1>8 DEF Finish, disk, history, SavesInv, InForce
<1>9. CASE Stop
  BY <1>9 DEF Stop, SavesInv
<1>10. ASSUME NEW e \in Environments, Start(e) PROVE SavesInv'
  <2>1. /\ file' = file /\ job' = job /\ env' = e
        /\ Loadable(file.text, e) /\ settings' = Loaded(file.text, e)
    BY <1>10 DEF Start, disk
  <2>2. job = Absent
    BY <1>10 DEF Start, SavesInv
  <2> QED BY <2>1, <2>2 DEF SavesInv, InForce
<1> QED
  BY <1>2, <1>3, <1>4, <1>5, <1>6, <1>7, <1>8, <1>9, <1>10
     DEF Next, vars, Discover, Expire, Verify, StartFails, disk, history

(* A start in the same environment finds a whole file with what was in force *)
(* wherever the process was killed, also between two steps of save() or when *)
(* save() has failed, as far as load() gives back what save() wrote, and     *)
(* unless a POST has changed memory alone (config.py:22-24, 67-74, 98-112,   *)
(* 161-212; main.py:1015-1036).                                              *)
THEOREM ConfigurationKept == Spec => []ConfigSurvives
<1>1. SInv => ConfigSurvives
  <2> SUFFICES ASSUME SInv, alive, ~posted, GivenBack(InForce)
               PROVE  Loadable(file.text, env) /\ Loaded(file.text, env) = InForce
    BY DEF SInv, SavesInv, ConfigSurvives
  <2>1. InForce \in SettingsRows
    BY DEF SInv, IInv, TypeOK, InForce, JobRows, OrAbsent
  <2>2. CASE InForce = file.text
    BY <2>1, <2>2, GivenBackIsLoaded
  <2> QED BY <2>2 DEF SInv, SavesInv
<1> QED BY <1>1, InitSInv, NextSInv, PTL DEF Spec
=============================================================================
