------------------------------- MODULE Config -------------------------------
(***************************************************************************)
(* The configuration: the settings in memory (backend/config.py), the file *)
(* config.env, the probe tokens of router tests, and the requests of       *)
(* backend/main.py that change them.                                       *)
(*                                                                         *)
(* Every request runs in the event loop, and none awaits between reading   *)
(* the settings and the end of save(), so no two of them interleave; the   *)
(* process may be killed between any two steps of save() (the machine does *)
(* not lose power: the directory is not synced).  The order in which       *)
(* waiting reconfigurations get their turn is the subject of module        *)
(* Supervisor: here the collector takes its new target at the call.        *)
(*                                                                         *)
(* Of the settings the model keeps the router's address and password, one  *)
(* retention, and the database: sqlite, or the PostgreSQL server (address, *)
(* port, name) with the login of a server.  A start reads them again from  *)
(* the file and from the environment, which goes before the file.          *)
(* poll_interval is kept as far as a request names it: its value meets     *)
(* what the retention's does, and the other secrets, which dotenv expands  *)
(* too, what the router's password does.                                   *)
(***************************************************************************)
EXTENDS Integers

CONSTANTS
    Hosts,        \* router addresses
    Passwords,    \* router passwords that are not empty
    Servers,      \* PostgreSQL servers
    Expanded,     \* what dotenv makes of a password: the ${...} in it expanded
    Days,         \* retentions a PATCH may ask for: it does not look at them
    Garbage,      \* one that int() refuses
    MinDays,      \* 1
    MaxDays,      \* 3650
    Environments, \* the environments a start may find itself in
    TokenIds,     \* probe tokens that exist at a time: bound of the model
    Absent        \* not in the payload; not in the table; the empty string

ASSUME DaysAssumption ==
    /\ MinDays \in Nat /\ MaxDays \in Nat /\ MinDays <= MaxDays
    /\ Days \subseteq Int \cup {Garbage} /\ Garbage \notin Int

OrAbsent(S) == S \cup {Absent}

ASSUME ExpandedAssumption == Expanded \in [Passwords -> OrAbsent(Passwords)]

(* A variable that is set goes before the file, also when it is empty. *)
ASSUME EnvironmentsAssumption ==
    \A e \in Environments :
        /\ "host" \in DOMAIN e => e["host"] \in Hosts
        /\ "password" \in DOMAIN e => e["password"] \in OrAbsent(Passwords)
        /\ "days" \in DOMAIN e => e["days"] \in Int \cup {Garbage}

ASSUME AbsentAssumption ==
    /\ Absent \notin Hosts \cup Passwords \cup Servers
    /\ Absent # "sqlite" /\ Absent \notin Days
    /\ Absent \notin [host : Hosts, password : Passwords, expired : BOOLEAN]

VARIABLES
    alive,      \* the process runs
    env,        \* the environment it was started in
    settings,   \* the Settings object
    file,       \* config.env: what it says, and whether it is whole
    temp,       \* the temporary file of a save, likewise
    job,        \* the request that is saving
    tokens,     \* probe_tokens
    collector,  \* the router the collector is configured for
    tested,     \* history: the routers a discovery logged in to
    verified,   \* history: the databases verify_candidate passed
    posted      \* history: a POST changed the memory after the last save

history == <<tested, verified, posted>>

disk == <<file, temp>>

vars == <<alive, env, settings, disk, job, tokens, collector, history>>

-----------------------------------------------------------------------------
Routers == [host : Hosts, password : OrAbsent(Passwords)]

DatabaseRows == [type : {"sqlite", "postgresql"}, server : OrAbsent(Servers),
                 login : OrAbsent(Servers)]

SettingsRows == [router : Routers, days : Days \cup (MinDays..MaxDays),
                 database : DatabaseRows]

(* A database request: a server, or sqlite. *)
Candidates == Servers \cup {"sqlite"}

(* Settings.database_url: Absent stands for the ValueError it raises. *)
DatabaseUrl(d) ==
    IF d.type = "sqlite" THEN "sqlite"
    ELSE IF d.server = Absent \/ d.login = Absent THEN Absent
    ELSE d.server

(* What a PATCH leaves of the database settings. *)
WithDatabase(d, candidate) ==
    CASE candidate = Absent   -> d
      [] candidate = "sqlite" -> [d EXCEPT !.type = "sqlite"]
      [] OTHER -> [type |-> "postgresql", server |-> candidate, login |-> candidate]

Or(value, default) == IF value = Absent THEN default ELSE value

(* The copy of the settings a PATCH prepares. *)
Candidate(q) ==
    [router |-> [host |-> Or(q.host, settings.router.host),
                 password |-> Or(q.password, settings.router.password)],
     days |-> Or(q.days, settings.days),
     database |-> WithDatabase(settings.database, q.database)]

NoToken == [k \in TokenIds |-> Absent]

-----------------------------------------------------------------------------
(* Settings.load, in the environment e                                      *)

Read(e, name, saved) == IF name \in DOMAIN e THEN e[name] ELSE saved

FilePassword(password) == IF password = Absent THEN Absent ELSE Expanded[password]

Clamp(days) ==
    IF days < MinDays THEN MinDays ELSE IF days > MaxDays THEN MaxDays ELSE days

(* int() raises ValueError, and the process ends, if it does not hold. *)
Loadable(saved, e) == Read(e, "days", saved.days) # Garbage

Loaded(saved, e) ==
    [router |-> [host |-> Read(e, "host", saved.router.host),
                 password |-> Read(e, "password", FilePassword(saved.router.password))],
     days |-> Clamp(Read(e, "days", saved.days)),
     database |-> saved.database]

-----------------------------------------------------------------------------
(* No request is between reading the settings and the end of save(). *)
Idle == alive /\ job = Absent

(* POST /api/router/discover *)

(* The password it tries: the one given, or the saved one of the same router. *)
ProbePassword(host, password) ==
    IF password # Absent THEN password
    ELSE IF host = settings.router.host THEN settings.router.password
    ELSE Absent

(* Mutants, here and below: a definition as a plausible bug would write it. *)
CanProbeAnyhow(password) == TRUE

CanProbe(password) == password # Absent

Discover(host, password, k) ==
    LET used == ProbePassword(host, password)
    IN  /\ Idle
        /\ CanProbe(used)
        /\ tokens[k] = Absent
        /\ tokens' = [tokens EXCEPT ![k] = [host |-> host, password |-> used,
                                            expired |-> FALSE]]
        /\ tested' = tested \cup {[host |-> host, password |-> used]}
        /\ UNCHANGED <<alive, env, settings, disk, job, collector, verified, posted>>

(* Fifteen minutes pass. *)
Expire(k) ==
    /\ tokens[k] # Absent
    /\ tokens' = [tokens EXCEPT ![k].expired = TRUE]
    /\ UNCHANGED <<alive, env, settings, disk, job, collector, history>>

-----------------------------------------------------------------------------
(* PATCH /api/config *)

PatchRequests ==
    [host : OrAbsent(Hosts), password : OrAbsent(Passwords), poll : BOOLEAN,
     days : OrAbsent(Days), database : OrAbsent(Candidates),
     token : OrAbsent(TokenIds)]

Reconfigures(q) == q.host # Absent \/ q.password # Absent \/ q.poll

(* Expired tokens are dropped before anything else is looked at. *)
LiveTokens ==
    [k \in TokenIds |-> IF tokens[k] # Absent => tokens[k].expired
                        THEN Absent ELSE tokens[k]]

TokenFitsHostOnly(q) ==
    /\ q.token # Absent
    /\ LiveTokens[q.token] # Absent
    /\ LiveTokens[q.token].host = Candidate(q).router.host

(* The token is of a test of the very router that would be saved. *)
TokenFits(q) ==
    /\ q.token # Absent
    /\ LiveTokens[q.token] # Absent
    /\ [host |-> LiveTokens[q.token].host, password |-> LiveTokens[q.token].password]
         = Candidate(q).router

PatchAccepted(q) ==
    /\ q.database # Absent => DatabaseUrl(settings.database) # Absent
    /\ Reconfigures(q) => TokenFits(q)

(* save() begins: a temporary file, as yet without all of the text. *)
BeginSave(by, candidate, reconfigures) ==
    /\ job' = [by |-> by, candidate |-> candidate, step |-> "writing",
               reconfigures |-> reconfigures]
    /\ temp' = [text |-> candidate, whole |-> FALSE]

Patch(q) ==
    /\ Idle
    /\ IF PatchAccepted(q)
       THEN /\ tokens' = IF Reconfigures(q) THEN [LiveTokens EXCEPT ![q.token] = Absent]
                                            ELSE LiveTokens
            /\ BeginSave("patch", Candidate(q), Reconfigures(q))
       ELSE tokens' = LiveTokens /\ UNCHANGED <<job, temp>>
    /\ UNCHANGED <<alive, env, settings, file, collector, history>>

-----------------------------------------------------------------------------
(* POST /api/config, the request before PATCH, is still served.             *)

PostRequests ==
    [host : Hosts, password : OrAbsent(Passwords), keep : BOOLEAN,
     days : Days \cap (MinDays..MaxDays), database : Candidates]

(* What it has assigned when it saves; for a PostgreSQL server it raises    *)
(* AttributeError (payload.database.user) before it assigns the login.      *)
Posted(q) ==
    [router |-> [host |-> q.host,
                 password |-> IF q.keep THEN settings.router.password ELSE q.password],
     days |-> q.days,
     database |-> IF q.database = "sqlite"
                  THEN [settings.database EXCEPT !.type = "sqlite"]
                  ELSE [settings.database EXCEPT !.type = "postgresql",
                                                 !.server = q.database]]

Post(q) ==
    /\ Idle
    /\ verified' = verified \cup {q.database}
    /\ DatabaseUrl(settings.database) # Absent
    /\ settings' = Posted(q)
    /\ IF q.database = "sqlite"
       THEN BeginSave("post", Posted(q), FALSE)
       ELSE UNCHANGED <<job, temp>>
    /\ posted' = TRUE
    /\ UNCHANGED <<alive, env, file, tokens, collector, tested>>

(* POST /api/database/test; also a POST that fails on the settings' own URL. *)
Verify(candidate) ==
    /\ Idle
    /\ verified' = verified \cup {candidate}
    /\ UNCHANGED <<alive, env, settings, disk, job, tokens, collector, tested, posted>>

-----------------------------------------------------------------------------
(* Settings.save and what follows it *)

Saving == job # Absent /\ job.step # "saved"

(* The text is written, flushed and synced. *)
Flush ==
    /\ job # Absent
    /\ job.step = "writing"
    /\ temp' = [temp EXCEPT !.whole = TRUE]
    /\ job' = [job EXCEPT !.step = "flushed"]
    /\ UNCHANGED <<alive, env, settings, file, tokens, collector, history>>

MayReplaceUnflushed == Saving

MayReplace == Saving /\ job.step = "flushed"

(* os.replace *)
Replace ==
    /\ MayReplace
    /\ file' = temp
    /\ temp' = Absent
    /\ job' = [job EXCEPT !.step = "saved"]
    /\ posted' = FALSE
    /\ UNCHANGED <<alive, env, settings, tokens, collector, tested, verified>>

(* A PATCH has prepared a copy; a POST has changed the settings already. *)
MemoryInPlace == job.candidate

MemoryAfterFailure == settings

(* OSError: the temporary file is removed and the request fails. *)
SaveFails ==
    /\ Saving
    /\ temp' = Absent
    /\ job' = Absent
    /\ settings' = MemoryAfterFailure
    /\ UNCHANGED <<alive, env, file, tokens, collector, history>>

(* The candidate is applied to memory, and the collector reconfigured. *)
Finish ==
    /\ job # Absent
    /\ job.step = "saved"
    /\ settings' = job.candidate
    /\ collector' = IF job.reconfigures THEN job.candidate.router ELSE collector
    /\ job' = Absent
    /\ UNCHANGED <<alive, env, disk, tokens, history>>

-----------------------------------------------------------------------------
(* The process ends, by itself or killed; a temporary file left behind is   *)
(* never read.                                                              *)
Stop ==
    /\ alive
    /\ alive' = FALSE
    /\ job' = Absent
    /\ temp' = Absent
    /\ tokens' = NoToken
    /\ UNCHANGED <<env, settings, file, collector, history>>

(* It starts, in an environment that may be another one than before. *)
Start(e) ==
    /\ ~alive
    /\ Loadable(file.text, e)
    /\ alive' = TRUE
    /\ env' = e
    /\ settings' = Loaded(file.text, e)
    /\ collector' = settings'.router
    /\ posted' = FALSE
    /\ UNCHANGED <<disk, job, tokens, tested, verified>>

(* Settings.load raises: it ends again at once. *)
StartFails(e) ==
    /\ ~alive
    /\ ~Loadable(file.text, e)
    /\ UNCHANGED vars

(* An installation whose router and database are taken to be tried out. *)
Init ==
    /\ env \in Environments
    /\ file \in [text : [router : Routers, days : {MinDays},
                         database : [type : {"sqlite"}, server : {Absent}, login : {Absent}]],
                 whole : {TRUE}]
    /\ Loadable(file.text, env)
    /\ settings = Loaded(file.text, env)
    /\ collector = settings.router
    /\ alive = TRUE
    /\ temp = Absent
    /\ job = Absent
    /\ tokens = NoToken
    /\ tested = {settings.router, file.text.router}
    /\ verified = {"sqlite"}
    /\ posted = FALSE

Next ==
    \/ \E host \in Hosts, password \in OrAbsent(Passwords), k \in TokenIds :
          Discover(host, password, k)
    \/ \E k \in TokenIds : Expire(k)
    \/ \E q \in PatchRequests : Patch(q)
    \/ \E q \in PostRequests : Post(q)
    \/ \E candidate \in Candidates : Verify(candidate)
    \/ Flush
    \/ Replace
    \/ SaveFails
    \/ Finish
    \/ Stop
    \/ \E e \in Environments : Start(e) \/ StartFails(e)

Spec == Init /\ [][Next]_vars

-----------------------------------------------------------------------------
(* Properties *)

FileRows == [text : SettingsRows, whole : BOOLEAN]

JobRows == [by : {"patch", "post"}, candidate : SettingsRows,
            step : {"writing", "flushed", "saved"}, reconfigures : BOOLEAN]

TokenRows == [host : Hosts, password : Passwords, expired : BOOLEAN]

(* A request that saves is not the absence of one, nor is a file. *)
ASSUME RowsAssumption == Absent \notin JobRows \cup FileRows

(* Type correctness; what a discovery tested is never an empty password but  *)
(* for the one of the installation.                                          *)
TypeOK ==
    /\ alive \in BOOLEAN
    /\ env \in Environments
    /\ settings \in SettingsRows
    /\ file \in FileRows
    /\ temp \in OrAbsent(FileRows)
    /\ job \in OrAbsent(JobRows)
    /\ tokens \in [TokenIds -> OrAbsent(TokenRows)]
    /\ collector \in Routers
    /\ tested \subseteq Routers
    /\ verified \subseteq Candidates
    /\ posted \in BOOLEAN

(* Whatever happened to the settings since its token was issued, a request   *)
(* that reconfigures the collector does so to an address and password that   *)
(* a discovery has logged in with (main.py:853-879, 996-1007, 1038-1040).    *)
ReconfiguresToTested ==
    job # Absent => (job.reconfigures => job.candidate.router \in tested)

(* The settings that are in force, or about to be once they are saved. *)
InForce == IF job # Absent /\ job.step = "saved" THEN job.candidate ELSE settings

(* What load() gives back as save() wrote it, where the environment says     *)
(* nothing else.                                                             *)
GivenBack(s) ==
    /\ s.days \in MinDays..MaxDays
    /\ FilePassword(s.router.password) = s.router.password
    /\ "host" \in DOMAIN env => env["host"] = s.router.host
    /\ "password" \in DOMAIN env => env["password"] = s.router.password
    /\ "days" \in DOMAIN env => env["days"] = s.days

(* Whenever the process is killed, between any two steps of save() too, the  *)
(* file is whole, and a start in the same environment finds the settings in  *)
(* force.  Not so after a POST that changed memory alone, and not for what   *)
(* load() does not give back: a retention out of its range or no integer, a  *)
(* password that dotenv expands, a setting the environment fixes otherwise   *)
(* (config.py:22-24, 67-74, 98-112, 161-212; main.py:1015-1036).             *)
ConfigSurvives ==
    /\ file.whole
    /\ alive /\ ~posted /\ GivenBack(InForce) =>
          Loadable(file.text, env) /\ Loaded(file.text, env) = InForce

(* CHANGES.md:116: the back end verifies a database again when it saves it.  *)
SavedDatabaseVerified ==
    file.text.database.type = "postgresql" => file.text.database.server \in verified

(* CHANGES.md:74: probe tokens make sure that the credentials saved have     *)
(* been verified, all of them.                                               *)
SavedRouterTested == file.text.router \in tested
=============================================================================
