--------------------------- MODULE VerifyRequest ---------------------------
(***************************************************************************)
(* The verify-service between its configuration and its runner: the        *)
(* configuration is read once, at startup, and its connections are         *)
(* resolved as a check; every request resolves them again, from the same   *)
(* configuration and the secret files as they are then.  POST /jobs turns  *)
(* a request into a plan, POST /tables/raw reads one table of one side.    *)
(*                                                                         *)
(* Each credential is read on its own: files may change between two reads  *)
(* of one request, or of the check at startup.                             *)
(*                                                                         *)
(* A configuration value is a number, 0 where it is empty.  A missing      *)
(* connection block is one in which everything is empty.                   *)
(***************************************************************************)
EXTENDS RequestFilter

CONSTANTS
    Configs,      \* the configurations the service may be started with
    JobRequests, RawRequests,
    Env,          \* the environment of the process: variable -> value
    Files,        \* the names of secret files
    Contents,     \* what a secret file may hold: [text, newline]
    MaxChanges    \* bound: changes of a secret file

Unset == -1
NoFile == [text |-> Unset, newline |-> FALSE]

Fields == {"host", "port", "database", "sslmode", "ca", "cert", "key"}

\* CredentialValue: without a block, that is undeclared, it has no source.
Credential ==
    {c \in [declared : BOOLEAN, sources : SUBSET {"value", "env_ref", "secret_file"}, ref : Nat] :
        ~c.declared => c.sources = {}}
Connection == [fields : [Fields -> Nat], user : Credential, pass : Credential]
DatabaseMapping ==
    [name : Seq(Nat), source : Connection, destination : Connection,
     sourceDatabase : Nat, destinationDatabase : Nat]
Config ==
    [readable : BOOLEAN, listener : [bind : BOOLEAN, tls : {"none", "partial", "complete"}],
     rawTableOutput : BOOLEAN, source : Connection, destination : Connection,
     databases : Seq(DatabaseMapping)]

ASSUME RequestAssumption ==
    /\ MaxChanges \in Nat /\ 0 \notin Files /\ Slash \in Nat
    /\ Configs \subseteq Config /\ JobRequests \subseteq JobRequest

FileStates == [Files -> Contents \cup {NoFile}]

VARIABLES
    phase,    \* down, starting or serving
    cfg,      \* the configuration
    files,    \* secret file -> content
    call,     \* the startup check or request that is handled or was answered last
    started,  \* history: the states of the files during the startup check
    changes

vars == <<phase, cfg, files, call, started, changes>>

\* A call has a path, the status of its answer, 0 before, 1 for an exit, and a code;
\* read holds the credentials that were read for it.  seen is a history of the
\* states of the files between its arrival and its answer.
Nothing == [path |-> "none", status |-> 0, code |-> "ok", request |-> << >>,
            plan |-> << >>, conn |-> {}, read |-> << >>, seen |-> {}]
InFlight == call.path # "none" /\ call.status = 0

----------------------------------------------------------------------------
(* resolved_config.go, config.go                                           *)

NoCredential == [declared |-> FALSE, sources |-> {}, ref |-> 0]
NoConn == [fields |-> [f \in Fields |-> 0], user |-> NoCredential, pass |-> NoCredential]

\* firstNonEmpty, firstNonZero.
FirstSet(a, b) == IF a # 0 THEN a ELSE b

\* mergeCredential: what is declared is not combined with the defaults.
MergeCredential(defaults, override) == IF override.declared THEN override ELSE defaults

Trimmed(content) == content.text

\* resolveCredential, Unset for every error: not exactly one source, an empty
\* reference, a variable or file that is missing or empty.
ResolveCredential(c, fs) ==
    LET value ==
            IF Cardinality(c.sources) # 1 \/ c.ref = 0 THEN Unset
            ELSE CASE c.sources = {"value"} -> c.ref
                   [] c.sources = {"env_ref"} ->
                        IF c.ref \in DOMAIN Env THEN Env[c.ref] ELSE Unset
                   [] c.sources = {"secret_file"} ->
                        IF c.ref \in DOMAIN fs THEN Trimmed(fs[c.ref]) ELSE Unset
    IN  IF value = 0 THEN Unset ELSE value

\* resolveOptionalCredential.
ResolveOptional(c, fs) == IF c.declared THEN ResolveCredential(c, fs) ELSE 0

VerifyFull == 2

\* Databases are found by name.
Configured(c, name) == {i \in DOMAIN c.databases : c.databases[i].name = name}

\* Only the first database is resolved at startup.
TodoFirstOnly(c, a) ==
    CASE a.path = "raw" -> Configured(c, a.request[1].database)
      [] a.path = "startup" -> {1}
      [] OTHER -> DOMAIN c.databases

\* ResolveDatabase for the database of a raw table; ResolveAllDatabases for a job,
\* and all of them at startup.
Todo(c, a) ==
    IF a.path = "raw" THEN Configured(c, a.request[1].database) ELSE DOMAIN c.databases

\* The credentials a call reads: database, side and field, in this order.
Sides == {"source", "destination"}
SlotsOf(todo) == todo \X Sides \X {"user", "pass"}
Slots(c, a) == SlotsOf(Todo(c, a))
Before(s, t) ==
    \/ s[1] < t[1]
    \/ s[1] = t[1] /\ s[2] = "source" /\ t[2] = "destination"
    \/ s[1] = t[1] /\ s[2] = t[2] /\ s[3] = "user" /\ t[3] = "pass"

\* What a read returns: the user is required, the password is not.
InForce(c, s) == MergeCredential(c[s[2]][s[3]], c.databases[s[1]][s[2]][s[3]])
ResolveAt(c, s, fs) ==
    IF s[3] = "user" THEN ResolveCredential(InForce(c, s), fs) ELSE ResolveOptional(InForce(c, s), fs)

\* resolveDatabaseAt and resolveConnection, all but the credentials.
FieldsOf(c, i, side) ==
    LET d == c.databases[i]
        named == [source |-> d.sourceDatabase, destination |-> d.destinationDatabase]
    IN  [f \in Fields |->
            IF f = "database"
            THEN FirstSet(named[side], FirstSet(d[side].fields[f], c[side].fields[f]))
            ELSE FirstSet(d[side].fields[f], c[side].fields[f])]

\* ResolvedConnection.validate.
Complete(fields) ==
    /\ \A f \in {"host", "port", "database", "sslmode"} : fields[f] # 0
    /\ fields["sslmode"] = VerifyFull => fields["ca"] # 0
    /\ (fields["cert"] # 0) = (fields["key"] # 0)

\* An error of a credential ends the call before its connection is validated, an
\* incomplete connection before the next one is looked at.
CredentialFails(a) == \E s \in DOMAIN a.read : a.read[s] = Unset
ConnectionFails(c, a) ==
    \E s \in DOMAIN a.read : s[3] = "pass" /\ ~Complete(FieldsOf(c, s[1], s[2]))
Fails(c, a) == CredentialFails(a) \/ ConnectionFails(c, a)
Resolved(c, a) == ~Fails(c, a) /\ DOMAIN a.read = Slots(c, a)

\* What a call has resolved.
ResolvedSide(c, a, i, side) ==
    [fields |-> FieldsOf(c, i, side), user |-> a.read[<<i, side, "user">>],
     pass |-> a.read[<<i, side, "pass">>]]
Pairs(c, a) ==
    [i \in Todo(c, a) |-> [name |-> c.databases[i].name,
                           source |-> ResolvedSide(c, a, i, "source"),
                           destination |-> ResolvedSide(c, a, i, "destination")]]

ListenerValid(l) == l.bind /\ l.tls # "partial"

\* Config.Validate up to the connections.  The code checks the name of a database
\* after resolving the ones before it: either error ends the process.
WellFormed(c) ==
    /\ ListenerValid(c.listener)
    /\ c.databases # << >>
    /\ \A i \in DOMAIN c.databases :
          /\ c.databases[i].name # << >>
          /\ \A j \in DOMAIN c.databases : c.databases[i].name = c.databases[j].name => i = j

\* ConnectionString: the parts of the URL, empty ones left out.
ConnectionString(conn) ==
    {<<"host", conn.fields["host"], conn.fields["port"]>>, <<"path", conn.fields["database"]>>,
     <<"user", conn.user>>, <<"sslmode", conn.fields["sslmode"]>>}
        \cup (IF conn.pass # 0 THEN {<<"password", conn.pass>>} ELSE {})
        \cup (IF conn.fields["ca"] # 0 THEN {<<"sslrootcert", conn.fields["ca"]>>} ELSE {})
        \cup (IF conn.fields["cert"] # 0
              THEN {<<"sslcert", conn.fields["cert"]>>, <<"sslkey", conn.fields["key"]>>} ELSE {})

----------------------------------------------------------------------------
(* Reading credentials, and the world outside.                             *)

\* os.ReadFile, os.LookupEnv or a value, for the next credential of the call.
ReadAt(s, fs) ==
    /\ InFlight /\ ~Fails(cfg, call)
    /\ s \notin DOMAIN call.read
    /\ \A t \in Slots(cfg, call) : Before(t, s) => t \in DOMAIN call.read
    /\ call' = [call EXCEPT !.read = [t \in DOMAIN call.read \cup {s} |->
                    IF t = s THEN ResolveAt(cfg, s, fs) ELSE call.read[t]]]
    /\ UNCHANGED <<phase, cfg, files, started, changes>>

\* Requests use what was read at startup.
ReadCachedCredential(s) ==
    \E fs \in IF phase = "serving" THEN started ELSE {files} : ReadAt(s, fs)

ReadCredential(s) == ReadAt(s, files)

\* A secret is rotated, emptied or removed.
ChangeFile(f, content) ==
    /\ changes < MaxChanges
    /\ files[f] # content
    /\ files' = [files EXCEPT ![f] = content]
    /\ changes' = changes + 1
    /\ call' = IF InFlight THEN [call EXCEPT !.seen = @ \cup {files'}] ELSE call
    /\ UNCHANGED <<phase, cfg, started>>

\* The response is written, or the failed process is gone.
Written ==
    /\ call.status # 0
    /\ call' = Nothing
    /\ UNCHANGED <<phase, cfg, files, started, changes>>

----------------------------------------------------------------------------
(* Startup: LoadConfig and Run.                                            *)

Start(c) ==
    /\ phase = "down" /\ call = Nothing
    /\ c.readable /\ WellFormed(c)
    /\ phase' = "starting"
    /\ cfg' = c
    /\ call' = [Nothing EXCEPT !.path = "startup", !.seen = {files}]
    /\ UNCHANGED <<files, started, changes>>

\* config_read_failed and invalid_config: the process exits.
StartRefused(c) ==
    /\ phase = "down" /\ call = Nothing
    /\ ~(c.readable /\ WellFormed(c))
    /\ call' = [Nothing EXCEPT !.path = "startup", !.status = 1,
                               !.code = IF c.readable THEN "invalid_config"
                                        ELSE "config_read_failed"]
    /\ UNCHANGED <<phase, cfg, files, started, changes>>

\* Whatever does not resolve is an invalid configuration.
StartFails ==
    /\ phase = "starting" /\ Fails(cfg, call)
    /\ phase' = "down"
    /\ call' = [call EXCEPT !.status = 1, !.code = "invalid_config"]
    /\ UNCHANGED <<cfg, files, started, changes>>

\* The connections that were resolved are not kept.
Started ==
    /\ phase = "starting" /\ Resolved(cfg, call)
    /\ phase' = "serving"
    /\ started' = call.seen
    /\ call' = Nothing
    /\ UNCHANGED <<cfg, files, changes>>

Shutdown ==
    /\ phase = "serving" /\ call = Nothing
    /\ phase' = "down"
    /\ UNCHANGED <<cfg, files, call, started, changes>>

----------------------------------------------------------------------------
(* service.go: POST /jobs and POST /tables/raw.                            *)

\* Handlers share nothing that changes but the files: one request at a time.
Arrive(path, r) ==
    /\ phase = "serving" /\ call = Nothing
    /\ call' = [Nothing EXCEPT !.path = path, !.request = <<r>>, !.seen = {files}]
    /\ UNCHANGED <<phase, cfg, files, started, changes>>
Refuse(path, r, status, code) ==
    /\ phase = "serving" /\ call = Nothing
    /\ call' = [Nothing EXCEPT !.path = path, !.request = <<r>>, !.seen = {files},
                               !.status = status, !.code = code]
    /\ UNCHANGED <<phase, cfg, files, started, changes>>
Answer(path, status, code, plan, conn) ==
    /\ InFlight /\ call.path = path
    /\ call' = [call EXCEPT !.status = status, !.code = code, !.plan = plan, !.conn = conn]
    /\ UNCHANGED <<phase, cfg, files, started, changes>>

\* decodeJSONBody, and classifyDecodeJSONError with the status of the reply.
Decodes(body) == body = "json"
DecodeStatus(code) == IF code = "request_body_too_large" THEN 413 ELSE 400

\* A plan may be empty.
PlanAllowingNone(selections, pairs) ==
    [code |-> "ok",
     plan |-> [i \in {i \in DOMAIN pairs : MatchingSelections(selections, pairs[i].name) # {}} |->
                DatabasePlan(selections, pairs[i])]]

\* Resolve, once all databases are resolved: the databases that are matched, in
\* the order of the configuration.  The plan of a database has its index there.
Plan(selections, pairs) ==
    LET matched == {i \in DOMAIN pairs : MatchingSelections(selections, pairs[i].name) # {}}
    IN  [code |-> IF matched = {} THEN "invalid_database_selection" ELSE "ok",
         plan |-> [i \in matched |-> DatabasePlan(selections, pairs[i])]]

DecodeCode(r) ==
    IF ~Decodes(r.body) THEN r.body
    ELSE IF ExpressionFails(r.schema) \/ ExpressionFails(r.table) \/ DatabasesFail(r.databases)
    THEN "invalid_json" ELSE "json"

\* handlePostJobs: the errors of the request itself come before any credential.
PostJobsRefused(r) ==
    \/ DecodeCode(r) # "json" /\ Refuse("jobs", r, DecodeStatus(DecodeCode(r)), DecodeCode(r))
    \/ /\ DecodeCode(r) = "json" /\ Compile(r).code # "ok"
       /\ Refuse("jobs", r, 400, Compile(r).code)
PostJobs(r) ==
    /\ DecodeCode(r) = "json" /\ Compile(r).code = "ok"
    /\ Arrive("jobs", r)

\* ResolveAllDatabases fails.
JobsUnresolved ==
    /\ Fails(cfg, call)
    /\ Answer("jobs", 400, IF CredentialFails(call) THEN "invalid_config" ELSE "plain", << >>, {})

\* Resolve, after it; the job that starts is the subject of VerifyJobs.
JobsPlanned ==
    /\ call.path = "jobs" /\ Resolved(cfg, call)
    /\ LET plan == Plan(Compile(call.request[1]).selections, Pairs(cfg, call))
       IN  \/ plan.code = "ok" /\ Answer("jobs", 202, "ok", plan.plan, {})
           \/ plan.code # "ok" /\ Answer("jobs", 400, plan.code, << >>, {})

\* RawTableRequest.Validate, and finding the database.
RawValid(r) ==
    /\ r.database # << >>
    /\ r.side \in Sides
    /\ r.identifiers
RawFound(c, r) == RawValid(r) /\ Configured(c, r.database) # {}

\* handlePostTablesRaw up to the connection.
PostTablesRawRefused(r) ==
    \/ ~cfg.rawTableOutput /\ Refuse("raw", r, 403, "disabled")
    \/ /\ cfg.rawTableOutput /\ ~Decodes(r.body)
       /\ Refuse("raw", r, DecodeStatus(r.body), r.body)
    \/ /\ cfg.rawTableOutput /\ Decodes(r.body) /\ ~RawFound(cfg, r)
       /\ Refuse("raw", r, 400, "plain")
PostTablesRaw(r) ==
    /\ cfg.rawTableOutput /\ Decodes(r.body) /\ RawFound(cfg, r)
    /\ Arrive("raw", r)

RawUnresolved == Fails(cfg, call) /\ Answer("raw", 400, "plain", << >>, {})

\* connectionFor: both sides were resolved, one is used.
RawConn(c, a) ==
    LET i == CHOOSE i \in Configured(c, a.request[1].database) : TRUE
    IN  ConnectionString(ResolvedSide(c, a, i, a.request[1].side))
RawRead ==
    /\ call.path = "raw" /\ Resolved(cfg, call)
    /\ Answer("raw", 200, "ok", << >>, RawConn(cfg, call))

\* Connecting, the query, a value that is not JSON, or closing the connection.
RawFails == Resolved(cfg, call) /\ Answer("raw", 500, "plain", << >>, {})

----------------------------------------------------------------------------
Init ==
    /\ phase = "down"
    /\ cfg \in Configs
    /\ files \in FileStates
    /\ call = Nothing
    /\ started = {}
    /\ changes = 0

Next ==
    \/ \E c \in Configs : Start(c) \/ StartRefused(c)
    \/ StartFails \/ Started \/ Shutdown \/ Written
    \/ \E f \in Files, content \in Contents \cup {NoFile} : ChangeFile(f, content)
    \/ \E s \in Slots(cfg, call) : ReadCredential(s)
    \/ \E r \in JobRequests : PostJobsRefused(r) \/ PostJobs(r)
    \/ JobsUnresolved \/ JobsPlanned
    \/ \E r \in RawRequests : PostTablesRawRefused(r) \/ PostTablesRaw(r)
    \/ RawUnresolved \/ RawRead \/ RawFails

Spec == Init /\ [][Next]_vars

----------------------------------------------------------------------------
(* Properties.                                                             *)

\* The shape of the state: an accepted job has a plan, with each database of the
\* configuration at most once, and nothing else has one.
TypeOK ==
    /\ phase \in {"down", "starting", "serving"}
    /\ cfg \in Configs
    /\ files \in FileStates /\ started \subseteq FileStates /\ call.seen \subseteq FileStates
    /\ call.status \in {0, 1, 200, 202, 400, 403, 413, 500}
    /\ call.status = 202 <=> DOMAIN call.plan # {}
    /\ \A i, j \in DOMAIN call.plan :
          call.plan[i].database.name = call.plan[j].database.name => i = j
    /\ changes \in 0..MaxChanges

\* The names that the globs of one request are tried on.
Alphabet == {1, 2}
Words == {<<a>> : a \in Alphabet} \cup {<<a, b>> : a \in Alphabet, b \in Alphabet}
            \cup {<<Slash>>, <<1, Slash>>}
SlashFree(word) == \A k \in DOMAIN word : word[k] # Slash

\* Globs that mean the same to path.Match and to globToRegex.
PlainGlob(g) ==
    \A i \in DOMAIN g : /\ g[i].t # "esc"
                        /\ g[i].t = "lit" => g[i].c # Wide
                        /\ g[i].t = "class" => g[i].mark # "!" /\ g[i].lo <= g[i].hi

\* The databases of a request; none at all stands for all of them.
Requested(r) ==
    IF Databases(r.databases) # << >> THEN Databases(r.databases)
    ELSE <<[match |-> <<Star>>, schema |-> {}, table |-> {}]>>

\* What the request asks of a database, read off the request itself.
Asks(r, name, schema, table) ==
    LET matches(globs, default, word) ==
            IF globs # {} THEN \E g \in globs : PathMatch(g, word)
            ELSE default = {} \/ \E g \in default : PathMatch(g, word)
        items == Requested(r)
    IN  {i \in DOMAIN items : /\ PathMatch(items[i].match, name)
                              /\ matches(items[i].schema, Globs(r.schema), schema)
                              /\ matches(items[i].table, Globs(r.table), table)}

\* p verifies every table, with a schema and a name of W, that r asks for and, if a
\* single selection of r matches the database, no other one.  Globs whose meaning
\* changes when they become regular expressions are excepted, and so are, in the
\* second part, names with a '/', which only the regular expressions' wildcards take.
Follows(p, r, W) ==
    LET name == p.database.name
        selections == {k \in DOMAIN Requested(r) : PathMatch(Requested(r)[k].match, name)}
    IN  (\A g \in p.schemas \cup p.tables : PlainGlob(g)) =>
            /\ FilterOk(p.schemas) /\ FilterOk(p.tables)
            /\ selections # {}
            /\ \A s, t \in W :
                  LET chosen == Selects(p.schemas, s) /\ Selects(p.tables, t)
                  IN  /\ Asks(r, name, s, t) # {} => chosen
                      /\ (Cardinality(selections) = 1 /\ SlashFree(s) /\ SlashFree(t)) =>
                            (chosen => Asks(r, name, s, t) # {})
PlansFollow(W) == \A i \in DOMAIN call.plan : Follows(call.plan[i], call.request[1], W)

\* The plan of an accepted job selects what the globs of its request ask for.
SelectionFollowsGlobs == PlansFollow(Words)

\* The credential a connection is configured with, its own or the default, as
\* the secret files fs hold it; 0 for none.
Expected(c, d, side, field, fs) ==
    LET own == d[side][field]
        credential == IF own.declared THEN own ELSE c[side][field]
    IN  CASE ~credential.declared -> 0
          [] credential.declared /\ credential.sources = {"secret_file"} -> fs[credential.ref].text
          [] credential.declared /\ credential.sources = {"env_ref"} -> Env[credential.ref]
          [] OTHER -> credential.ref

\* Each credential of the plan of a, and of the connection a raw table is read
\* with, is what its own source held in one of the given states of the files.
CredentialsFrom(c, a, states) ==
    /\ \A i \in DOMAIN a.plan :
          \E k \in Configured(c, a.plan[i].database.name) :
             \A side \in Sides : \A field \in {"user", "pass"} : \E fs \in states :
                a.plan[i].database[side][field] = Expected(c, c.databases[k], side, field, fs)
    /\ (a.path = "raw" /\ a.status = 200) =>
          \E k \in Configured(c, a.request[1].database) :
             LET expected(field, fs) == Expected(c, c.databases[k], a.request[1].side, field, fs)
             IN  /\ \E fs \in states : <<"user", expected("user", fs)>> \in a.conn
                 /\ \E fs \in states : \/ expected("pass", fs) = 0
                                       \/ <<"password", expected("pass", fs)>> \in a.conn

\* A plan connects, and a raw table is read, with secrets that were in the files
\* while the request was handled, however often they were rotated since startup,
\* and each side of each database with its own.
FreshCredentials == CredentialsFrom(cfg, call, call.seen)

\* What was checked at startup stays true: as long as the secret files hold what
\* they held then, no request is refused because of the configuration.
StartupCheckHolds ==
    \A fs \in started :
        (call.path = "jobs" /\ started = {fs} /\ call.seen = {fs}) =>
            call.code \notin {"invalid_config", "plain"}
============================================================================
