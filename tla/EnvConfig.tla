----------------------------- MODULE EnvConfig ------------------------------
(***************************************************************************)
(* The settings of the program and the file .env they come from: read at   *)
(* the start (config.py), rewritten by the admin page (admin.py) and taken *)
(* over by the tools (server.py), while the user edits the file, the       *)
(* Windows launcher appends an access token to it, and synchronisations go *)
(* on with the settings they began with.                                   *)
(*                                                                         *)
(* The admin handlers build Settings() anew at each call; the tools and    *)
(* the token check use the settings in force.  A handler of the admin API  *)
(* runs on the event loop and awaits nothing between its reading of the    *)
(* request and its answer, so that no other handler runs in between; the   *)
(* threads of the jobs, the user's editor and the launcher do.             *)
(***************************************************************************)
EXTENDS Naturals, FiniteSets

CONSTANTS
  Jobs,
  Accounts,          \* user, host, port and password
  NoAccount,         \* credentials that are incomplete
  Secrets,           \* values of MESSAGE_REF_SECRET
  Tokens,            \* values of CASEMAIL_ACCESS_TOKEN
  NoValue,           \* a key that .env lacks
  DefaultSecret,     \* "local-dev-message-ref-secret"
  InitialEnvs,       \* the files the program may be started with
  Generated,         \* the secrets and tokens a generator may make
  MaxRows,           \* bound on the kinds of messages stored
  MaxEdits,          \* bound on the edits by hand
  MaxFaults          \* bound on restarts and failing calls

ASSUME ConfigAssumption ==
  /\ NoAccount \notin Accounts
  /\ NoValue \notin Secrets \cup Tokens
  /\ DefaultSecret \notin Secrets \cup {NoValue}
  /\ Generated \subseteq Secrets \cup Tokens
  /\ MaxRows \in Nat /\ MaxEdits \in Nat /\ MaxFaults \in Nat

\* .env as Settings reads it: required is CASEMAIL_AUTH_REQUIRED, port stands for
\* what the page's form may spoil, rest for what only an editor can.
Files ==
  [account : Accounts \cup {NoAccount},
   secret : Secrets \cup {NoValue},
   token : Tokens \cup {NoValue},
   required : BOOLEAN,
   port : {"good", "bad"},
   rest : {"good", "bad"}]

ASSUME EnvAssumption == InitialEnvs \subseteq Files

VARIABLES
  env,         \* the file .env
  up,          \* whether the server runs
  live,        \* the settings in force: service.settings, current_settings
  storeOf,     \* the account of service.store
  \* post_config
  step,        \* the call it makes next
  values,      \* the file it is about to write
  answer,      \* its last answer; forgotten when another writes the file
  \* the page and the launcher
  cookie,      \* the token the browser sends
  launcher,    \* the launcher's next call
  seen,        \* the token the launcher has read
  \* the synchronisations
  job,         \* the settings a job was started with, and its store
  rows,        \* the messages stored, each with its account and its reference
  \* history, and bounds
  kept,        \* no torn write and no user has taken a secret out of the file
  edited,      \* by hand, since the settings in force were read
  edits,
  faults

serverVars == <<up, live, storeOf>>
saveVars == <<step, values, answer>>
launcherVars == <<launcher, seen>>
jobVars == <<job, rows>>
boundVars == <<kept, edited, edits, faults>>
vars == <<env, serverVars, saveVars, cookie, launcherVars, jobVars, boundVars>>

Empty ==
  [account |-> NoAccount, secret |-> NoValue, token |-> NoValue, required |-> FALSE,
   port |-> "good", rest |-> "good"]

Settings ==
  [account : Accounts \cup {NoAccount},
   secret : Secrets \cup {DefaultSecret},
   token : Tokens \cup {NoValue},
   required : BOOLEAN]

\* A form is filled in; its port may be left empty.
Forms == [account : Accounts, port : {"good", "bad"}]

\* Settings(): a validator refuses the file, or it is read with its defaults.
Valid(e) == e.port = "good" /\ e.rest = "good"

Load_NoDefault(e) ==
  [account |-> e.account, secret |-> e.secret, token |-> e.token, required |-> e.required]
Load(e) ==
  [account |-> e.account,
   secret |-> IF e.secret = NoValue THEN DefaultSecret ELSE e.secret,
   token |-> e.token,
   required |-> e.required]

\* Whose mail a job reads, the account it writes under and the secret it signs
\* references with.
JobSettings_LiveStore(e) ==
  [from |-> Load(e).account, account |-> storeOf, secret |-> Load(e).secret]
JobSettings(e) ==
  [from |-> Load(e).account, account |-> Load(e).account, secret |-> Load(e).secret]

NoJob == [from |-> NoAccount, account |-> NoAccount, secret |-> DefaultSecret]

Working(j) == job[j] # NoJob

Rows ==
  [from : Accounts \cup {NoAccount}, account : Accounts \cup {NoAccount},
   secret : Secrets \cup {DefaultSecret}]

TypeOK ==
  /\ env \in Files
  /\ up \in BOOLEAN /\ live \in Settings /\ storeOf \in Accounts \cup {NoAccount}
  /\ step \in {"none", "write", "load"} /\ values \in Files
  /\ answer \in {"none", "ok", "server_error"}
  /\ cookie \in Tokens \cup {NoValue}
  /\ launcher \in {"none", "ensure", "start"} /\ seen \in Tokens \cup {NoValue}
  /\ job \in [Jobs -> Rows] /\ rows \subseteq Rows
  /\ kept \in BOOLEAN /\ edited \in BOOLEAN
  /\ edits \in 0 .. MaxEdits /\ faults \in 0 .. MaxFaults

Init ==
  /\ env \in InitialEnvs
  /\ up = FALSE /\ live = Load(Empty) /\ storeOf = NoAccount
  /\ step = "none" /\ values = Empty /\ answer = "none"
  /\ cookie = NoValue
  /\ launcher = "none" /\ seen = NoValue
  /\ job = [j \in Jobs |-> NoJob] /\ rows = {}
  /\ kept = TRUE /\ edited = FALSE /\ edits = 0 /\ faults = 0

Fails == faults < MaxFaults /\ faults' = faults + 1

\* secrets.token_urlsafe, GenerateToken: another value than the file's.  That it is
\* nobody else's either no property needs.
FreshSecret(s) == s \in Generated \ {env.secret}

FreshToken(t) == t \in Generated \ {env.token}

(***************************************************************************)
(* The server starts and stops.                                            *)
(***************************************************************************)

\* The settings in force are those of the file, and what was edited has been
\* taken over; by a launcher that read the file before, it has not.
TakeOver ==
  /\ live' = Load(env)
  /\ edited' = (edited /\ launcher = "ensure")

\* create_app: Settings() and the service, or no server.
CreateApp ==
  /\ up' = TRUE
  /\ TakeOver
  /\ storeOf' = Load(env).account

Start ==
  /\ ~up /\ Valid(env)
  /\ CreateApp
  /\ UNCHANGED <<env, saveVars, cookie, launcherVars, jobVars, kept, edits, faults>>

\* The settings in force, the handler and the jobs are gone.
Stopped ==
  /\ up' = FALSE /\ live' = Load(Empty) /\ storeOf' = NoAccount
  /\ step' = "none" /\ values' = Empty /\ answer' = "none"
  /\ job' = [j \in Jobs |-> NoJob]
  /\ UNCHANGED <<cookie, launcherVars, rows, edited, edits>>

Stop ==
  /\ up
  /\ Fails
  /\ Stopped
  /\ UNCHANGED <<env, kept>>

(***************************************************************************)
(* The token check in front of every request, and the page.                *)
(***************************************************************************)

\* AccessTokenMiddleware: with no token in force every request is let in, or none
\* where a token is required.
Admitted(token) == IF live.token = NoValue THEN ~live.required ELSE token = live.token

\* /admin?access_token=, as the launcher prints it from the file.
OpenPage ==
  /\ up /\ step = "none"
  /\ live.token # NoValue /\ Admitted(env.token)
  /\ cookie' = env.token
  /\ UNCHANGED <<env, serverVars, saveVars, launcherVars, jobVars, boundVars>>

Calls == up /\ step = "none" /\ Admitted(cookie)

(***************************************************************************)
(* post_config                                                             *)
(***************************************************************************)

MaySave_OnlyValid == Valid(env)
MaySave == TRUE

SecretFor_New(s) == FreshSecret(s)
SecretFor(s) == IF env.secret # NoValue THEN s = env.secret ELSE FreshSecret(s)

\* {**existing, **updates}: the keys the page does not send stay.
Merged_OnlyOwn(form, s) ==
  [Empty EXCEPT !.account = form.account, !.secret = s, !.port = form.port]
Merged(form, s) ==
  [env EXCEPT !.account = form.account, !.secret = s, !.port = form.port]

PostConfig(form) ==
  /\ Calls
  /\ MaySave
  /\ \E s \in Secrets : SecretFor(s) /\ values' = Merged(form, s)
  /\ step' = "write"
  /\ answer' = "none"
  /\ UNCHANGED <<env, serverVars, cookie, launcherVars, jobVars, boundVars>>

WriteEnv ==
  /\ step = "write"
  /\ env' = values
  /\ step' = "load"
  /\ UNCHANGED <<serverVars, values, answer, cookie, launcherVars, jobVars, boundVars>>

Answer(a) ==
  /\ answer' = a
  /\ step' = "none" /\ values' = Empty
  /\ UNCHANGED <<env, up, cookie, launcherVars, jobVars, kept, edits>>

\* The file cannot be written, as in the container, where it is not the user's.
WriteRefused ==
  /\ step = "write"
  /\ Fails
  /\ Answer("server_error")
  /\ UNCHANGED <<live, storeOf, edited>>

\* write_text empties the file before it fills it, and the process stops.
TornWrite ==
  /\ step = "write"
  /\ Fails
  /\ env' = Empty
  /\ kept' = (kept /\ env.secret = NoValue)
  /\ Stopped

\* What the tools are given: reload_settings.
Reload_SettingsOnly == TakeOver /\ UNCHANGED storeOf
Reload == TakeOver /\ storeOf' = Load(env).account

LoadSaved ==
  /\ step = "load" /\ Valid(env)
  /\ Reload
  /\ Answer("ok")
  /\ UNCHANGED faults

\* Settings() raises, when the file has been written.
LoadInvalid ==
  /\ step = "load" /\ ~Valid(env)
  /\ Answer("server_error")
  /\ UNCHANGED <<live, storeOf, edited, faults>>

\* The database cannot be opened: the tools have new settings and an old store.
LoadStoreFails ==
  /\ step = "load" /\ Valid(env)
  /\ Fails
  /\ TakeOver
  /\ Answer("server_error")
  /\ UNCHANGED storeOf

(***************************************************************************)
(* A synchronisation: its settings and its store are those of one reading  *)
(* of the file, for as long as it runs.                                    *)
(***************************************************************************)

SyncSelected(j) ==
  /\ Calls /\ Valid(env) /\ env.account # NoAccount /\ ~Working(j)
  /\ job' = [job EXCEPT ![j] = JobSettings(env)]
  /\ UNCHANGED <<env, serverVars, saveVars, cookie, launcherVars, rows, boundVars>>

StoreMessage(j) ==
  /\ Working(j)
  /\ rows' = rows \cup {job[j]}
  /\ Cardinality(rows') <= MaxRows
  /\ UNCHANGED <<env, serverVars, saveVars, cookie, launcherVars, job, boundVars>>

EndSync(j) ==
  /\ Working(j)
  /\ job' = [job EXCEPT ![j] = NoJob]
  /\ UNCHANGED <<env, serverVars, saveVars, cookie, launcherVars, rows, boundVars>>

(***************************************************************************)
(* The other writers of the file.                                          *)
(***************************************************************************)

\* A user with an editor fills in or changes the account and the secret, or takes
\* the secret out; sets, changes or removes the access token, required or not;
\* spoils a setting or mends it.
EditFile ==
  \/ \E a \in Accounts : env' = [env EXCEPT !.account = a]
  \/ \E s \in Secrets \cup {NoValue} : env' = [env EXCEPT !.secret = s]
  \/ \E t \in Tokens \cup {NoValue}, required \in BOOLEAN :
       env' = [env EXCEPT !.token = t, !.required = required]
  \/ env' = [env EXCEPT !.rest = "bad"]
  \/ env' = [env EXCEPT !.port = "good", !.rest = "good"]

EditByHand ==
  /\ edits < MaxEdits
  /\ edits' = edits + 1
  /\ EditFile /\ env' # env
  /\ kept' = (kept /\ env.secret \in {NoValue, env'.secret})
  /\ edited' = TRUE
  /\ answer' = "none"
  /\ UNCHANGED <<serverVars, step, values, cookie, launcherVars, jobVars, faults>>

LauncherReads ==
  /\ launcher = "none"
  /\ launcher' = "ensure"
  /\ seen' = env.token
  /\ UNCHANGED <<env, serverVars, saveVars, cookie, jobVars, boundVars>>

\* EnsureAccessToken: where it has read none, it appends a new one to the file,
\* and that it is required.
EnsureAccessToken ==
  /\ launcher = "ensure"
  /\ launcher' = "start" /\ seen' = NoValue
  /\ IF seen # NoValue
       THEN UNCHANGED <<env, answer>>
       ELSE \E t \in Tokens :
              /\ FreshToken(t)
              /\ env' = [env EXCEPT !.token = t, !.required = TRUE]
              /\ answer' = "none"
  /\ UNCHANGED <<serverVars, step, values, cookie, jobVars, boundVars>>

\* StartServerIfNeeded: a server that answers is left as it is.
StartServerIfNeeded ==
  /\ launcher = "start"
  /\ launcher' = "none"
  /\ IF ~up /\ Valid(env) THEN CreateApp ELSE UNCHANGED <<serverVars, edited>>
  /\ UNCHANGED <<env, saveVars, cookie, seen, jobVars, kept, edits, faults>>

-----------------------------------------------------------------------------
Save == WriteEnv \/ WriteRefused \/ TornWrite \/ LoadSaved \/ LoadInvalid \/ LoadStoreFails

Launch == LauncherReads \/ EnsureAccessToken \/ StartServerIfNeeded

Next ==
  \/ Start \/ Stop \/ OpenPage
  \/ \E form \in Forms : PostConfig(form)
  \/ Save
  \/ \E j \in Jobs : SyncSelected(j) \/ StoreMessage(j) \/ EndSync(j)
  \/ EditByHand
  \/ Launch

Spec == Init /\ [][Next]_vars

\* The event loop ends a handler it has begun, and the user of a page that does
\* not work opens it with the token of the file and saves the form filled in
\* right, again and again.
FairSpec ==
  /\ Spec
  /\ WF_vars(Save)
  /\ SF_vars(OpenPage)
  /\ SF_vars(\E form \in Forms : form.port = "good" /\ PostConfig(form))

-----------------------------------------------------------------------------
\* What is stored under an account was read from that account's mailboxes,
\* whatever is saved or edited while the job runs.
\* (admin.py:124-131, sync_service.py:293)
RowsAreOfTheirAccount == \A r \in rows : r.account = r.from

\* The tools accept every reference to a message of the account they serve that
\* was signed with a secret of the file, whatever was saved from the page in
\* between and however often the server was started, as long as no torn write
\* and no user took a secret out of the file, and a user who edited it has the
\* server read it again.  What was signed with the default, before the file had a
\* secret, they refuse from the first save on.  (admin.py:60, service.py:280)
ReferencesCanBeRead ==
  up /\ kept /\ ~edited => \A r \in rows :
    r.account = storeOf /\ r.secret # DefaultSecret => r.secret = live.secret

\* After "Config saved" the tools have the settings of the file, and the next
\* start has the same, until somebody else writes the file.
\* (admin.py:62-66, server.py:220-226)
SavedIsInForce == up /\ answer = "ok" => live = Load(env) /\ storeOf = live.account

\* The token in the file opens the page and the tools, also after the page's saves
\* and the launcher's additions, in any order, unless the user edited the file and
\* has not yet restarted the server, or asked for a token and gave none.
\* (admin.py:254, auth.py:31-40, README.md:183)
FileKeyOpens ==
  up /\ ~edited => Admitted(env.token) \/ (live.required /\ live.token = NoValue)

\* What a save has broken can be repaired from the page, with no editor and no
\* restart: a file that Settings refuses, which is written before it is checked,
\* and tools with the settings of one account and the store of another.
\* (admin.py:62-64, server.py:220-226)
Broken == ~Valid(env) \/ storeOf # live.account

PageCanRepair ==
  up /\ Broken ~> ~Broken \/ ~up \/ env.rest = "bad" \/ ~Admitted(env.token)

-----------------------------------------------------------------------------
(***************************************************************************)
(* What the code or its documents say, and the code does not do            *)
(***************************************************************************)

\* "Always return JSON from admin APIs so the local UI can display a safe
\* diagnostic instead of exposing a framework 500 page" (admin.py:136-137).
AdminAnswersAreJson == answer # "server_error"
=============================================================================
