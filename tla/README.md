# CaseMail IMAP: a TLA+ model

CaseMail copies the mail of selected IMAP folders into a local SQLite store and
answers the questions of an assistant from that store alone. This directory
models four parts of it: what fills the store (`sync_service.py`, the methods of
`cache.py` and `imap_client.py` it calls, the handlers of `admin.py` that start
it); what reads it while it is filled (the tools of `service.py`, the thread
reconstruction of `threading_utils.py`); the settings, with everything that
writes `.env` and everything that takes them over; and the folder list and the
sync button of the admin page. TLC checks the model on small instances; TLAPS
proves its safety properties for every value of the constants.

File names below are those of `src/src/casemail_imap_mcp/` unless they say
otherwise.

## Inventory

| Component | State it keeps | Operations | Its correctness |
|---|---|---|---|
| Synchronisation, `sync_service.py` | the locals of a running request: folders ahead, bytes, errors, the UIDs still missing, the message and attempt in hand | `sync_selected_folders`, `_sync_folder`, `_fetch_message_with_reconnect`, `_publish_folder_progress` | every request ends; "completed" means nothing was lost; the budget bounds a run; what a failing folder leaves behind puts no wrong message in another |
| Local store, `cache.py` | `synced_folders`, `synced_messages`, `synced_attachments`, `sync_state` | one SQLite transaction per method, each on a connection of its own | a row is of the folder and the UIDVALIDITY its key names; only selected folders are shown; nothing shown changes |
| IMAP client, `imap_client.py` | one connection per request and which mailbox it has open | `_connect`, `reconnect_folder`, `search_uids`, `fetch_message`, `list_folders` | a fetch reads the mailbox it means to |
| Admin API, `admin.py` | `.env` and the reloaded settings | `sync_selected`, `save_selected_folders`, `list_remote_folders`, `post_config`, read-only routes | the user's selection is what is synchronised; what was saved is in force; every failure is reported |
| Admin page, the script in `admin.py` | the last list of folders, the boxes, a timer, the handler of the sync button | load, filter and tick folders; save the selection; synchronise and poll | nothing is selected that was not ticked; a run has the ticks of its click; the button comes back |
| Cache-only tools, `service.py` | none; reads the store | `search_messages`, `read_message`, `get_thread`, `find_related_sent`, `read_attachment`, `case_timeline` | an answer has only visible messages of selected folders |
| Thread linkage, `threading_utils.py` | none | `classify_linkage`, `build_thread` | a thread has what its seed's headers lead to, and nothing unrelated |
| References and access, `security.py` | none | signed `message_ref`, folder regexes | a reference names one message of one account |
| Settings, `config.py` | the file `.env` | `Settings()`: read, default, validate | a file that cannot be read can be mended from the page |
| Server, `server.py`, `main.py` | the settings in force and the store of the tools | `create_app`, `reload_settings`, tool registration | settings and store are of one account |
| Tokens, `auth.py` | none of its own; the token in force, the browser's cookie | a comparison before each request | the token of the file opens the page |
| Parsing, `parsing.py`; attachment text, `attachments.py`; `models.py`; `logging_utils.py` | none | pure functions | - |
| Windows launcher, `src/tools/CaseMailLauncher.cs` | two child processes | make sure `.env` has a token, start the server if none runs, start a tunnel | a token it adds shuts nobody out who uses the one in the file; the address shown is that of the live tunnel |

**How they interact.** A request to the admin API runs
`sync_selected_folders` in a thread of the pool (`run_in_threadpool`). Nothing
excludes a second request while one runs. Each request has one IMAP connection,
shared by its folders one after the other, and talks to the store in many
small transactions. The user can save another selection at any time, the tools
read the store at any time, and the container restarts whenever it stops
(`restart: unless-stopped`). The mail server is used by others: mail arrives, is
expunged, and a mailbox may be deleted and created again, which gives it a new
UIDVALIDITY and makes its UIDs start again.

The admin handlers build `Settings()` from `.env` at each call and give them to
the synchronisation they start; the tools and the token check have the settings
in force, which only a start and `post_config` replace. `.env` has three
writers, the page, the user's editor and the launcher, and nothing orders them.
The page's script waits for each of its own calls, but the user can click
meanwhile, and a call the browser gives up may still be carried out.

**What is hard.** (`hazards` of `PROJECT.json` has each with its line.)

* The UIDVALIDITY of the search is assumed for all later fetches, while the
  mailbox, or the connection, may be another by then.
* One connection is shared by all folders: what a failing folder does to it is
  what the next one starts from.
* A selection is read when the run starts and written when a folder ends.
* Two requests synchronise the same folder at the same time.
* Three places keep the errors and two the bytes; each exception path resets
  some of them.
* Retries are bounded by a counter and by a guess, from the text of an error,
  at what is transient.
* The process may stop between any two transactions.
* `.env` is written before it is validated, emptied before it is filled, and read
  and written back around what others add to it.
* The account may change while a synchronisation of the old one runs.
* The page saves the selection and starts the synchronisation by two requests,
  and shows flags of a selection that may have been replaced.

## Modules

| Module | Models |
|---|---|
| `Mail` | the vocabulary: folders, UIDs, UIDVALIDITY values, the primary key of a message, the faults that may happen |
| `ImapSession` | the IMAP server (external) and the connection of each job; the outcomes of each call of `imap_client.py` |
| `SyncStore` | `PlainSyncStore`: the tables and one operator per transaction |
| `SyncService` | the synchronisation, one action per call it makes, and the handler `sync_selected` around it |
| `SyncSystem` | the composition: server, user, jobs, restart; the properties |
| `SyncPromise` | the abstract specification: what a synchronisation promises |
| `CachedReads` | `CaseMailService`: the tools, one action per transaction, composed with the whole of `SyncSystem` |
| `ThreadLinkage` | `build_thread`: one pass over the candidates; on its own, since its input is one query's answer |
| `EnvConfig` | `.env` and the settings: `post_config` call by call, `create_app`, `reload_settings`, the token check, the launcher, the editor; on its own, with synchronisations reduced to the settings they hold |
| `SyncFace` | an abstract specification: a synchronisation as the admin page meets it |
| `AdminPage` | the page's script and the handlers behind its folder list, over `SyncFace` |
| `MCSync`, `MCReads`, `MCThread`, `MCConfig`, `MCPage` | values of the constants for TLC |
| `SyncTypeProofs`, `SyncRowProofs`, `SyncAnswerProofs`, `SyncPromiseProofs`, `ReadsProofs`, `ThreadProofs`, `ConfigProofs`, `PageProofs` | theorems and their proofs |

`Mail` <- `ImapSession` <- `SyncStore` <- `SyncService` <- `SyncSystem` <-
`CachedReads` by EXTENDS, `SyncFace` <- `AdminPage` likewise; each MC module
extends the module it is named for. `SyncSystem` instantiates `SyncPromise` and
`SyncFace`, each with a refinement mapping, so that what `AdminPage` takes a
synchronisation to be is what `SyncSystem` does: a request that is asked, reads
the selection, selects again each folder it ends, may fail, and is answered.

### State

* Server: `epoch` (UIDVALIDITY), `mailbox`, `uidnext` per folder; `changes`
  counts its steps.
* `session[j]`: the connection of job `j`. "closed" is `_imap is None`; "dead" a
  socket that failed, on which every command aborts; "nonauth", "auth" and
  "selected" are the states of imaplib, in which EXAMINE or FETCH may be illegal.
  A selected connection remembers the life of the mailbox it opened.
* Store: `messages` maps the primary key (folder, uidvalidity, uid) to no row or
  to the `stale` flag and the *origin* of the content, the mailbox and life of it
  the server really read the message from. `attachments` has the origins of a
  message's attachment rows. `selected`; `status`, the state in the one
  `sync_status` entry.
* Job: `pc`, the next call; the locals of the three nested functions; and, only
  for the properties, `snapshot`, `scanned`, `listed`, `spent`.
* `choice`, `chosen`: the selection the user saved last, and all ever saved.
* Tool: `tool` and `at`, its next transaction; `asked` and `ref`, its arguments;
  `case` and `targets`, the folders it has resolved; `found`, the messages of
  its answer, and for one read in detail the origins `row` and `files` of its
  row and its attachments' rows.
* Settings: `env`, the file; `live` and `storeOf`, the settings in force and the
  account of the tools' store; `step` and `values`, the save in progress and what
  it will write; `cookie`; `launcher` and `seen`, the launcher's next call and
  the token it has read; `job[j]`, the settings a synchronisation holds; `rows`,
  the messages stored, each with the account it was read from, the account it is
  filed under and the secret its reference was signed with. Two history variables
  for the properties: `kept`, neither a torn write nor a user has taken a secret
  out of the file (a save of the page never clears it, whatever secret it writes);
  `edited`, a user has edited the file since the settings in force were read, or
  since a launcher read the file it has not yet added to.
* Page: `flagged`, `shown`, `ticked`; `listing` and `saves`, what is on its way;
  `at`, where the handler of the sync button is, and `call`, the request it
  awaits; `polling`. For the properties, `chosen`, all that was selected at the
  start or ticked since, and `claim`, the boxes of the click in progress.

### Steps

An action is one transaction of the store or one exchange with the server, with
the local work up to the next one; this is where other threads, the server and a
restart can get in between. A call that can fail has an action per kind of
failure next to the one where it succeeds (`Fetch`, `FetchFindsNothing`,
`FetchRefused`, `FetchLosesConnection`, `FetchNotPossible`), each leaving the
connection as that failure does. `pc` follows the code:

    none -> select -> announce -> empty -> (answer "idle")
                         |
                      connect -> search -> mark -> missing -> progress -> fetch
                                   ^                             ^          |
                                   |                             |   try <-> reconnect
                                   |                             |    |
                                   |                             +- save
                                   +--- close <- (folder ends or fails)
                                          |
                                        finish -> (answer)
    any call outside a folder that raises -> report -> (answer "failed")

EXAMINE and SEARCH of `search_uids` are one action: between them only the server
can act, and a mailbox that is replaced there is, to the client, one replaced
just before or just after both.

The tools follow `Script`, the transactions of each in the order the code makes
them: resolving the case folder and a reference reads the selection each time
anew, `resolve_sent_folders` once more, and only then are the messages read.
`search_messages` and `case_timeline` make the same transactions ("scan"). The
two SELECTs of `get_message_detail` are two actions, because outside of a
transaction each sees its own moment.

The tools are plain functions (`server.py:46-210`). FastMCP, a library, calls
such a function on the event loop; its own code is not in the repository, and
that it does so is an assumption of the model (`LoopIsFree`). While a tool runs,
then, no request is taken and no other tool starts, and the user cannot save a
selection; the threads of the jobs and the mail server go on (`Background`), and
the process may stop (`CrashInTool`). Were tools run in threads, the property
`AnswersAreOfSelected` would not hold: that is its mutant.

`ThreadLinkage` makes the loop of `build_thread` visible: a step looks at one
candidate, decides what links it and extends the known header keys. `mail` has
the headers of each message, `rest` and `scanned` what is ahead of the loop and
behind it. The order is that of `list_message_summaries`, the newest first: the
dates it sorts by are texts, but all in UTC (`normalize_datetime`).

A save of the settings is three steps, reading the file and merging (`PostConfig`),
`WriteEnv`, and building the settings and reloading (`LoadSaved`), with
`WriteRefused` (in the container the file is not the user's), `TornWrite` (a stop
between emptying and filling the file), `LoadInvalid` and `LoadStoreFails` beside
them. The handler awaits nothing after it has read the request, so no other
handler comes in between; threads and other processes do. A save that fails in
`LoadStoreFails` leaves the tools with new settings and an old store, as
`reload_settings` does.

`SecretFor` is `post_config`'s choice of a secret alone. The editor of `EditFile`
has its own: it fills in or changes the account; sets, changes or removes the
secret, or the token with `CASEMAIL_AUTH_REQUIRED`; spoils or mends other
settings. A secret or a token a generator makes is in the model any of `Generated`
that the file does not have, so it may even come back: more than the code can do. `Admitted` has
all three ways of the token check: no token in force and none required, none in
force but one required (503 for every request), and the comparison. The launcher
reads, appends (the token and that it is required) and starts a server if none
answers (`LauncherReads`, `EnsureAccessToken`, `StartServerIfNeeded`).

In `AdminPage` a call of the script is in flight until a handler takes it, and
calls may overtake each other. `listing` is read from the selection when
`list_remote_folders` starts, before the mail server is asked. The `finally` block
of the sync button runs whether its call was answered or lost.

### What is abstracted

* The data of a message is its origin; its size is `MessageBytes`. A message is
  taken to have at least one attachment row; where it has none there is less to
  go wrong.
* The order in which the UIDs are fetched is left open (the code uses the
  server's order); the order of folders is the code's.
* What a query's filters, dates, limits and the linkage of threads keep is any
  subset of the rows it returned. Two spellings of a folder's name are two
  folders with the same `FolderKey`; the regexes and the default sent folders are
  sets. A reference is the key it carries, of a message that has been stored; a
  forged one is refused as one of a folder that is not selected is.
* Counters, progress percentages, error texts and `last_error` are display only
  and left out. So are the columns of `synced_folders` other than `selected`.
* One account, except in `EnvConfig`. `_initialize_db`, which runs before the `try` of the handler, is
  taken to succeed; a request whose parameters are refused (incomplete
  credentials, a bad `since_months`) changes nothing and is no step.
* A SINCE search leaves some set of UIDs out of `Windows`.
* A stale row whose mailbox life comes back (the server returning to an old
  UIDVALIDITY) is excluded: RFC 3501 requires UIDVALIDITY to grow.
* In `EnvConfig` host, port, user and password are one value, the account. Of all
  other settings only whether they are valid matters: `port` stands for what the
  page's form can spoil (an empty port field), `rest` for what only an editor
  can. A regex that does not compile is not refused by `Settings()` and is not
  modelled. The launcher's append is one step. Variables of the process, which
  take precedence over `.env`, are left out, and so is an empty
  `MESSAGE_REF_SECRET=`, which `Settings()` refuses and a save replaces; `docker-compose.yml` makes them
  (`env_file`), for a container in which the file cannot be written anyway
  (`WriteRefused`).
* `EnvConfig` keeps no selection and no folders, `AdminPage` no accounts. Two
  saves with the same folders that are on their way at once are one.
* The status panel, which the polls write, is left out; the timer is in.

## What the runs check

| Run | Instance | Shows |
|---|---|---|
| `sync_faults` | 1 job, 1 folder, 2 UIDs, 3 lives, 3 server changes, every fault any number of times | `TypeOK`; `MisfiledRowsAreOutdated`; `OneVisibleEpoch`; `CompletedMeansShown`; `ShownMessagesDoNotChange`; `WorkRunsOut`; `SyncTerminates` |
| `sync_budget` | 1 job, 2 folders, 2 UIDs, 2 server changes, mail faults any number of times, a user who changes the selection, a SINCE window, budget 3 and messages of 1 and 2 bytes, one folder whose name makes "not found" look transient | `RowsAreOfTheirFolder`; `BudgetHolds`; `ExposureWithinChosen`; `CompletedMeansStored`; `KeepsFace` |
| `sync_converges` | 2 jobs, 1 folder, 2 UIDs, 2 lives, 1 server change, 1 lost connection, a user who keeps asking | `StatusSettled`; `StaysMirrored`; `KeepsPromise`; `Converges` |
| `reads` | all tools beside 1 job, 2 folders of which one is the sent folder, 1 UID, one fault of a lost connection, a restart or a locked database, a user who changes the selection | `AnswersAreOfTheMatter`; `AnswersAreOfSelected` |
| `reads_detail` | `read_message` beside 1 job, 1 folder, 2 UIDs, 3 lives, 2 server changes, lost connections any number of times | `DetailIsWhole` |
| `thread` | 3 messages, 2 header keys, a subject and a person a message may lack, 3 dates or none, every combination of these, the seed among the candidates or not | `ThreadIsOfTheConversation`; `PassFollowsHeaders`; `AncestorsAreLinked` |
| `config` | 2 accounts, 2 secrets, 2 tokens of which a generator makes one each, 1 synchronisation, 1 kind of stored message; at first a file that requires a token and has none, without a secret, with an account or without; one edit by hand, one restart or failing call | `TypeOK`; `RowsAreOfTheirAccount`; `ReferencesCanBeRead`; `SavedIsInForce`; `FileKeyOpens`; `PageCanRepair` |
| `page` | 2 folders, one of them a group, a filter that hides one, 2 requests, 2 saves on their way, calls lost and restarts any number of times | `PageTypeOK`; `ExposureIsTicked`; `RunTakesTheTicks`; `SyncClickEnds` |

`OneVisibleEpoch`, `CompletedMeansShown` and `ShownMessagesDoNotChange` are
properties of jobs that are not in one folder at the same time, and say so: two
that are may mark rows stale by an older UIDVALIDITY than the other stores, and
store one message twice. `StaysMirrored` and `Converges` are what holds of
overlapping jobs all the same: a folder that is right stays right, and disorder
does not last. `Converges` needs the server and the faults to come to rest, which the bounds
see to, and rows that no search returns any more (expunged mail) may stay: the
code never removes them.

`StatusSettled` is checked with the faults of the mail side. After a crash, after
a database that stays locked even for the handler, or after a `ValueError` out of
the connection, the status stays "running" until the next request; nothing in the
program or its documents says otherwise. `BudgetHolds` is checked without a
locked database: an exception in the middle of a folder replaces its result by one
with 0 bytes (`sync_service.py:97`); with that fault enabled the budget does not hold. The README
of the repository calls the limit a safeguard and says nothing of failures.

`WorkRunsOut` gives the reason for which a run ends: `Distance` has the stages of
the run ahead, its folders, the stages of the folder, its messages and the
attempts left, and every call lowers it in the lexicographic order. It is a
property of each step, so no fairness and no bound of the instance hides a loop
that merely takes long.

`DetailIsWhole` also is a property of jobs that are apart: attachment rows
are replaced one by one and never removed, so it rests on no row being stored
again under a reference with other content. In `reads_detail` a mailbox is
replaced during the job, so that contents do get misfiled.

`KeepsFace` justifies `AdminPage`: the synchronisation it has is implemented by
the detailed one.

`ReferencesCanBeRead` is about references signed with a secret of the file. It
would fail if a save made a new secret for a file that has one, or kept anything
but what it read (its mutant, in `post_config` alone), or if a job could sign with
a secret the tools do not have yet. It has two hypotheses. `kept`: a process
stopped between emptying and filling `.env` leaves no secret, the next save makes
a new one, and what was stored before is refused by its signature; the same after
a user takes the secret out. `~edited`: the admin handlers read the file at each
call and the tools do not, so that after an edit by hand a synchronisation signs
with the new secret and the tools refuse it until the server is restarted, as the
README asks (`src/README.md:183`). It leaves out what was signed with the default
`local-dev-message-ref-secret`, for a file that has an account but no secret
(`config.py:49` accepts it): the first save of the page makes a secret
(`admin.py:60`) and every reference stored before is refused. The model does
this, and nothing in the documents promises the contrary.

`FileKeyOpens` is about who is shut out: the token in the file must be the one
in force. The user may set, change or remove it by hand, and then has to restart
(`~edited`); the launcher and the page's saves may come in any order, and a
server that requires a token and has none shuts everybody out, as it should. It
does not say that a token is asked for. The model has two cases where none is, and
no property forbids them: a save that read the file before the launcher appended
to it writes it back without the token (`admin.py:34`, `261`), and a server that
runs without one goes on so after the launcher has put one into the file
(`CaseMailLauncher.cs:282`), until it is restarted. Nobody is shut out by either.

`PageCanRepair` is about a save that failed half way: the file it wrote is
refused by `Settings()` (`admin.py:63`), or the tools got the settings of one
account and kept the store of another (`server.py:226`). Saving the form again puts
both right, unless an edit by hand has meanwhile spoiled the file or changed the
token.

`RunTakesTheTicks` excepts saves of other clicks and ends of other requests' folders
that come before the request has read the selection: the page has no means against
them. A click with nothing ticked saves nothing, and its run has the selection of
the store. The page also drops ticks: typing in the filter makes all boxes anew
from the flags of the last list (`admin.py:541`, `574`), and a save while the
filter hides folders deselects those. `ExposureIsTicked` has the half of this that
would expose mail; nothing in the documents is against the other.

Four runs state what a document or a comment says and find it violated
(`findings` of `PROJECT.json`):

| Run | Says | The code |
|---|---|---|
| `says_epoch` | a UIDVALIDITY mismatch stops what it concerns | it fails one message; the next UID is fetched from the new mailbox and filed under the old UIDVALIDITY (`sync_service.py:191`) |
| `says_selection` | only folders selected in the UI are exposed | the end of a folder's synchronisation selects it again (`cache.py:400`) |
| `says_related` | `find_related_sent` searches sent folders | without a selected sent folder it searches all selected ones (`cache.py:308`) |
| `says_json` | the admin API always answers in JSON | a form with an empty port is written to `.env`, `Settings()` raises, and no handler catches it (`admin.py:63`) |

### Bounds

Two UIDs let one message be stored and the next one fail, be expunged or be
fetched from another mailbox. Three lives let a message be misfiled under the
first from the second, and be hidden by the third. Three server changes are
enough to deliver, expunge or recreate before, during and after a run. A fault in
`Recurring` has no bound; `MaxFaults` bounds only those of `sync_converges`,
where the faults must stop, of `reads`, where one fault of any kind ends the tool
or the folder it meets, and of `config`, where it
counts restarts and calls that fail. `Attempts` = 2 is the default `IMAP_RETRY_COUNT` of 1. Two folders suffice
for what one leaves behind for the next. The number of requests has no bound in
any run. Three messages are the shortest chain in a thread with a middle: a seed,
what it leads to, and what only that leads to; with day limits 0 and 1 the three
dates fall on both sides of each.

In `config` two accounts, secrets and tokens tell the old from the new; of the
secrets and tokens a generator makes one, and the user may write either. `MaxRows`
is one kind of stored message, its account and its secret: each property is about
one row at a time, and which one is stored is open, so a second adds no case.
`MaxEdits` is one edit by hand, at any step of a save, of a job or of a launch. The
file requires a token at first, so that nothing happens before the launcher adds
one, or the user gives one or asks for none; a secret comes from the edit or from a
save. No symmetry is used, which would not be sound for liveness. The theorems
are for any bounds.
In `page` one
folder is selected but cannot be ticked, one can be ticked and is hidden by the
filter or not, and two saves on their way (`MaxInFlight`) can change places; two
requests let one that a lost call left behind overlap with the next.

### Fairness

`JobsRun` is weak fairness of each job's steps: no call blocks for ever, because
`socket.setdefaulttimeout` (`imap_client.py:53`) bounds every exchange with the
server and `sqlite3.connect` waits a bounded time for the database. The scheduler
of threads is taken to be fair to each of them. Nothing is assumed of the server,
the user or the faults, so `SyncTerminates` holds however often calls fail.
`PersistentUserSpec`, used for `Converges` only, adds a user who asks again
whenever a job has ended; it is an assumption on the user, not on the code.

`EnvConfig!FairSpec` has a save go on (the event loop ends a handler it has begun)
and a user who, as long as the page can be opened, opens it with the token of the
file and saves the form filled in right: `PageCanRepair` says that this is enough,
not that users do it. A restart, which would also repair, is not assumed. `AdminPage!FairSpec` has the server take the calls that
reach it, every request end, which `SyncTerminates` shows of `SyncSystem`, and the
browser report a call that can have no answer any more, as `fetch` does.
Deadlock is not checked in `config`, where a server that stopped over an invalid file,
with no edits left, stays down, and in `thread`, where a thread that is built is the
end.

### Mutants

Names with an underscore (`StaleRows_None`, `NextAttempt_NotCounted`, ...) are
plausible wrong versions of the definition that follows them. With one put in
its place the run finds the property it is paired with violated, so that no
property holds merely by the shape of the model.

## What is proved

Unless a theorem names a hypothesis, it is for any finite or infinite sets of
folders and jobs, any bounds, any faults, any budget and any number of attempts,
under the assumptions that the modules state beside their constants (numbers are
numbers, `NoFolder` is no folder, at least two attempts, ...).

| Theorem | Says | Inductive invariant |
|---|---|---|
| `SyncTypeProofs!TypeCorrectness`, `TypeOKHolds` | `Spec => []TypeOK` | `TypeInv`: `TypeOK` and `Placed`, which ties `pc` to the locals: inside a folder `cur` is that folder, between messages `uid` is 0 |
| `SyncRowProofs!RowsKeepTheirFolder` | `Spec => []RowsAreOfTheirFolder` | `RowInv`: at each place where a fetch can happen the connection, if a mailbox is open, has the current folder's open; so what was fetched is of it, and so is what is stored |
| `SyncRowProofs!MisfiledRowsCanHeal` | `Spec => []MisfiledRowsAreOutdated` | `RowInv`: UIDVALIDITY values only grow, the one searched is not above the one of the connection, nor that above the server's |
| `SyncAnswerProofs!ExposureHolds` | `Spec => []ExposureWithinChosen` | `ChosenInv`: what a job has read of the selection, has ahead and is at was chosen at some time |
| `SyncAnswerProofs!CompletedIsHonest` | `Spec => []CompletedMeansStored` | `VerdictInv`: each UID a search returned is stored, still to be fetched, or accounted for by an error |
| `ReadsProofs!TheMatterIsKept` | `ReadsSpec => []AnswersAreOfTheMatter` | `ReaderInv`: what a tool has resolved so far is selected and of the matter, and `targets` is empty only for `find_related_sent` |
| `ReadsProofs!TheSelectionIsKept` | `ReadsSpec => AnswersAreOfSelected` | `ReaderInv`, kept by a job's steps because they only add to the selection |
| `ThreadProofs!ThreadsAreSound`, `HeadersAreFollowed`, `AncestorsAreNotLost` | `Spec => []ThreadIsOfTheConversation`, `[]PassFollowsHeaders`, `[]AncestorsAreLinked` | `LinkInv`: the known keys are those of the seed and of what is linked, each candidate is looked at once, and none after one that is older |
| `SyncPromiseProofs!SyncKeepsPromise` | `Spec => Promise!PromiseSpec` | `HeldInv`: a stored row has its own content's attachment rows, so that rows are held from one transaction on; with `VerdictInv` for the answer |
| `SyncPromiseProofs!SyncKeepsFace` | `Spec => Face!FaceSpec` | `PickedInv`: a job ends only folders of the selection it read |
| `SyncRowProofs!OneEpochIsVisible`, `ShownMessagesStay` | `Spec /\ []Apart => []OneVisibleEpoch`, `Spec /\ []Apart => ShownMessagesDoNotChange` | `OwnInv`: from the marking of a folder to its end, what is visible of it has the UIDVALIDITY searched, and what is still to be fetched is not visible |
| `SyncAnswerProofs!CompletedShowsAll` | `Spec /\ []Apart => []CompletedMeansShown` | `ShownInv`: a key a search returned of the present life of its mailbox is visible, still to be fetched, or accounted for; no marking hides it, since no job searched a later life |
| `SyncRowProofs!MirrorsStay` | `Spec => StaysMirrored` | `RowInv`, for any number of overlapping jobs: what is saved lies between the life searched and the server's, so where these are one it is right |
| `SyncPromiseProofs!EachCallIsNearer`, `RunsAreFinite` | for finitely many folders, `Spec => WorkRunsOut`; `Distance` is five natural numbers and has no infinite descent | `WorkInv`: the folder and the message in hand are still counted among those ahead, so that ending one makes them fewer |
| `SyncPromiseProofs!LoopHasAFolder` | `Spec => []` a job at its loop has a next folder | a job at the loop has folders ahead, and `Rank` orders them |
| `ReadsProofs!DetailsAreWhole` | `ReadsSpec /\ []Apart => []DetailIsWhole` | `FinalInv`: a stale row has a UIDVALIDITY below the server's and the search's, so nothing stored is stored again, and its attachments are its own |
| `ReadsProofs!AnswersAreOfChosen` | what a tool answers is of folders chosen at some time | `ReaderInv` and `ChosenInv` together |
| `ReadsProofs!StoreIsKept`, `ReadsKeepPromise`, `ReadsAreTyped` | `ReadsSpec => []` of `TypeOK`, `RowsAreOfTheirFolder`, `MisfiledRowsAreOutdated`, `CompletedMeansStored`, `ExposureWithinChosen`; `ReadsSpec => KeepsPromise`; `ReadsSpec => []ReaderTypeOK` | `StoreInv`, the invariants of `SyncSystem` together: a tool takes no step of the store's, it can only meet a fault |
| `SyncAnswerProofs!StatusIsSettled` | for faults of the mail side, `Spec => []StatusSettled` | none beyond `TypeInv`: the last transaction of every way a run can end writes a final status |
| `SyncAnswerProofs!BudgetIsKept` | without a locked database, `Spec => []BudgetHolds` | what was spent is the sum of the two counters the code compares |
| `ConfigProofs!ConfigTypes`, `AccountsAreKeptApart`, `ReferencesStayValid`, `SavedSettingsApply`, `TheFileHasTheKey` | `Spec => []` of `TypeOK`, `RowsAreOfTheirAccount`, `ReferencesCanBeRead`, `SavedIsInForce`, `FileKeyOpens` | one each: `AccountInv`; `SecretInv`, the only secret anything was signed with, or the tools have, is the one of the file, a save in progress writes that one or finds none in use, and the tools have it before a job can sign with it; `AnswerInv`; `TokenInv`, unless the user has edited, what a save is about to write has the token that is in force, and a launcher about to add one has seen what the file has |
| `PageProofs!PageTypes`, `PageExposesWhatIsTicked`, `SyncTakesTheTicks` | `Spec => []` of `PageTypeOK`, `ExposureIsTicked`, `RunTakesTheTicks` | `ExposureInv`, what a request picked was ticked; `ClickInv`, from the save of a click to the reading of the selection nothing else has changed it while `claim` stands |

`TypeOK` alone is not inductive: that `cur` is a folder when a row is stored
follows from where the job is, which is what `Placed` adds. The invariants are
layered: each later one is shown to be preserved from itself and `TypeInv`.

Some hold under a hypothesis that the theorem names. `Apart`: no two jobs are in
one folder at the same time. Nothing in the code sees to that (the button of the
page does for one page, until its call is lost), so it is a hypothesis and not an
assumption; any number of jobs in different folders satisfies it, and so do
requests that do not overlap (`NoOverlapIsApart`). `OnlyMailFails`: no crash,
locked database or credential fault. No locked database. Finitely many folders.

Only model-checked are the liveness properties (`SyncTerminates`, `Converges`,
`PageCanRepair`, `SyncClickEnds`): fairness and ENABLED are out of the prover's
reach. Of two of them the safety half is proved. `SyncTerminates` says that every
request is answered; that a run cannot go on for ever is `EachCallIsNearer` with
`RunsAreFinite`, and that it is not stuck in its loop over the folders, the one
guard of a job that data could leave unmet, is `LoopHasAFolder`. What
is left to TLC is that a job elsewhere has a step it can take, and fairness.
`Converges` says that folders come to mirror their mailboxes; that they then stay
so is `MirrorsStay`. Every invariant and action property of the passing runs is
proved.

## Not modelled

`list_folders` of the tools, which displays the selection with its counts; the
linkage of `find_related_sent`, which compares each pair of messages by itself;
where in a request a token is looked for; and parsing, attachment text,
signatures, log redaction and record types, which are pure functions of one
message or one request, keep no state, and in which nothing happens out of order.

The launcher's tunnel (`CaseMailLauncher.cs:310-393`) only concerns an address
that is printed: a late line of a tunnel that was killed can become the address of
the next attempt until that one prints its own. The polls of the page
(`admin.py:514-523`) only write a panel: one that is answered late overwrites the
final status.

`get_attachment` does not ask whether its message is stale (`cache.py:355`):
`ReadAttachment` has it so, and no property is about it, since nothing in the
code or its documents says what should be. Nor do they say which messages a
thread longer than `depth` keeps (`threading_utils.py:97`, `Show`): it keeps the
oldest, and the seed may not be one of them. In a thread, the keys of a message
linked by subject, people or date count as known from then on
(`threading_utils.py:77`), so that "headers" as a basis does not always mean a
chain of headers back to the seed; `PassFollowsHeaders` has it as the code does.

## Plan

Done: all modules, runs and theorems above. What could follow: a change of
account in `CachedReads`, where the folders saved for one account are those the
page listed for another; process variables over `.env` in `EnvConfig`; and the
tunnel of the launcher, if its address is ever used by another part.
