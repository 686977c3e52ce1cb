----------------------------- MODULE SyncSystem -----------------------------
(***************************************************************************)
(* The synchronising half of the program: the mail server, the user at the *)
(* admin page, any number of synchronisation jobs, and the restart of the  *)
(* process, over the one local store.                                      *)
(***************************************************************************)
EXTENDS SyncService

CONSTANTS
  InitialSelections,    \* what the store may have as selected at the start
  Choices               \* the selections a user may save

ASSUME SelectionAssumption ==
  InitialSelections \subseteq SUBSET Folders /\ Choices \subseteq SUBSET Folders

VARIABLES
  choice,    \* the selection the user saved last
  chosen     \* every folder the user ever selected

userVars == <<choice, chosen>>
vars == <<serverVars, session, storeVars, jobVars, userVars, faults>>

TypeOK ==
  /\ ServerTypeOK
  /\ StoreTypeOK
  /\ JobTypeOK
  /\ choice \in SUBSET Folders /\ chosen \in SUBSET Folders
  /\ FaultsTypeOK

Init ==
  /\ ServerInit
  /\ StoreInit
  /\ selected \in InitialSelections
  /\ JobInit
  /\ choice = selected
  /\ chosen = selected
  /\ FaultsInit

\* save_selected_folders: the list the page sends replaces the selection.
SaveSelectedFolders ==
  /\ \E folders \in Choices :
       /\ SetSelectedFolders(folders)
       /\ choice' = folders
       /\ chosen' = chosen \cup folders
  /\ UNCHANGED <<serverVars, session, rowVars, status, jobVars, faults>>

\* The container stops and is started again: the jobs are gone, the database
\* is as the last committed transaction left it.
Crash ==
  /\ Fault("crash")
  /\ Discard(Jobs)
  /\ result' = Wiped(result, Jobs, "none")
  /\ UNCHANGED <<serverVars, storeVars, userVars>>

Next ==
  \/ ServerStep /\ UNCHANGED <<storeVars, jobVars, userVars, faults>>
  \/ SaveSelectedFolders
  \/ \E j \in Jobs : (RequestSync(j) \/ JobStep(j)) /\ UNCHANGED userVars
  \/ Crash

Spec == Init /\ [][Next]_vars

\* A thread that can take a step takes one: no call blocks for ever, since
\* socket.setdefaulttimeout bounds every exchange with the server and
\* sqlite3.connect's timeout every wait for the database.
JobsRun == \A j \in Jobs : WF_vars(JobStep(j) /\ UNCHANGED userVars)

FairSpec == Spec /\ JobsRun

\* The user keeps asking for a synchronisation.
AskAgain(j) == RequestSync(j) /\ UNCHANGED userVars
PersistentUserSpec == FairSpec /\ \A j \in Jobs : WF_vars(AskAgain(j))

-----------------------------------------------------------------------------
(***************************************************************************)
(* Safety                                                                  *)
(***************************************************************************)

\* A row holds content of the very mailbox its key names: a connection that is
\* lost, made again, or refused half-way never serves a message of the folder
\* synchronised before.  (sync_service.py:217-240, imap_client.py:68-71)
RowsAreOfTheirFolder == \A k \in Stored : messages[k].origin.folder = k[1]

\* A row whose content is not of the life of the mailbox its key names holds
\* content of a later life, so that the key is one the next synchronisation of
\* the folder hides: what sync_service.py:191 lets through, cache.py:194-210
\* can heal.
MisfiledRowsAreOutdated ==
  \A k \in Stored : messages[k].origin.epoch # k[2] =>
    k[2] < messages[k].origin.epoch /\ k[2] < epoch[k[1]]

\* While no two jobs are in one folder at the same time, a folder never shows
\* messages filed under two UIDVALIDITY values at once, whatever fails and
\* whenever the process stops.
\* (sync_service.py:158 before 186)
OneVisibleEpoch ==
  \A k, l \in Visible : k[1] = l[1] => k[2] = l[2]

\* "completed" is never reported for a run that lost anything: every selected
\* folder was searched and each message the searches returned is stored.
\* (sync_service.py:103-142)
CompletedMeansStored ==
  \A j \in Jobs : pc[j] = "finish" /\ ~errors[j] =>
    /\ scanned[j] = snapshot[j]
    /\ listed[j] \subseteq Stored

\* While no two jobs are in one folder at the same time, "completed" means more:
\* each message the searches returned is shown with its own content, unless its
\* mailbox has been replaced since.  (sync_service.py:157-204, cache.py:194-225)
CompletedMeansShown ==
  \A j \in Jobs : pc[j] = "finish" /\ ~errors[j] =>
    \A k \in listed[j] : k[2] = epoch[k[1]] =>
      k \in Visible /\ messages[k].origin = [folder |-> k[1], epoch |-> k[2]]

\* The byte budget of a run holds, up to the one message that crosses it, as
\* long as no transaction fails in the middle of a folder.
\* (sync_service.py:126 and 180)
BudgetHolds ==
  \A j \in Jobs : \E last \in {0} \cup {MessageBytes[u] : u \in Uids} :
    spent[j] < MaxRunBytes + last

\* Only folders the user has selected at some time are ever selected, and only
\* messages of such folders are ever stored.  (cache.py:130-145, 380-421)
ExposureWithinChosen ==
  /\ selected \subseteq chosen
  /\ \A k \in Stored : k[1] \in chosen

\* When no job runs, the status the page polls does not say one does.
\* (sync_service.py:130-142, admin.py:135-144)
StatusSettled ==
  (\A j \in Jobs : ~Running(j)) => status # "running"

-----------------------------------------------------------------------------
(***************************************************************************)
(* Steps                                                                   *)
(***************************************************************************)

\* A message the user can see is not replaced by another content: what is
\* stored under a reference stays what it was.  It holds while no two jobs
\* are in one folder at the same time, since missing_uids leaves out what is
\* stored.
\* (cache.py:212-225, 227-305)
ShownMessagesDoNotChange ==
  [][\A k \in Visible : messages'[k].origin = messages[k].origin]_vars

\* What is visible of a folder is the mailbox as it is, but for what has been
\* expunged since.
Mirrored(f) ==
  /\ KeysOf(f, epoch[f], mailbox[f]) \subseteq Visible
  /\ \A k \in Visible : k[1] = f =>
       k[2] = epoch[f] /\ messages[k].origin = [folder |-> f, epoch |-> epoch[f]]

\* No job works on the folder for a life of the mailbox that is over.
UpToDate(f) == \A j \in Jobs : pc[j] \in FolderSteps /\ cur[j] = f => uv[j] = epoch[f]

\* A folder that mirrors its mailbox goes on doing so until the mailbox gains
\* mail or is replaced: no number of overlapping jobs and failures spoils it.
\* (sync_service.py:158, 186, cache.py:194-305)
StaysMirrored ==
  [][\A f \in Folders :
       /\ Mirrored(f) /\ UpToDate(f)
       /\ epoch'[f] = epoch[f] /\ mailbox'[f] \subseteq mailbox[f]
       => Mirrored(f)' /\ UpToDate(f)']_vars

\* How far a job is from its answer: the stages of the run left, the folders
\* ahead, the stages of the folder, its messages, and the attempts.
RunStage(step) ==
  CASE step = "select"   -> 6
    [] step = "announce" -> 5
    [] step = "connect"  -> 4
    [] step \in FolderSteps \cup {"search", "close"} -> 3
    [] step \in {"empty", "finish"} -> 2
    [] step = "report"   -> 1
    [] step = "none"     -> 0

FolderStage(step) ==
  CASE step = "search"  -> 4
    [] step = "mark"    -> 3
    [] step = "missing" -> 2
    [] step \in FolderSteps \ {"mark", "missing"} -> 1
    [] OTHER -> 0

MessageStage(j) ==
  CASE pc[j] = "progress"  -> 2 * Attempts + 1
    [] pc[j] = "fetch"     -> 2 * Attempts
    [] pc[j] = "try"       -> 2 * (Attempts - tries[j]) + 1
    [] pc[j] = "reconnect" -> 2 * (Attempts - tries[j])
    [] OTHER -> 0

Distance(j) ==
  <<RunStage(pc[j]), Cardinality(todo[j]), FolderStage(pc[j]), Cardinality(uids[j]),
    MessageStage(j)>>

Precedes(s, t) ==
  \E i \in 1..5 : s[i] < t[i] /\ \A h \in 1..(i - 1) : s[h] = t[h]

\* Whatever fails, a call brings its run nearer to the answer: there is no way
\* round that leads back to where the run has been.
\* (sync_service.py:73-121, 174-240)
WorkRunsOut ==
  [][\A j \in Jobs : Running(j) =>
       IF pc'[j] = pc[j] THEN Distance(j)' = Distance(j)
       ELSE Precedes(Distance(j)', Distance(j))]_vars

-----------------------------------------------------------------------------
(***************************************************************************)
(* What the code or its documents say, and the code does not do            *)
(***************************************************************************)

\* "UIDVALIDITY mismatch after reconnect during sync" (sync_service.py:239):
\* what is shown under a UIDVALIDITY is content of that life of the mailbox.
ShownUnderOwnEpoch == \A k \in Visible : messages[k].origin.epoch = k[2]

\* "strict exposure through folders selected in the local sync UI"
\* (README.md:9): a folder is selected only if the last selection saved has it.
SelectionIsTheUsers == selected \subseteq choice

-----------------------------------------------------------------------------
(***************************************************************************)
(* Refinement                                                              *)
(***************************************************************************)

\* A message is held once its row and its attachments' rows are there.
Held == {k \in Stored : messages[k].origin \in attachments[k]}

Promise == INSTANCE SyncPromise WITH
  Keys <- RowKeys,
  Answers <- Results,
  held <- Held,
  owed <- listed,
  answer <- [j \in Jobs |-> IF Running(j) THEN "busy" ELSE result[j]]

\* The jobs, however they interleave and fail, do what SyncPromise says.
KeepsPromise == Promise!PromiseSpec

Phase(j) ==
  CASE pc[j] = "none"   -> "none"
    [] pc[j] = "select" -> "asked"
    [] pc[j] = "report" -> "failing"
    [] OTHER            -> "running"

Face == INSTANCE SyncFace WITH
  phase <- [j \in Jobs |-> Phase(j)],
  picked <- [j \in Jobs |-> IF pc[j] = "report" THEN {} ELSE snapshot[j]]

\* To the page, which builds on SyncFace, a job reads the selection once, later
\* only adds to it what it has read, one folder at a time, and then is answered.
KeepsFace == Face!FaceSpec

-----------------------------------------------------------------------------
(***************************************************************************)
(* Liveness                                                                *)
(***************************************************************************)

\* Every request is answered, whatever keeps failing.
SyncTerminates == \A j \in Jobs : Running(j) ~> ~Running(j)

\* If the server's mailboxes come to rest, the faults stop and the user keeps
\* asking, the store in the end shows every message of every selected folder,
\* and nothing else under it but messages since expunged: no wrong row stays.
Converges == <>[](\A f \in selected : Mirrored(f))
=============================================================================
