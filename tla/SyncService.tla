---------------------------- MODULE SyncService -----------------------------
(***************************************************************************)
(* SyncService of sync_service.py, with the admin handler that starts it.  *)
(* A job is one call of sync_selected_folders in a thread of the pool.     *)
(* Its steps are the calls that touch shared state: each transaction of    *)
(* the store and each exchange with the IMAP server is one action, with    *)
(* the local work that follows it, and the failing outcomes of a call are  *)
(* actions beside the one where it succeeds.  Nothing excludes a second    *)
(* job while a first one runs.                                             *)
(***************************************************************************)
EXTENDS SyncStore

CONSTANTS
  Rank,             \* position of a folder in ORDER BY lower(folder)
  Windows,          \* sets of UIDs that a SINCE criterion may leave
  MessageBytes,     \* attachment bytes kept of the message with a UID
  MaxRunBytes,      \* MAX_TOTAL_SYNC_BYTES_PER_RUN
  Attempts,         \* IMAP_RETRY_COUNT + 1
  MisreadFolders    \* folder names with "eof", "ssl", "timeout"... in them

ASSUME SyncAssumption ==
  /\ Rank \in [Folders -> Nat]
  /\ Windows \subseteq SUBSET Uids
  /\ MessageBytes \in [Uids -> Nat]
  /\ MaxRunBytes \in Nat \ {0}
  /\ Attempts \in Nat \ {0, 1}
  /\ MisreadFolders \subseteq Folders

VARIABLES
  pc,            \* the next call of the job
  result,        \* what the request was answered with
  \* sync_selected_folders
  window,        \* since
  todo,          \* the folders of selected_folders still ahead
  total,         \* total_bytes
  errors,        \* whether the list of errors has an entry
  \* _sync_folder
  cur,           \* folder
  uv,            \* uidvalidity
  uids,          \* remote_uids, and then what is left of missing
  folderBytes,   \* result.bytes_downloaded
  folderErr,     \* whether result.errors has an entry
  \* one turn of the message loop
  uid,           \* the message being fetched; 0 between messages
  tries,         \* attempt
  fetched,       \* the origin of the message in hand
  \* history, for the properties
  snapshot,      \* selected_folders
  scanned,       \* the folders whose search succeeded
  listed,        \* the keys of all the messages the searches returned
  spent          \* the attachment bytes the job stored

runVars == <<window, todo, total, errors>>
folderVars == <<cur, uv, uids, folderBytes, folderErr>>
fetchVars == <<uid, tries, fetched>>
seenVars == <<snapshot, scanned, listed>>
storeVars == <<messages, attachments, selected, status>>
jobVars == <<pc, result, runVars, folderVars, fetchVars, seenVars, spent>>

FolderSteps == {"mark", "missing", "progress", "fetch", "try", "reconnect", "save"}

Steps == FolderSteps \cup
  {"none", "select", "announce", "empty", "connect", "search", "close", "finish", "report"}

Verdicts == {"completed", "completed_with_errors"}

Results == {"none", "idle", "bad_request", "failed", "unhandled"} \cup Verdicts

JobTypeOK ==
  /\ pc \in [Jobs -> Steps] /\ result \in [Jobs -> Results]
  /\ window \in [Jobs -> SUBSET Uids] /\ todo \in [Jobs -> SUBSET Folders]
  /\ total \in [Jobs -> Nat] /\ errors \in [Jobs -> BOOLEAN]
  /\ cur \in [Jobs -> Folders \cup {NoFolder}] /\ uv \in [Jobs -> UidValidities \cup {0}]
  /\ uids \in [Jobs -> SUBSET Uids]
  /\ folderBytes \in [Jobs -> Nat] /\ folderErr \in [Jobs -> BOOLEAN]
  /\ uid \in [Jobs -> Uids \cup {0}] /\ tries \in [Jobs -> 0 .. Attempts]
  /\ fetched \in [Jobs -> Origins \cup {NoRow}]
  /\ snapshot \in [Jobs -> SUBSET Folders] /\ scanned \in [Jobs -> SUBSET Folders]
  /\ listed \in [Jobs -> SUBSET RowKeys] /\ spent \in [Jobs -> Nat]

JobInit ==
  /\ pc = [j \in Jobs |-> "none"] /\ result = [j \in Jobs |-> "none"]
  /\ window = [j \in Jobs |-> {}] /\ todo = [j \in Jobs |-> {}]
  /\ total = [j \in Jobs |-> 0] /\ errors = [j \in Jobs |-> FALSE]
  /\ cur = [j \in Jobs |-> NoFolder] /\ uv = [j \in Jobs |-> 0]
  /\ uids = [j \in Jobs |-> {}]
  /\ folderBytes = [j \in Jobs |-> 0] /\ folderErr = [j \in Jobs |-> FALSE]
  /\ uid = [j \in Jobs |-> 0] /\ tries = [j \in Jobs |-> 0]
  /\ fetched = [j \in Jobs |-> NoRow]
  /\ snapshot = [j \in Jobs |-> {}] /\ scanned = [j \in Jobs |-> {}]
  /\ listed = [j \in Jobs |-> {}] /\ spent = [j \in Jobs |-> 0]

Running(j) == pc[j] # "none"

Goto(j, step) == pc' = [pc EXCEPT ![j] = step]

Wiped(local, gone, value) == [j \in Jobs |-> IF j \in gone THEN value ELSE local[j]]

\* The locals of the calls of these jobs are gone, and so is the connection.
Discard(gone) ==
  /\ pc' = Wiped(pc, gone, "none")
  /\ window' = Wiped(window, gone, {}) /\ todo' = Wiped(todo, gone, {})
  /\ total' = Wiped(total, gone, 0) /\ errors' = Wiped(errors, gone, FALSE)
  /\ cur' = Wiped(cur, gone, NoFolder) /\ uv' = Wiped(uv, gone, 0)
  /\ uids' = Wiped(uids, gone, {})
  /\ folderBytes' = Wiped(folderBytes, gone, 0)
  /\ folderErr' = Wiped(folderErr, gone, FALSE)
  /\ uid' = Wiped(uid, gone, 0) /\ tries' = Wiped(tries, gone, 0)
  /\ fetched' = Wiped(fetched, gone, NoRow)
  /\ snapshot' = Wiped(snapshot, gone, {}) /\ scanned' = Wiped(scanned, gone, {})
  /\ listed' = Wiped(listed, gone, {}) /\ spent' = Wiped(spent, gone, 0)
  /\ session' = Wiped(session, gone, NotOpen("closed"))

Return(j, answer) ==
  /\ Discard({j})
  /\ result' = [result EXCEPT ![j] = answer]

(***************************************************************************)
(* The request, and sync_selected_folders up to the first folder.          *)
(***************************************************************************)

RequestSync(j) ==
  /\ ~Running(j)
  /\ Goto(j, "select")
  /\ result' = [result EXCEPT ![j] = "none"]
  /\ \E w \in Windows : window' = [window EXCEPT ![j] = w]
  /\ UNCHANGED <<todo, total, errors, folderVars, fetchVars, seenVars, spent>>
  /\ UNCHANGED <<serverVars, session, storeVars, faults>>

ListSelectedFolders(j) ==
  /\ pc[j] = "select"
  /\ Goto(j, "announce")
  /\ todo' = [todo EXCEPT ![j] = SelectedFolders]
  /\ snapshot' = [snapshot EXCEPT ![j] = SelectedFolders]
  /\ UNCHANGED <<result, window, total, errors, folderVars, fetchVars, scanned, listed, spent>>
  /\ UNCHANGED <<serverVars, session, storeVars, faults>>

Announce(j) ==
  /\ pc[j] = "announce"
  /\ SetSyncStatus("running")
  /\ Goto(j, IF todo[j] = {} THEN "empty" ELSE "connect")
  /\ UNCHANGED <<result, runVars, folderVars, fetchVars, seenVars, spent>>
  /\ UNCHANGED <<serverVars, session, rowVars, selected, faults>>

NoFoldersSelected(j) ==
  /\ pc[j] = "empty"
  /\ SetSyncStatus("idle")
  /\ Return(j, "idle")
  /\ UNCHANGED <<serverVars, rowVars, selected, faults>>

Connect(j) ==
  /\ pc[j] = "connect"
  /\ Goto(j, "search")
  /\ session' = [session EXCEPT ![j] = NotOpen("auth")]
  /\ UNCHANGED <<result, runVars, folderVars, fetchVars, seenVars, spent>>
  /\ UNCHANGED <<serverVars, storeVars, faults>>

(***************************************************************************)
(* The endings of the request that sync_selected_folders does not choose:  *)
(* an exception outside a folder goes to the handler, which records the    *)
(* state "failed", unless the exception is a ValueError.                   *)
(***************************************************************************)

Raise(j) ==
  /\ Goto(j, "report")
  /\ UNCHANGED <<result, runVars, folderVars, fetchVars, seenVars, spent>>
  /\ UNCHANGED <<serverVars, session, storeVars>>

ConnectFails(j) ==
  /\ pc[j] = "connect"
  /\ Fault("drop") \/ Fault("login")
  /\ Raise(j)

\* imaplib encodes the password as ASCII: UnicodeEncodeError is a ValueError.
ConnectRaisesValueError(j) ==
  /\ pc[j] = "connect"
  /\ Fault("credential")
  /\ Return(j, "bad_request")
  /\ UNCHANGED <<serverVars, storeVars>>

RunStoreFails(j) ==
  /\ pc[j] \in {"select", "announce", "empty", "close", "finish"}
  /\ Fault("locked")
  /\ Raise(j)

ReportFailure(j) ==
  /\ pc[j] = "report"
  /\ SetSyncStatus("failed")
  /\ Return(j, "failed")
  /\ UNCHANGED <<serverVars, rowVars, selected, faults>>

ReportFailureFails(j) ==
  /\ pc[j] = "report"
  /\ Fault("locked")
  /\ Return(j, "unhandled")
  /\ UNCHANGED <<serverVars, storeVars>>

(***************************************************************************)
(* One folder: _sync_folder up to the message loop.                        *)
(***************************************************************************)

\* The next folder of the for loop.
IsNext(j, f) == f \in todo[j] /\ \A g \in todo[j] : Rank[f] <= Rank[g]

Search(j, f) ==
  /\ pc[j] = "search"
  /\ IsNext(j, f)
  /\ Usable(session[j])
  /\ LET found == SearchResult(f, window[j]) IN
       /\ uids' = [uids EXCEPT ![j] = found]
       /\ listed' = [listed EXCEPT ![j] = @ \cup KeysOf(f, epoch[f], found)]
  /\ session' = [session EXCEPT ![j] = OpenMailbox(@, f)]
  /\ cur' = [cur EXCEPT ![j] = f]
  /\ uv' = [uv EXCEPT ![j] = epoch[f]]
  /\ scanned' = [scanned EXCEPT ![j] = @ \cup {f}]
  /\ Goto(j, "mark")
  /\ UNCHANGED <<result, runVars, folderBytes, folderErr, fetchVars, snapshot, spent>>
  /\ UNCHANGED <<serverVars, storeVars, faults>>

BudgetReached_InFolder(j) == folderBytes[j] >= MaxRunBytes
BudgetReached(j) == total[j] + folderBytes[j] >= MaxRunBytes

MessageLoopEnds(j) == uids[j] = {} \/ BudgetReached(j)

\* An exception of _sync_folder: the folder's result is made anew, with the
\* error and without the counters.
FailFolder(j) ==
  /\ Goto(j, "close")
  /\ folderErr' = [folderErr EXCEPT ![j] = TRUE]
  /\ folderBytes' = [folderBytes EXCEPT ![j] = 0]
  /\ UNCHANGED <<result, runVars, uv, uids, fetchVars, seenVars, spent>>
  /\ UNCHANGED <<serverVars, storeVars>>

SearchFails(j, f) ==
  /\ pc[j] = "search"
  /\ IsNext(j, f)
  /\ FailedSearch(j, f)
  /\ cur' = [cur EXCEPT ![j] = f]
  /\ FailFolder(j)

FolderStoreFails(j) ==
  /\ \/ pc[j] \in {"mark", "missing", "progress"}
     \/ pc[j] = "fetch" /\ MessageLoopEnds(j)
  /\ Fault("locked")
  /\ FailFolder(j)
  /\ UNCHANGED <<cur, session>>

MarkStale(j) ==
  /\ pc[j] = "mark"
  /\ MarkFolderStale(cur[j], uv[j])
  /\ Goto(j, "missing")
  /\ UNCHANGED <<result, runVars, folderVars, fetchVars, seenVars, spent>>
  /\ UNCHANGED <<serverVars, session, attachments, selected, status, faults>>

ReadMissing(j) ==
  /\ pc[j] = "missing"
  /\ uids' = [uids EXCEPT ![j] = MissingUids(cur[j], uv[j], @)]
  /\ Goto(j, "progress")
  /\ UNCHANGED <<result, runVars, cur, uv, folderBytes, folderErr, fetchVars, seenVars, spent>>
  /\ UNCHANGED <<serverVars, session, storeVars, faults>>

PublishProgress(j) ==
  /\ pc[j] = "progress"
  /\ SetSyncStatus("running")
  /\ Goto(j, "fetch")
  /\ UNCHANGED <<result, runVars, folderVars, fetchVars, seenVars, spent>>
  /\ UNCHANGED <<serverVars, session, rowVars, selected, faults>>

(***************************************************************************)
(* The message loop of _sync_folder, and _fetch_message_with_reconnect.    *)
(***************************************************************************)

NextMessage(j) ==
  /\ pc[j] = "fetch"
  /\ ~MessageLoopEnds(j)
  /\ \E u \in uids[j] : uid' = [uid EXCEPT ![j] = u]
  /\ tries' = [tries EXCEPT ![j] = 1]
  /\ Goto(j, "try")
  /\ UNCHANGED <<result, runVars, folderVars, fetched, seenVars, spent>>
  /\ UNCHANGED <<serverVars, session, storeVars, faults>>

\* The except clause of the loop: the error is noted, the loop goes on.
FailMessage(j) ==
  /\ folderErr' = [folderErr EXCEPT ![j] = TRUE]
  /\ uids' = [uids EXCEPT ![j] = @ \ {uid[j]}]
  /\ uid' = [uid EXCEPT ![j] = 0]
  /\ tries' = [tries EXCEPT ![j] = 0]
  /\ fetched' = [fetched EXCEPT ![j] = NoRow]
  /\ Goto(j, "progress")
  /\ UNCHANGED <<cur, uv, folderBytes>>

RetryLater(j) ==
  /\ Goto(j, "reconnect")
  /\ UNCHANGED <<folderVars, fetchVars>>

\* An error taken as transient: reconnect, unless this was the last attempt.
Interrupt_Always(j) == RetryLater(j)
Interrupt(j) == IF tries[j] < Attempts THEN RetryLater(j) ELSE FailMessage(j)

\* What a fetch, or a reconnection, leaves alone.
LeavesTheRest ==
  /\ UNCHANGED <<result, runVars, seenVars, spent>>
  /\ UNCHANGED <<serverVars, storeVars>>

Fetch(j) ==
  /\ pc[j] = "try"
  /\ ServesUid(session[j], uid[j])
  /\ fetched' = [fetched EXCEPT ![j] = OriginOf(session[j])]
  /\ Goto(j, "save")
  /\ UNCHANGED <<folderVars, uid, tries, session, faults>>
  /\ LeavesTheRest

\* "Message UID ... not found in folder ...": a folder name that contains one
\* of the fragments makes it look like an interrupted connection.
FetchFindsNothing(j) ==
  /\ pc[j] = "try"
  /\ LacksUid(session[j], uid[j])
  /\ IF cur[j] \in MisreadFolders THEN Interrupt(j) ELSE FailMessage(j)
  /\ UNCHANGED <<session, faults>>
  /\ LeavesTheRest

\* NO is permanent; the text of a BAD answer is the server's and may contain
\* one of the fragments.
FetchRefused(j) ==
  /\ pc[j] = "try"
  /\ session[j].state = "selected"
  /\ Fault("refuse")
  /\ Interrupt(j) \/ FailMessage(j)
  /\ UNCHANGED session
  /\ LeavesTheRest

FetchLosesConnection(j) ==
  /\ pc[j] = "try"
  /\ \/ session[j].state = "dead" /\ UNCHANGED faults
     \/ session[j].state = "selected" /\ Fault("drop")
  /\ session' = [session EXCEPT ![j] = NotOpen("dead")]
  /\ Interrupt(j)
  /\ LeavesTheRest

\* No connection, or FETCH is illegal in its state: a permanent error.
FetchNotPossible(j) ==
  /\ pc[j] = "try"
  /\ session[j].state \in {"closed", "nonauth", "auth"}
  /\ FailMessage(j)
  /\ UNCHANGED <<session, faults>>
  /\ LeavesTheRest

NextAttempt_NotCounted(attempt) == attempt
NextAttempt(attempt) == attempt + 1

Reconnect(j) ==
  /\ pc[j] = "reconnect"
  /\ session' = [session EXCEPT ![j] = OpenMailbox(NotOpen("auth"), cur[j])]
  /\ IF epoch[cur[j]] = uv[j]
       THEN /\ tries' = [tries EXCEPT ![j] = NextAttempt(@)]
            /\ Goto(j, "try")
            /\ UNCHANGED <<folderVars, uid, fetched>>
       ELSE FailMessage(j)
  /\ UNCHANGED faults
  /\ LeavesTheRest

ReconnectFails(j) ==
  /\ pc[j] = "reconnect"
  /\ FailedReconnect(j, cur[j])
  /\ FailMessage(j)
  /\ LeavesTheRest

RowKey_AtSave(j) == <<cur[j], epoch[cur[j]], uid[j]>>
RowKey(j) == <<cur[j], uv[j], uid[j]>>

\* The message is filed under the folder and UIDVALIDITY of the search.
Save(j) ==
  /\ pc[j] = "save"
  /\ SaveMessage(RowKey(j), fetched[j])
  /\ folderBytes' = [folderBytes EXCEPT ![j] = @ + MessageBytes[uid[j]]]
  /\ spent' = [spent EXCEPT ![j] = @ + MessageBytes[uid[j]]]
  /\ uids' = [uids EXCEPT ![j] = @ \ {uid[j]}]
  /\ uid' = [uid EXCEPT ![j] = 0]
  /\ tries' = [tries EXCEPT ![j] = 0]
  /\ fetched' = [fetched EXCEPT ![j] = NoRow]
  /\ Goto(j, "progress")
  /\ UNCHANGED <<result, runVars, cur, uv, folderErr, seenVars>>
  /\ UNCHANGED <<serverVars, session, selected, status, faults>>

SaveFails(j) ==
  /\ pc[j] = "save"
  /\ Fault("locked") \/ Fault("content")
  /\ FailMessage(j)
  /\ UNCHANGED session
  /\ LeavesTheRest

(***************************************************************************)
(* After the message loop, after a folder, and after the last folder.      *)
(***************************************************************************)

\* Messages are left over only where the byte budget ended the loop.
FinishFolder(j) ==
  /\ pc[j] = "fetch"
  /\ MessageLoopEnds(j)
  /\ UpdateFolderSyncResult(cur[j])
  /\ folderErr' = [folderErr EXCEPT ![j] = @ \/ uids[j] # {}]
  /\ Goto(j, "close")
  /\ UNCHANGED <<result, runVars, cur, uv, uids, folderBytes, fetchVars, seenVars, spent>>
  /\ UNCHANGED <<serverVars, session, rowVars, status, faults>>

NoteErrors_RunOnly(j, reached) == errors[j] \/ reached
NoteErrors(j, reached) == errors[j] \/ folderErr[j] \/ reached

\* The folder's result joins the run's, the status is published, and the loop
\* over the folders goes on unless the budget is used up.  Leaving the loop
\* leaves the with block: the connection is closed.
CloseFolder(j) ==
  /\ pc[j] = "close"
  /\ SetSyncStatus("running")
  /\ LET bytes == total[j] + folderBytes[j]
         reached == bytes >= MaxRunBytes
         last == reached \/ todo[j] = {cur[j]}
     IN /\ total' = [total EXCEPT ![j] = bytes]
        /\ errors' = [errors EXCEPT ![j] = NoteErrors(j, reached)]
        /\ Goto(j, IF last THEN "finish" ELSE "search")
        /\ session' = [session EXCEPT ![j] = IF last THEN NotOpen("closed") ELSE @]
  /\ todo' = [todo EXCEPT ![j] = @ \ {cur[j]}]
  /\ cur' = [cur EXCEPT ![j] = NoFolder]
  /\ uv' = [uv EXCEPT ![j] = 0]
  /\ uids' = [uids EXCEPT ![j] = {}]
  /\ folderBytes' = [folderBytes EXCEPT ![j] = 0]
  /\ folderErr' = [folderErr EXCEPT ![j] = FALSE]
  /\ UNCHANGED <<result, window, fetchVars, seenVars, spent>>
  /\ UNCHANGED <<serverVars, rowVars, selected, faults>>

Verdict(j) == IF errors[j] THEN "completed_with_errors" ELSE "completed"

Finish_Silently(j) ==
  /\ pc[j] = "finish"
  /\ Return(j, Verdict(j))
  /\ UNCHANGED <<serverVars, storeVars, faults>>

Finish(j) ==
  /\ pc[j] = "finish"
  /\ SetSyncStatus(Verdict(j))
  /\ Return(j, Verdict(j))
  /\ UNCHANGED <<serverVars, rowVars, selected, faults>>

FolderCall(j) == \E f \in Folders : Search(j, f) \/ SearchFails(j, f)

FetchCall(j) ==
  \/ Fetch(j) \/ FetchFindsNothing(j) \/ FetchRefused(j)
  \/ FetchLosesConnection(j) \/ FetchNotPossible(j)

StartCall(j) ==
  \/ ListSelectedFolders(j) \/ Announce(j) \/ NoFoldersSelected(j)
  \/ Connect(j) \/ ConnectFails(j) \/ ConnectRaisesValueError(j)

StoreCall(j) ==
  \/ MarkStale(j) \/ ReadMissing(j) \/ PublishProgress(j)
  \/ Save(j) \/ SaveFails(j) \/ FolderStoreFails(j) \/ RunStoreFails(j)

EndCall(j) ==
  \/ FinishFolder(j) \/ CloseFolder(j) \/ Finish(j)
  \/ ReportFailure(j) \/ ReportFailureFails(j)

JobStep(j) ==
  \/ StartCall(j) \/ FolderCall(j) \/ NextMessage(j) \/ FetchCall(j)
  \/ Reconnect(j) \/ ReconnectFails(j) \/ StoreCall(j) \/ EndCall(j)
=============================================================================
