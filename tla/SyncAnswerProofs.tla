-------------------------- MODULE SyncAnswerProofs --------------------------
(***************************************************************************)
(* What an answered request means, for every value of the constants: which *)
(* folders a run can touch, that "completed" is only said of a run that    *)
(* stored all it listed, and that while the jobs are apart it shows it.    *)
(***************************************************************************)
EXTENDS SyncRowProofs

-----------------------------------------------------------------------------
(***************************************************************************)
(* Exposure.  A folder reaches the store through the selection, the copy   *)
(* of it a run makes, and the folder the run is in: all three stay within  *)
(* what the user ever chose, although the run's copy grows stale and       *)
(* update_folder_sync_result writes it back.                               *)
(***************************************************************************)

Reached(j) == todo[j] \cup (IF pc[j] \in FolderSteps THEN {cur[j]} ELSE {})

ChosenInv ==
  /\ selected \subseteq chosen
  /\ \A j \in Jobs : Reached(j) \subseteq chosen
  /\ \A k \in Stored : k[1] \in chosen

LEMMA DiscardKeepsReached ==
  ASSUME TypeInv, NEW gone \in SUBSET Jobs, Discard(gone)
  PROVE  \A j \in Jobs : Reached(j)' \subseteq Reached(j)
BY DEF TypeInv, TypeOK, JobTypeOK, Discard, Wiped, Reached, FolderSteps

LEMMA ReachedStep ==
  ASSUME TypeInv, ChosenInv, NEW j \in Jobs, RequestSync(j) \/ JobStep(j)
  PROVE  \A k \in Jobs : Reached(k)' \subseteq chosen
<1> USE DEF TypeInv, TypeOK, JobTypeOK, ChosenInv, Reached, Goto, FolderSteps,
            runVars, folderVars, fetchVars
<1>1. CASE RequestSync(j) \/ Announce(j) \/ Connect(j) \/ ConnectFails(j) \/ RunStoreFails(j)
  BY <1>1 DEF RequestSync, Announce, Connect, ConnectFails, RunStoreFails, Raise
<1>2. CASE ListSelectedFolders(j)
  BY <1>2 DEF ListSelectedFolders, SelectedFolders
<1>3. CASE \/ NoFoldersSelected(j) \/ ConnectRaisesValueError(j) \/ Finish(j)
           \/ ReportFailure(j) \/ ReportFailureFails(j)
  <2>1. Discard({j}) /\ {j} \in SUBSET Jobs
    BY <1>3 DEF NoFoldersSelected, ConnectRaisesValueError, Finish, ReportFailure,
       ReportFailureFails, Return
  <2> QED
    BY <2>1, DiscardKeepsReached
<1>4. ASSUME NEW f \in Folders, Search(j, f) \/ SearchFails(j, f)
      PROVE \A k \in Jobs : Reached(k)' \subseteq chosen
  BY <1>4 DEF Search, SearchFails, FailFolder, IsNext
<1>5. CASE FolderStoreFails(j) \/ FinishFolder(j) \/ CloseFolder(j)
  BY <1>5 DEF FolderStoreFails, FailFolder, FinishFolder, CloseFolder
<1>6. CASE MarkStale(j) \/ ReadMissing(j) \/ PublishProgress(j) \/ NextMessage(j) \/ Save(j)
  BY <1>6 DEF MarkStale, ReadMissing, PublishProgress, NextMessage, Save
<1>7. CASE FetchFindsNothing(j) \/ FetchRefused(j) \/ FetchLosesConnection(j)
           \/ FetchNotPossible(j) \/ ReconnectFails(j) \/ SaveFails(j)
  BY <1>7 DEF FetchFindsNothing, FetchRefused, FetchLosesConnection, FetchNotPossible,
     ReconnectFails, SaveFails, Interrupt, RetryLater, FailMessage, LeavesTheRest
<1>8. CASE Fetch(j) \/ Reconnect(j)
  BY <1>8 DEF Fetch, Reconnect, FailMessage, LeavesTheRest
<1> QED
  BY <1>1, <1>2, <1>3, <1>4, <1>5, <1>6, <1>7, <1>8, JobCases

\* The selection grows only by the folder a run has finished.
LEMMA SelectionStep ==
  ASSUME NEW j \in Jobs, RequestSync(j) \/ JobStep(j)
  PROVE  UNCHANGED selected \/ (pc[j] \in FolderSteps /\ selected' = selected \cup {cur[j]})
<1> USE DEF storeVars, FolderSteps
<1>1. ASSUME NEW f \in Folders, Search(j, f) \/ SearchFails(j, f) PROVE UNCHANGED selected
  BY <1>1 DEF Search, SearchFails, FailFolder
<1>2. CASE FinishFolder(j)
  BY <1>2 DEF FinishFolder, UpdateFolderSyncResult
<1>3. CASE RequestSync(j) \/ ListSelectedFolders(j) \/ Announce(j) \/ NoFoldersSelected(j)
           \/ Connect(j) \/ ConnectFails(j) \/ ConnectRaisesValueError(j) \/ NextMessage(j)
           \/ MarkStale(j) \/ Save(j) \/ ReadMissing(j) \/ PublishProgress(j) \/ CloseFolder(j)
           \/ Finish(j) \/ ReportFailure(j) \/ ReportFailureFails(j) \/ RunStoreFails(j)
           \/ FolderStoreFails(j)
  BY <1>3 DEF RequestSync, ListSelectedFolders, Announce, NoFoldersSelected, Connect, ConnectFails,
     ConnectRaisesValueError, NextMessage, MarkStale, Save, ReadMissing, PublishProgress, CloseFolder,
     Finish, ReportFailure, ReportFailureFails, RunStoreFails, FolderStoreFails, Raise, FailFolder
<1>4. CASE Fetch(j) \/ FetchFindsNothing(j) \/ FetchRefused(j) \/ FetchLosesConnection(j)
           \/ FetchNotPossible(j) \/ Reconnect(j) \/ ReconnectFails(j) \/ SaveFails(j)
  BY <1>4 DEF Fetch, FetchFindsNothing, FetchRefused, FetchLosesConnection, FetchNotPossible,
     Reconnect, ReconnectFails, SaveFails, LeavesTheRest
<1> QED
  BY <1>1, <1>2, <1>3, <1>4, JobCases

\* A step of a job keeps every row's origin and adds at most the row of the
\* message it has in hand, with that message's attachments.
LEMMA StoredStep ==
  ASSUME TypeInv, NEW j \in Jobs, RequestSync(j) \/ JobStep(j)
  PROVE  \/ /\ Stored' = Stored /\ UNCHANGED attachments
            /\ \A k \in Stored : messages'[k].origin = messages[k].origin
         \/ /\ Save(j) /\ RowKey(j) \in RowKeys /\ Stored' = Stored \cup {RowKey(j)}
            /\ \A k \in RowKeys \ {RowKey(j)} :
                 messages'[k] = messages[k] /\ attachments'[k] = attachments[k]
            /\ messages'[RowKey(j)].origin \in attachments'[RowKey(j)]
<1>1. CASE MarkStale(j)
  BY <1>1, NoRowAssumption
  DEF MarkStale, MarkFolderStale, StaleRows, Stored, TypeInv, TypeOK, StoreTypeOK, Rows
<1>2. CASE Save(j)
  <2>1. RowKey(j) \in RowKeys /\ fetched[j] \in Origins
    BY <1>2 DEF Save, RowKey, RowKeys, TypeInv, Placed, FolderSteps, FetchSteps
  <2>2. messages' = [messages EXCEPT ![RowKey(j)] = [origin |-> fetched[j], stale |-> FALSE]]
    BY <1>2 DEF Save, SaveMessage
  <2>3. PICK kept \in SUBSET attachments[RowKey(j)] :
          attachments' = [attachments EXCEPT ![RowKey(j)] = kept \cup {fetched[j]}]
    BY <1>2 DEF Save, SaveMessage
  <2>4. [origin |-> fetched[j], stale |-> FALSE] # NoRow
    <3>1. [origin |-> fetched[j], stale |-> FALSE] \in [origin : Origins, stale : BOOLEAN]
      BY <2>1
    <3> QED
      BY <3>1, NoRowAssumption
  <2>5. Stored' = Stored \cup {RowKey(j)}
    <3>1. messages \in [RowKeys -> Rows \cup {NoRow}]
      BY DEF TypeInv, TypeOK, StoreTypeOK
    <3>2. messages'[RowKey(j)] # NoRow /\ \A k \in RowKeys \ {RowKey(j)} : messages'[k] = messages[k]
      BY <2>1, <2>2, <2>4, <3>1
    <3> QED
      BY <2>1, <3>2 DEF Stored
  <2>6. \A k \in RowKeys \ {RowKey(j)} :
          messages'[k] = messages[k] /\ attachments'[k] = attachments[k]
    BY <2>2, <2>3 DEF TypeInv, TypeOK, StoreTypeOK
  <2>7. messages'[RowKey(j)].origin \in attachments'[RowKey(j)]
    BY <2>1, <2>2, <2>3 DEF TypeInv, TypeOK, StoreTypeOK
  <2> QED
    BY <1>2, <2>1, <2>5, <2>6, <2>7
<1>3. CASE UNCHANGED <<messages, attachments>>
  BY <1>3 DEF Stored
<1> QED
  BY <1>1, <1>2, <1>3, OnlyMarkAndSaveWrite

LEMMA ChosenInvStep == TypeInv /\ ChosenInv /\ [Next]_vars => ChosenInv'
<1> SUFFICES ASSUME TypeInv, ChosenInv, [Next]_vars PROVE ChosenInv'
  OBVIOUS
<1>1. ASSUME NEW j \in Jobs, RequestSync(j) \/ JobStep(j), UNCHANGED userVars PROVE ChosenInv'
  <2>1. UNCHANGED chosen
    BY <1>1 DEF userVars
  <2>2. selected' \subseteq chosen
    BY <1>1, SelectionStep DEF ChosenInv, Reached
  <2>3. \A k \in Stored' : k[1] \in chosen
    <3>1. Save(j) => RowKey(j)[1] \in chosen
      BY DEF Save, RowKey, ChosenInv, Reached, FolderSteps
    <3> QED
      BY <1>1, <3>1, StoredStep DEF ChosenInv
  <2> QED
    BY <1>1, <2>1, <2>2, <2>3, ReachedStep DEF ChosenInv
<1>2. CASE SaveSelectedFolders
  BY <1>2 DEF SaveSelectedFolders, SetSelectedFolders, ChosenInv, Reached, Stored, rowVars, jobVars,
     runVars, folderVars
<1>3. CASE Crash
  BY <1>3, DiscardKeepsReached DEF Crash, ChosenInv, Stored, storeVars, userVars
<1>4. CASE UNCHANGED <<storeVars, jobVars, userVars>>
  BY <1>4 DEF ChosenInv, Reached, Stored, storeVars, jobVars, runVars, folderVars, userVars
<1> QED
  BY <1>1, <1>2, <1>3, <1>4 DEF Next, vars

\* Whatever overlaps, fails or stops, nothing of a folder the user never chose
\* is selected or stored.
THEOREM ExposureHolds == Spec => []ExposureWithinChosen
<1>1. Init => ChosenInv
  BY DEF Init, StoreInit, JobInit, ChosenInv, Reached, Stored, FolderSteps
<1>2. ChosenInv => ExposureWithinChosen
  BY DEF ChosenInv, ExposureWithinChosen
<1> QED
  BY <1>1, <1>2, ChosenInvStep, TypeCorrectness, PTL DEF Spec

-----------------------------------------------------------------------------
(***************************************************************************)
(* The verdict.  A key a search returned is accounted for: it is stored,   *)
(* or still ahead of the message loop of its folder, or the error that     *)
(* lost it is noted, in the folder's list or already in the run's.         *)
(***************************************************************************)

Ahead(j, k) ==
  /\ pc[j] \in FolderSteps
  /\ k[1] = cur[j] /\ k[2] = uv[j] /\ k[3] \in uids[j]

Noted(j) == folderErr[j] /\ pc[j] \in FolderSteps \cup {"close"}

Accounted(j) ==
  /\ pc[j] \in {"none", "select"} => scanned[j] = {}
  /\ pc[j] \in FolderSteps \cup {"close"} => cur[j] \in todo[j]
  /\ pc[j] \in FolderSteps \/ (pc[j] = "close" /\ ~folderErr[j]) => cur[j] \in scanned[j]
  /\ errors[j] \/ snapshot[j] = scanned[j] \cup todo[j]
  /\ pc[j] = "finish" => errors[j] \/ todo[j] = {}
  /\ \A k \in listed[j] : k \in Stored \/ Ahead(j, k) \/ Noted(j) \/ errors[j] \/ pc[j] = "report"

VerdictInv == \A j \in Jobs : Accounted(j)

LEMMA StoredGrows ==
  ASSUME TypeInv, NEW j \in Jobs, RequestSync(j) \/ JobStep(j)
  PROVE  Stored \subseteq Stored'
BY StoredStep

LEMMA KeyOfParts == \A k \in RowKeys : k = <<k[1], k[2], k[3]>>
BY DEF RowKeys

LEMMA FailMessageIsNoted ==
  ASSUME TypeInv, VerdictInv, NEW j \in Jobs, pc[j] \in FetchSteps, FailMessage(j), LeavesTheRest
  PROVE  VerdictInv'
BY DEF TypeInv, TypeOK, JobTypeOK, VerdictInv, Accounted, Ahead, Noted, FailMessage, LeavesTheRest,
   Goto, FolderSteps, FetchSteps, Stored, storeVars, runVars, seenVars

LEMMA RetryIsAccounted ==
  ASSUME TypeInv, VerdictInv, NEW j \in Jobs, pc[j] \in FetchSteps, RetryLater(j), LeavesTheRest
  PROVE  VerdictInv'
BY DEF TypeInv, TypeOK, JobTypeOK, VerdictInv, Accounted, Ahead, Noted, RetryLater, LeavesTheRest,
   Goto, FolderSteps, FetchSteps, Stored, storeVars, runVars, folderVars, fetchVars, seenVars

LEMMA DiscardIsAccounted ==
  ASSUME TypeInv, VerdictInv, NEW gone \in SUBSET Jobs, Discard(gone), UNCHANGED messages
  PROVE  VerdictInv'
BY DEF TypeInv, TypeOK, JobTypeOK, VerdictInv, Accounted, Ahead, Noted, Discard, Wiped, FolderSteps, Stored

LEMMA VerdictStep ==
  ASSUME TypeInv, VerdictInv, NEW j \in Jobs, RequestSync(j) \/ JobStep(j)
  PROVE  VerdictInv'
<1> USE DEF TypeInv, TypeOK, JobTypeOK, VerdictInv, Accounted, Ahead, Noted, Goto, FolderSteps,
            FetchSteps, runVars, folderVars, fetchVars, seenVars
<1>0. Stored \subseteq Stored'
  BY StoredGrows
<1>1. CASE RequestSync(j) \/ Announce(j) \/ Connect(j)
  <2>1. CASE RequestSync(j)
    BY <1>0, <2>1 DEF RequestSync, Running
  <2>2. CASE Announce(j)
    BY <1>0, <2>2 DEF Announce
  <2>3. CASE Connect(j)
    BY <1>0, <2>3 DEF Connect
  <2> QED
    BY <1>1, <2>1, <2>2, <2>3
<1>2. CASE ConnectFails(j) \/ RunStoreFails(j)
  BY <1>0, <1>2 DEF ConnectFails, RunStoreFails, Raise
<1>3. CASE ListSelectedFolders(j)
  BY <1>0, <1>3 DEF ListSelectedFolders
<1>4. CASE \/ NoFoldersSelected(j) \/ ConnectRaisesValueError(j) \/ Finish(j)
           \/ ReportFailure(j) \/ ReportFailureFails(j)
  <2>1. Discard({j}) /\ {j} \in SUBSET Jobs /\ UNCHANGED messages
    BY <1>4 DEF NoFoldersSelected, ConnectRaisesValueError, Finish, ReportFailure,
       ReportFailureFails, Return, rowVars, storeVars
  <2> QED
    BY <2>1, DiscardIsAccounted
<1>5. ASSUME NEW f \in Folders, Search(j, f) PROVE VerdictInv'
  BY <1>0, <1>5 DEF Search, KeysOf, IsNext
<1>6. ASSUME NEW f \in Folders, SearchFails(j, f) PROVE VerdictInv'
  BY <1>0, <1>6 DEF SearchFails, FailFolder, IsNext
<1>7. CASE FolderStoreFails(j)
  BY <1>0, <1>7 DEF FolderStoreFails, FailFolder
<1>8. CASE MarkStale(j) \/ PublishProgress(j) \/ NextMessage(j)
  BY <1>0, <1>8 DEF MarkStale, PublishProgress, NextMessage
<1>9. CASE ReadMissing(j)
  <2>1. \A k \in listed[j] : Ahead(j, k) => k \in Stored \/ k[3] \in MissingUids(cur[j], uv[j], uids[j])
    BY KeyOfParts DEF MissingUids, Visible
  <2> QED
    BY <1>0, <1>9, <2>1 DEF ReadMissing
<1>10. CASE Fetch(j)
  BY <1>0, <1>10 DEF Fetch, LeavesTheRest
<1>11. CASE FetchFindsNothing(j) \/ FetchRefused(j) \/ FetchLosesConnection(j)
            \/ FetchNotPossible(j)
  BY <1>11, FailMessageIsNoted, RetryIsAccounted
  DEF FetchFindsNothing, FetchRefused, FetchLosesConnection, FetchNotPossible, Interrupt
<1>12. CASE Reconnect(j)
  <2>1. CASE epoch[cur[j]] = uv[j]
    BY <1>0, <1>12, <2>1 DEF Reconnect, LeavesTheRest
  <2>2. CASE epoch[cur[j]] # uv[j]
    BY <1>12, <2>2, FailMessageIsNoted DEF Reconnect
  <2> QED
    BY <2>1, <2>2
<1>13. CASE ReconnectFails(j) \/ SaveFails(j)
  BY <1>13, FailMessageIsNoted DEF ReconnectFails, SaveFails
<1>14. CASE Save(j)
  <2>1. \A k \in listed[j] : Ahead(j, k) /\ k[3] = uid[j] => k = RowKey(j)
    BY KeyOfParts DEF RowKey
  <2>2. RowKey(j) \in Stored'
    <3>1. \/ Stored' = Stored /\ UNCHANGED attachments
          \/ Stored' = Stored \cup {RowKey(j)}
      BY <1>14, StoredStep
    <3>2. messages'[RowKey(j)] = [origin |-> fetched[j], stale |-> FALSE]
      BY <1>14 DEF Save, SaveMessage, StoreTypeOK, RowKey, RowKeys, Placed
    <3>3. RowKey(j) \in RowKeys /\ fetched[j] \in Origins
      BY <1>14 DEF Save, RowKey, RowKeys, Placed
    <3>4. [origin |-> fetched[j], stale |-> FALSE] \in [origin : Origins, stale : BOOLEAN]
      BY <3>3
    <3> QED
      BY <3>2, <3>3, <3>4, NoRowAssumption DEF Stored
  <2> QED
    BY <1>0, <1>14, <2>1, <2>2 DEF Save
<1>15. CASE FinishFolder(j)
  BY <1>0, <1>15 DEF FinishFolder
<1>16. CASE CloseFolder(j)
  <2>1. ASSUME NEW k \in Jobs \ {j} PROVE Accounted(k)'
    BY <1>0, <1>16 DEF CloseFolder
  <2>2. /\ pc'[j] \in {"finish", "search"}
        /\ errors'[j] \/ (~errors[j] /\ ~folderErr[j])
        /\ todo'[j] = todo[j] \ {cur[j]}
        /\ pc'[j] = "finish" => errors'[j] \/ todo[j] = {cur[j]}
        /\ UNCHANGED <<snapshot, scanned, listed>>
    BY <1>16 DEF CloseFolder, NoteErrors
  <2>3. Accounted(j)'
    BY <1>0, <1>16, <2>2 DEF CloseFolder
  <2> QED
    BY <2>1, <2>3
<1> QED
  BY <1>1, <1>2, <1>3, <1>4, <1>5, <1>6, <1>7, <1>8, <1>9, <1>10, <1>11, <1>12, <1>13, <1>14,
     <1>15, <1>16, JobCases

LEMMA VerdictInvStep == TypeInv /\ VerdictInv /\ [Next]_vars => VerdictInv'
<1> SUFFICES ASSUME TypeInv, VerdictInv, [Next]_vars PROVE VerdictInv'
  OBVIOUS
<1>1. ASSUME NEW j \in Jobs, RequestSync(j) \/ JobStep(j) PROVE VerdictInv'
  BY <1>1, VerdictStep
<1>2. CASE Crash
  BY <1>2, DiscardIsAccounted DEF Crash, storeVars
<1>3. CASE UNCHANGED <<messages, jobVars>>
  BY <1>3 DEF VerdictInv, Accounted, Ahead, Noted, Stored, jobVars, runVars, folderVars, seenVars
<1> QED
  BY <1>1, <1>2, <1>3 DEF Next, vars, storeVars, rowVars, SaveSelectedFolders

LEMMA VerdictInvInit == Init => VerdictInv
BY DEF Init, StoreInit, JobInit, VerdictInv, Accounted, FolderSteps

LEMMA VerdictMeansStored == TypeInv /\ VerdictInv => CompletedMeansStored
BY DEF TypeInv, TypeOK, JobTypeOK, VerdictInv, Accounted, Ahead, Noted, CompletedMeansStored, FolderSteps

\* A run that is about to answer "completed" searched every selected folder
\* and stored every message it was told of.
THEOREM CompletedIsHonest == Spec => []CompletedMeansStored
BY VerdictInvInit, VerdictInvStep, VerdictMeansStored, TypeCorrectness, PTL DEF Spec

-----------------------------------------------------------------------------
(***************************************************************************)
(* What "completed" shows, while the jobs are apart.  A key of the present *)
(* life of its mailbox is not hidden once it is visible, since no search   *)
(* is ahead of it: so what is accounted for is not only stored but shown.  *)
(***************************************************************************)

Shown(j, k) == k \in Visible \/ Ahead(j, k) \/ Noted(j) \/ errors[j] \/ pc[j] = "report"

ListedAreShown(j) ==
  \A k \in listed[j] : k[2] <= epoch[k[1]] /\ (k[2] = epoch[k[1]] => Shown(j, k))

ShownInv == \A j \in Jobs : ListedAreShown(j)

LEMMA CurrentStaysVisible ==
  ASSUME AllInv, NEW j \in Jobs, RequestSync(j) \/ JobStep(j), NEW k \in Visible, k[2] = epoch[k[1]]
  PROVE  k \in Visible'
<1>1. CASE MarkStale(j)
  <2>1. k[1] = cur[j] => k[2] = uv[j]
    <3> SUFFICES ASSUME k[1] = cur[j] PROVE k[2] = uv[j]
      OBVIOUS
    <3>1. pc[j] \in FolderSteps /\ k \in Stored
      BY <1>1 DEF MarkStale, FolderSteps, Visible
    <3>2. k[2] <= uv[j] /\ uv[j] <= epoch[cur[j]]
      BY <3>1 DEF AllInv, FinalInv, BehindSearch, RowInv, JobsLabelled, Labelled
    <3>3. k[2] \in Nat /\ uv[j] \in UidValidities
      BY <3>1, StoredKeys DEF AllInv, TypeInv, Placed
    <3> QED
      BY <3>2, <3>3 DEF UidValidities
  <2> QED
    BY <1>1, <2>1, MarkVisible DEF AllInv
<1>2. CASE Save(j)
  BY <1>2, SaveVisible DEF AllInv
<1>3. CASE UNCHANGED messages
  BY <1>3 DEF Visible, Stored
<1> QED
  BY <1>1, <1>2, <1>3, OnlyMarkAndSaveWrite

\* The steps that neither list a key nor read or save a message lose none.
LEMMA OwnKeysStayShown ==
  ASSUME AllInv, NEW j \in Jobs, RequestSync(j) \/ JobStep(j), NEW k \in RowKeys,
         k[2] = epoch[k[1]], k \in listed[j] => Shown(j, k), k \in listed'[j]
  PROVE  Shown(j, k)'
<1> USE DEF AllInv, TypeInv, TypeOK, JobTypeOK, Shown, Ahead, Noted, Goto, FolderSteps, FetchSteps,
            runVars, folderVars, fetchVars, seenVars
<1>0. k \in Visible => k \in Visible'
  BY CurrentStaysVisible
<1>1. CASE RequestSync(j) \/ ListSelectedFolders(j) \/ Announce(j) \/ Connect(j)
  BY <1>0, <1>1 DEF RequestSync, ListSelectedFolders, Announce, Connect, Running
<1>2. CASE ConnectFails(j) \/ RunStoreFails(j)
  BY <1>0, <1>2 DEF ConnectFails, RunStoreFails, Raise
<1>3. CASE \/ NoFoldersSelected(j) \/ ConnectRaisesValueError(j) \/ Finish(j)
           \/ ReportFailure(j) \/ ReportFailureFails(j)
  <2>1. Discard({j})
    BY <1>3 DEF NoFoldersSelected, ConnectRaisesValueError, Finish, ReportFailure,
       ReportFailureFails, Return
  <2>2. listed'[j] = {}
    BY <2>1 DEF Discard, Wiped
  <2> QED
    BY <2>2
<1>4. ASSUME NEW f \in Folders, Search(j, f) PROVE Shown(j, k)'
  BY <1>0, <1>4 DEF Search, KeysOf
<1>5. ASSUME NEW f \in Folders, SearchFails(j, f) PROVE Shown(j, k)'
  BY <1>0, <1>5 DEF SearchFails, FailFolder
<1>6. CASE FolderStoreFails(j)
  BY <1>0, <1>6 DEF FolderStoreFails, FailFolder
<1>7. CASE MarkStale(j) \/ PublishProgress(j) \/ NextMessage(j)
  BY <1>0, <1>7 DEF MarkStale, PublishProgress, NextMessage
<1>8. CASE ReadMissing(j)
  <2>1. Ahead(j, k) => k \in Visible \/ k[3] \in MissingUids(cur[j], uv[j], uids[j])
    BY KeyOfParts DEF MissingUids
  <2> QED
    BY <1>0, <1>8, <2>1 DEF ReadMissing
<1>9. CASE Fetch(j)
  BY <1>0, <1>9 DEF Fetch, LeavesTheRest
<1>10. CASE pc[j] \in FetchSteps /\ FailMessage(j) /\ LeavesTheRest
  BY <1>0, <1>10 DEF FailMessage, LeavesTheRest
<1>11. CASE pc[j] \in FetchSteps /\ RetryLater(j) /\ LeavesTheRest
  BY <1>0, <1>11 DEF RetryLater, LeavesTheRest
<1>12. CASE FetchFindsNothing(j) \/ FetchRefused(j) \/ FetchLosesConnection(j)
            \/ FetchNotPossible(j) \/ ReconnectFails(j) \/ SaveFails(j)
  <2>1. pc[j] \in FetchSteps /\ LeavesTheRest /\ (FailMessage(j) \/ RetryLater(j))
    BY <1>12 DEF FetchFindsNothing, FetchRefused, FetchLosesConnection, FetchNotPossible,
       ReconnectFails, SaveFails, Interrupt
  <2> QED
    BY <1>10, <1>11, <2>1
<1>13. CASE Reconnect(j)
  <2>1. CASE epoch[cur[j]] = uv[j]
    BY <1>0, <1>13, <2>1 DEF Reconnect, LeavesTheRest
  <2>2. CASE epoch[cur[j]] # uv[j]
    BY <1>10, <1>13, <2>2 DEF Reconnect
  <2> QED
    BY <2>1, <2>2
<1>14. CASE Save(j)
  <2>1. Ahead(j, k) /\ k[3] = uid[j] => k = RowKey(j)
    BY KeyOfParts DEF RowKey
  <2>2. RowKey(j) \in Visible'
    BY <1>14, SaveVisible
  <2> QED
    BY <1>0, <1>14, <2>1, <2>2 DEF Save
<1>15. CASE FinishFolder(j)
  BY <1>0, <1>15 DEF FinishFolder
<1>16. CASE CloseFolder(j)
  BY <1>0, <1>16 DEF CloseFolder, NoteErrors
<1> QED
  BY <1>1, <1>2, <1>3, <1>4, <1>5, <1>6, <1>7, <1>8, <1>9, <1>12, <1>13, <1>14, <1>15, <1>16, JobCases

\* A run learns of keys at its searches only, and of keys of the present.
LEMMA ListedStep ==
  ASSUME TypeInv, NEW j \in Jobs, RequestSync(j) \/ JobStep(j), NEW k \in listed'[j]
  PROVE  k \in listed[j] \/ k[2] = epoch[k[1]]
<1> USE DEF TypeInv, TypeOK, JobTypeOK, seenVars
<1>1. CASE RequestSync(j) \/ ListSelectedFolders(j) \/ Announce(j) \/ Connect(j)
           \/ ConnectFails(j) \/ RunStoreFails(j)
  BY <1>1 DEF RequestSync, ListSelectedFolders, Announce, Connect, ConnectFails, RunStoreFails, Raise
<1>2. CASE \/ NoFoldersSelected(j) \/ ConnectRaisesValueError(j) \/ Finish(j)
           \/ ReportFailure(j) \/ ReportFailureFails(j)
  <2>1. Discard({j})
    BY <1>2 DEF NoFoldersSelected, ConnectRaisesValueError, Finish, ReportFailure,
       ReportFailureFails, Return
  <2> QED
    BY <2>1 DEF Discard, Wiped
<1>3. ASSUME NEW f \in Folders, Search(j, f) \/ SearchFails(j, f)
      PROVE  k \in listed[j] \/ k[2] = epoch[k[1]]
  BY <1>3 DEF Search, SearchFails, FailFolder, KeysOf
<1>4. CASE FolderStoreFails(j) \/ FinishFolder(j) \/ CloseFolder(j)
  BY <1>4 DEF FolderStoreFails, FailFolder, FinishFolder, CloseFolder
<1>5. CASE MarkStale(j) \/ ReadMissing(j) \/ PublishProgress(j) \/ NextMessage(j) \/ Save(j)
  BY <1>5 DEF MarkStale, ReadMissing, PublishProgress, NextMessage, Save
<1>6. CASE Fetch(j) \/ FetchFindsNothing(j) \/ FetchRefused(j) \/ FetchLosesConnection(j)
           \/ FetchNotPossible(j) \/ Reconnect(j) \/ ReconnectFails(j) \/ SaveFails(j)
  BY <1>6 DEF Fetch, FetchFindsNothing, FetchRefused, FetchLosesConnection, FetchNotPossible,
     Reconnect, ReconnectFails, SaveFails, LeavesTheRest
<1> QED
  BY <1>1, <1>2, <1>3, <1>4, <1>5, <1>6, JobCases

LEMMA ListedKeys ==
  ASSUME TypeInv, NEW j \in Jobs, NEW k \in listed[j]
  PROVE  k \in RowKeys /\ k[1] \in Folders /\ k[2] \in UidValidities /\ epoch[k[1]] \in UidValidities
BY DEF TypeInv, TypeOK, JobTypeOK, ServerTypeOK, RowKeys

LEMMA ShownJobStep ==
  ASSUME AllInv, ShownInv, NEW j \in Jobs, RequestSync(j) \/ JobStep(j)
  PROVE  ShownInv'
<1>0. UNCHANGED epoch /\ JobTypeOK'
  BY StoreTypes, JobTypes DEF serverVars, AllInv
<1>1. ASSUME NEW i \in Jobs \ {j} PROVE ListedAreShown(i)'
  <2>1. SameLocals(i)
    BY OthersStay DEF AllInv
  <2>2. ASSUME NEW k \in listed[i], k[2] = epoch[k[1]] PROVE Shown(i, k)'
    <3>1. Shown(i, k) /\ (k \in Visible => k \in Visible')
      BY <2>2, CurrentStaysVisible DEF ShownInv, ListedAreShown
    <3> QED
      BY <2>1, <3>1 DEF SameLocals, Shown, Ahead, Noted
  <2>3. listed'[i] = listed[i]
    BY <2>1 DEF SameLocals
  <2>4. \A k \in listed[i] : k[2] <= epoch[k[1]]
    BY DEF ShownInv, ListedAreShown
  <2> QED
    BY <1>0, <2>2, <2>3, <2>4 DEF ListedAreShown
<1>2. ASSUME NEW k \in listed'[j]
      PROVE  k[2] <= epoch[k[1]] /\ (k[2] = epoch[k[1]] => Shown(j, k)')
  <2>1. k \in RowKeys /\ epoch[k[1]] \in UidValidities
    BY <1>0 DEF JobTypeOK, AllInv, TypeInv, TypeOK, ServerTypeOK, RowKeys
  <2>2. k \in listed[j] => k[2] <= epoch[k[1]] /\ (k[2] = epoch[k[1]] => Shown(j, k))
    BY DEF ShownInv, ListedAreShown
  <2>3. k \in listed[j] \/ k[2] = epoch[k[1]]
    BY ListedStep DEF AllInv
  <2>4. k[2] <= epoch[k[1]]
    BY <2>1, <2>2, <2>3 DEF UidValidities
  <2>5. k[2] = epoch[k[1]] => Shown(j, k)'
    BY <2>1, <2>2, OwnKeysStayShown
  <2> QED
    BY <2>4, <2>5
<1> QED
  BY <1>0, <1>1, <1>2 DEF ShownInv, ListedAreShown

LEMMA ShownStep == ASSUME AllInv, ShownInv, [Next]_vars PROVE ShownInv'
<1>1. ASSUME NEW j \in Jobs, RequestSync(j) \/ JobStep(j) PROVE ShownInv'
  BY <1>1, ShownJobStep
<1>2. CASE ServerStep /\ UNCHANGED <<storeVars, jobVars, userVars, faults>>
  <2>1. ASSUME NEW j \in Jobs, NEW k \in listed[j]
        PROVE  k[2] <= epoch'[k[1]] /\ (k[2] = epoch'[k[1]] => k[2] = epoch[k[1]])
    <3>1. k[1] \in Folders /\ k[2] \in UidValidities /\ epoch[k[1]] \in UidValidities
      BY ListedKeys DEF AllInv
    <3>2. epoch[k[1]] <= epoch'[k[1]] /\ epoch'[k[1]] \in UidValidities
      BY <1>2, <3>1, EpochsGrow, ServerStepTypes DEF AllInv, TypeInv, TypeOK, ServerTypeOK
    <3>3. k[2] <= epoch[k[1]]
      BY DEF ShownInv, ListedAreShown
    <3> QED
      BY <3>1, <3>2, <3>3 DEF UidValidities
  <2>2. UNCHANGED <<messages, pc, cur, uv, uids, errors, folderErr, listed>>
    BY <1>2 DEF storeVars, jobVars, runVars, folderVars, seenVars
  <2> QED
    BY <2>1, <2>2 DEF ShownInv, ListedAreShown, Shown, Ahead, Noted, Visible, Stored
<1>3. CASE Crash
  BY <1>3 DEF Crash, Discard, Wiped, ShownInv, ListedAreShown
<1>4. CASE SaveSelectedFolders \/ UNCHANGED vars
  <2>1. UNCHANGED <<messages, epoch, pc, cur, uv, uids, errors, folderErr, listed>>
    BY <1>4 DEF SaveSelectedFolders, vars, serverVars, storeVars, rowVars, jobVars, runVars, folderVars,
       seenVars
  <2> QED
    BY <2>1 DEF ShownInv, ListedAreShown, Shown, Ahead, Noted, Visible, Stored
<1> QED
  BY <1>1, <1>2, <1>3, <1>4 DEF Next

LEMMA ShownMeansCompleted ==
  ASSUME AllInv, ShownInv
  PROVE  CompletedMeansShown
<1> SUFFICES ASSUME NEW j \in Jobs, pc[j] = "finish", ~errors[j],
                    NEW k \in listed[j], k[2] = epoch[k[1]]
             PROVE  k \in Visible /\ messages[k].origin = [folder |-> k[1], epoch |-> k[2]]
  BY DEF CompletedMeansShown
<1>1. k \in Visible
  BY DEF ShownInv, ListedAreShown, Shown, Ahead, Noted, FolderSteps
<1>2. k \in Stored
  BY <1>1 DEF Visible
<1>3. messages[k].origin \in Origins /\ k[2] \in UidValidities
  BY <1>2, StoredKeys, ListedKeys DEF AllInv
<1>4. /\ messages[k].origin.folder = k[1]
      /\ k[2] <= messages[k].origin.epoch /\ messages[k].origin.epoch <= k[2]
  BY <1>2 DEF AllInv, RowInv, RowsLabelled, RowLabelled
<1> QED
  BY <1>1, <1>3, <1>4 DEF Origins, UidValidities

\* A run that is about to answer "completed" shows, each with its own content,
\* every message its searches returned whose mailbox has not been replaced: no
\* job that is elsewhere hides or overwrites one.
THEOREM CompletedShowsAll == Spec /\ []Apart => []CompletedMeansShown
<1>1. Init => ShownInv
  BY DEF Init, JobInit, ShownInv, ListedAreShown
<1>2. AllInv /\ ShownInv /\ [Next]_vars => ShownInv'
  BY ShownStep
<1>3. AllInv /\ ShownInv => CompletedMeansShown
  BY ShownMeansCompleted
<1> QED
  BY <1>1, <1>2, <1>3, FinalInvHolds, PTL DEF Spec

-----------------------------------------------------------------------------
(***************************************************************************)
(* The status entry, as long as only the mail side fails.                  *)
(***************************************************************************)

OnlyMailFails == FaultKinds \cap {"locked", "credential", "crash"} = {}

LEMMA EndingSteps ==
  ASSUME TypeInv, NEW j \in Jobs, RequestSync(j) \/ JobStep(j)
  PROVE  \/ Running(j)'
         \/ NoFoldersSelected(j) \/ ConnectRaisesValueError(j) \/ Finish(j)
         \/ ReportFailure(j) \/ ReportFailureFails(j)
<1> USE DEF TypeInv, TypeOK, JobTypeOK, Goto, Running
<1>1. CASE RequestSync(j) \/ ListSelectedFolders(j) \/ Announce(j) \/ Connect(j)
  BY <1>1 DEF RequestSync, ListSelectedFolders, Announce, Connect
<1>2. CASE ConnectFails(j) \/ RunStoreFails(j)
  BY <1>2 DEF ConnectFails, RunStoreFails, Raise
<1>3. ASSUME NEW f \in Folders, Search(j, f) \/ SearchFails(j, f) PROVE Running(j)'
  BY <1>3 DEF Search, SearchFails, FailFolder
<1>4. CASE FolderStoreFails(j) \/ FinishFolder(j) \/ CloseFolder(j)
  BY <1>4 DEF FolderStoreFails, FailFolder, FinishFolder, CloseFolder
<1>5. CASE MarkStale(j) \/ ReadMissing(j) \/ PublishProgress(j) \/ NextMessage(j) \/ Save(j)
  BY <1>5 DEF MarkStale, ReadMissing, PublishProgress, NextMessage, Save
<1>6. CASE FetchFindsNothing(j) \/ FetchRefused(j) \/ FetchLosesConnection(j)
           \/ FetchNotPossible(j) \/ ReconnectFails(j) \/ SaveFails(j)
  BY <1>6 DEF FetchFindsNothing, FetchRefused, FetchLosesConnection, FetchNotPossible,
     ReconnectFails, SaveFails, Interrupt, RetryLater, FailMessage
<1>7. CASE Fetch(j) \/ Reconnect(j)
  BY <1>7 DEF Fetch, Reconnect, FailMessage
<1> QED
  BY <1>1, <1>2, <1>3, <1>4, <1>5, <1>6, <1>7, JobCases

LEMMA StatusStep ==
  ASSUME OnlyMailFails, TypeInv, StatusSettled, [Next]_vars
  PROVE  StatusSettled'
<1>1. ASSUME NEW j \in Jobs, RequestSync(j) \/ JobStep(j) PROVE StatusSettled'
  <2>1. CASE Running(j)'
    BY <2>1 DEF StatusSettled
  <2>2. CASE NoFoldersSelected(j) \/ ReportFailure(j) \/ Finish(j)
    BY <2>2 DEF NoFoldersSelected, ReportFailure, Finish, Verdict, SetSyncStatus, StatusSettled
  <2>3. ~ConnectRaisesValueError(j) /\ ~ReportFailureFails(j)
    BY DEF OnlyMailFails, ConnectRaisesValueError, ReportFailureFails, Fault
  <2> QED
    BY <1>1, <2>1, <2>2, <2>3, EndingSteps
<1>2. ~Crash
  BY DEF OnlyMailFails, Crash, Fault
<1>3. CASE UNCHANGED <<status, jobVars>>
  BY <1>3 DEF StatusSettled, Running, jobVars
<1> QED
  BY <1>1, <1>2, <1>3 DEF Next, vars, storeVars, SaveSelectedFolders

\* However many requests overlap, once all are answered the status entry is not
\* left at "running", if neither the database nor the process fails.
THEOREM StatusIsSettled ==
  ASSUME OnlyMailFails
  PROVE  Spec => []StatusSettled
<1>1. Init => StatusSettled
  BY DEF Init, StoreInit, StatusSettled
<1>2. TypeInv /\ StatusSettled /\ [Next]_vars => StatusSettled'
  BY StatusStep
<1> QED
  BY <1>1, <1>2, TypeCorrectness, PTL DEF Spec

-----------------------------------------------------------------------------
(***************************************************************************)
(* The byte budget, as long as the database does not fail.  What a job     *)
(* stored is what its two counters say, and a message is begun only below  *)
(* the budget.                                                             *)
(***************************************************************************)

Counted(j) ==
  /\ spent[j] = total[j] + folderBytes[j]
  /\ pc[j] \in {"none", "select", "announce", "empty", "connect"} => spent[j] = 0
  /\ pc[j] \in {"search", "mark", "missing"} => folderBytes[j] = 0 /\ total[j] < MaxRunBytes
  /\ pc[j] \in FetchSteps => spent[j] < MaxRunBytes

BudgetInv == BudgetHolds /\ \A j \in Jobs : Counted(j)

LEMMA BelowIsWithin ==
  ASSUME NEW n \in Nat, n < MaxRunBytes
  PROVE  \E last \in {0} \cup {MessageBytes[u] : u \in Uids} : n < MaxRunBytes + last
<1>1. n < MaxRunBytes + 0
  BY SyncAssumption
<1> QED
  BY <1>1

LEMMA FailMessageIsCounted ==
  ASSUME TypeInv, BudgetInv, NEW j \in Jobs, FailMessage(j), LeavesTheRest
  PROVE  BudgetInv'
BY DEF TypeInv, TypeOK, JobTypeOK, BudgetInv, BudgetHolds, Counted, FailMessage, LeavesTheRest, Goto,
   FetchSteps, runVars

LEMMA RetryIsCounted ==
  ASSUME TypeInv, BudgetInv, NEW j \in Jobs, pc[j] \in FetchSteps, RetryLater(j), LeavesTheRest
  PROVE  BudgetInv'
BY DEF TypeInv, TypeOK, JobTypeOK, BudgetInv, BudgetHolds, Counted, RetryLater, LeavesTheRest, Goto,
   FetchSteps, runVars, folderVars

LEMMA DiscardIsCounted ==
  ASSUME TypeInv, BudgetInv, NEW gone \in SUBSET Jobs, Discard(gone)
  PROVE  BudgetInv'
<1>1. ASSUME NEW j \in Jobs PROVE Counted(j)'
  BY DEF TypeInv, TypeOK, JobTypeOK, BudgetInv, Counted, Discard, Wiped, FetchSteps
<1>2. ASSUME NEW j \in Jobs
      PROVE \E last \in {0} \cup {MessageBytes[u] : u \in Uids} : spent'[j] < MaxRunBytes + last
  <2>1. CASE spent'[j] = 0
    BY <2>1, BelowIsWithin, SyncAssumption
  <2>2. CASE spent'[j] = spent[j]
    BY <2>2 DEF BudgetInv, BudgetHolds
  <2> QED
    BY <2>1, <2>2 DEF Discard, Wiped
<1> QED
  BY <1>1, <1>2 DEF BudgetInv, BudgetHolds

LEMMA BudgetStep ==
  ASSUME "locked" \notin FaultKinds, TypeInv, BudgetInv, NEW j \in Jobs, RequestSync(j) \/ JobStep(j)
  PROVE  BudgetInv'
<1> USE SyncAssumption
        DEF TypeInv, TypeOK, JobTypeOK, BudgetInv, BudgetHolds, Counted, Goto, FetchSteps,
            runVars, folderVars, fetchVars, seenVars
<1>1. CASE RequestSync(j) \/ ListSelectedFolders(j) \/ Announce(j)
  BY <1>1 DEF RequestSync, ListSelectedFolders, Announce, Running
<1>2. CASE Connect(j)
  <2>1. total[j] = 0 /\ folderBytes[j] = 0 /\ spent[j] = 0
    BY <1>2 DEF Connect
  <2>2. UNCHANGED <<total, folderBytes, spent>> /\ pc' = [pc EXCEPT ![j] = "search"]
    BY <1>2 DEF Connect
  <2>3. ASSUME NEW k \in Jobs PROVE Counted(k)'
    BY <2>1, <2>2
  <2>4. BudgetHolds'
    BY <2>2
  <2> QED
    BY <2>3, <2>4
<1>3. CASE ConnectFails(j) \/ RunStoreFails(j)
  BY <1>3 DEF ConnectFails, RunStoreFails, Raise
<1>4. CASE \/ NoFoldersSelected(j) \/ ConnectRaisesValueError(j) \/ Finish(j)
           \/ ReportFailure(j) \/ ReportFailureFails(j)
  <2>1. Discard({j}) /\ {j} \in SUBSET Jobs
    BY <1>4 DEF NoFoldersSelected, ConnectRaisesValueError, Finish, ReportFailure,
       ReportFailureFails, Return
  <2> QED
    BY <2>1, DiscardIsCounted
<1>5. ASSUME NEW f \in Folders, Search(j, f) \/ SearchFails(j, f) PROVE BudgetInv'
  BY <1>5 DEF Search, SearchFails, FailFolder
<1>6. CASE FolderStoreFails(j)
  BY <1>6 DEF FolderStoreFails, Fault
<1>7. CASE MarkStale(j) \/ ReadMissing(j) \/ PublishProgress(j) \/ FinishFolder(j)
  BY <1>7 DEF MarkStale, ReadMissing, PublishProgress, FinishFolder
<1>8. CASE NextMessage(j)
  BY <1>8 DEF NextMessage, MessageLoopEnds, BudgetReached
<1>9. CASE FetchFindsNothing(j) \/ FetchRefused(j) \/ FetchLosesConnection(j) \/ FetchNotPossible(j)
           \/ ReconnectFails(j) \/ SaveFails(j)
  BY <1>9, FailMessageIsCounted, RetryIsCounted
  DEF FetchFindsNothing, FetchRefused, FetchLosesConnection, FetchNotPossible, ReconnectFails,
      SaveFails, Interrupt
<1>10. CASE Fetch(j)
  BY <1>10 DEF Fetch, LeavesTheRest
<1>11. CASE Reconnect(j)
  <2>1. CASE epoch[cur[j]] = uv[j]
    BY <1>11, <2>1 DEF Reconnect, LeavesTheRest
  <2>2. CASE epoch[cur[j]] # uv[j]
    BY <1>11, <2>2, FailMessageIsCounted DEF Reconnect
  <2> QED
    BY <2>1, <2>2
<1>12. CASE Save(j)
  <2>1. uid[j] \in Uids /\ spent[j] < MaxRunBytes
    BY <1>12 DEF Save, Placed
  <2>2. MessageBytes[uid[j]] \in Nat
    BY <2>1
  <2>3. spent'[j] < MaxRunBytes + MessageBytes[uid[j]]
    BY <1>12, <2>1, <2>2 DEF Save
  <2>4. BudgetHolds'
    BY <1>12, <2>1, <2>2, <2>3 DEF Save
  <2>5. ASSUME NEW k \in Jobs PROVE Counted(k)'
    BY <1>12, <2>2 DEF Save
  <2> QED
    BY <2>4, <2>5
<1>13. CASE CloseFolder(j)
  BY <1>13 DEF CloseFolder
<1> QED
  BY <1>1, <1>2, <1>3, <1>4, <1>5, <1>6, <1>7, <1>8, <1>9, <1>10, <1>11, <1>12, <1>13, JobCases

\* If the database does not fail inside a folder, a run stores less than its
\* budget and one message, whatever else fails and however many runs there are.
THEOREM BudgetIsKept ==
  ASSUME "locked" \notin FaultKinds
  PROVE  Spec => []BudgetHolds
<1>1. Init => BudgetInv
  <2> SUFFICES ASSUME Init PROVE BudgetInv
    OBVIOUS
  <2>1. \A j \in Jobs : Counted(j)
    BY DEF Init, JobInit, Counted, FetchSteps
  <2>2. \A j \in Jobs : spent[j] \in Nat /\ spent[j] < MaxRunBytes
    BY SyncAssumption DEF Init, JobInit
  <2> QED
    BY <2>1, <2>2, BelowIsWithin DEF BudgetInv, BudgetHolds
<1>2. TypeInv /\ BudgetInv /\ [Next]_vars => BudgetInv'
  <2> SUFFICES ASSUME TypeInv, BudgetInv, [Next]_vars PROVE BudgetInv'
    OBVIOUS
  <2>1. ASSUME NEW j \in Jobs, RequestSync(j) \/ JobStep(j) PROVE BudgetInv'
    BY <2>1, BudgetStep
  <2>2. CASE Crash
    BY <2>2, DiscardIsCounted DEF Crash
  <2>3. CASE UNCHANGED jobVars
    BY <2>3 DEF BudgetInv, BudgetHolds, Counted, jobVars, runVars, folderVars
  <2> QED
    BY <2>1, <2>2, <2>3 DEF Next, vars, SaveSelectedFolders
<1>3. BudgetInv => BudgetHolds
  BY DEF BudgetInv
<1> QED
  BY <1>1, <1>2, <1>3, TypeCorrectness, PTL DEF Spec
=============================================================================
