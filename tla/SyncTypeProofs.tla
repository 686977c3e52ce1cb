--------------------------- MODULE SyncTypeProofs ---------------------------
(***************************************************************************)
(* Type correctness of SyncSystem for every value of the constants.        *)
(* TypeOK is not inductive: that a sum of bytes stays a number, and that a *)
(* row is written under a key, needs the locals of a job to be set by the  *)
(* time the step that reads them is reached.  Placed says so.              *)
(***************************************************************************)
EXTENDS SyncSystem, TLAPS

FetchSteps == {"try", "reconnect", "save"}

Placed(j) ==
  /\ pc[j] \in FolderSteps \cup {"close"} => cur[j] \in Folders
  /\ pc[j] \in FolderSteps => uv[j] \in UidValidities
  /\ pc[j] \in FetchSteps => uid[j] \in Uids
  /\ pc[j] = "reconnect" => tries[j] < Attempts
  /\ pc[j] = "save" => fetched[j] \in Origins

TypeInv == TypeOK /\ \A j \in Jobs : Placed(j)

\* The steps of a job, one disjunct per action, under one name.
LEMMA JobCases ==
  ASSUME NEW j \in Jobs, JobStep(j)
  PROVE  \/ ListSelectedFolders(j) \/ Announce(j) \/ NoFoldersSelected(j)
         \/ Connect(j) \/ ConnectFails(j) \/ ConnectRaisesValueError(j)
         \/ (\E f \in Folders : Search(j, f)) \/ (\E f \in Folders : SearchFails(j, f))
         \/ NextMessage(j) \/ Fetch(j) \/ FetchFindsNothing(j) \/ FetchRefused(j)
         \/ FetchLosesConnection(j) \/ FetchNotPossible(j)
         \/ Reconnect(j) \/ ReconnectFails(j)
         \/ MarkStale(j) \/ ReadMissing(j) \/ PublishProgress(j)
         \/ Save(j) \/ SaveFails(j) \/ FolderStoreFails(j) \/ RunStoreFails(j)
         \/ FinishFolder(j) \/ CloseFolder(j) \/ Finish(j)
         \/ ReportFailure(j) \/ ReportFailureFails(j)
BY DEF JobStep, StartCall, FolderCall, FetchCall, StoreCall, EndCall

LEMMA SessionShapes ==
  /\ \A s \in {"closed", "dead", "nonauth", "auth"} : NotOpen(s) \in Sessions
  /\ epoch \in [Folders -> UidValidities] => \A f \in Folders : Examined(f) \in Sessions
BY DEF NotOpen, Examined, Sessions

-----------------------------------------------------------------------------
(***************************************************************************)
(* The locals of the jobs.                                                 *)
(***************************************************************************)

LEMMA DiscardKeepsTypes ==
  ASSUME JobTypeOK, NEW gone \in SUBSET Jobs, Discard(gone), result' \in [Jobs -> Results]
  PROVE  JobTypeOK'
<1>1. /\ pc' \in [Jobs -> Steps] /\ window' \in [Jobs -> SUBSET Uids]
      /\ todo' \in [Jobs -> SUBSET Folders] /\ uids' \in [Jobs -> SUBSET Uids]
  BY DEF JobTypeOK, Discard, Wiped, Steps
<1>2. /\ total' \in [Jobs -> Nat] /\ errors' \in [Jobs -> BOOLEAN]
      /\ folderBytes' \in [Jobs -> Nat] /\ folderErr' \in [Jobs -> BOOLEAN]
  BY DEF JobTypeOK, Discard, Wiped
<1>3. /\ cur' \in [Jobs -> Folders \cup {NoFolder}]
      /\ uv' \in [Jobs -> UidValidities \cup {0}]
      /\ fetched' \in [Jobs -> Origins \cup {NoRow}]
  BY DEF JobTypeOK, Discard, Wiped
<1>4. uid' \in [Jobs -> Uids \cup {0}] /\ tries' \in [Jobs -> 0 .. Attempts]
  BY SyncAssumption DEF JobTypeOK, Discard, Wiped
<1>5. /\ snapshot' \in [Jobs -> SUBSET Folders] /\ scanned' \in [Jobs -> SUBSET Folders]
      /\ listed' \in [Jobs -> SUBSET RowKeys] /\ spent' \in [Jobs -> Nat]
  BY DEF JobTypeOK, Discard, Wiped
<1> QED
  BY <1>1, <1>2, <1>3, <1>4, <1>5 DEF JobTypeOK

LEMMA FailMessageKeepsTypes ==
  ASSUME TypeInv, NEW j \in Jobs, FailMessage(j), LeavesTheRest
  PROVE  JobTypeOK'
BY SyncAssumption DEF TypeInv, TypeOK, JobTypeOK, FailMessage, LeavesTheRest, Goto, Steps,
   FolderSteps, runVars, seenVars

LEMMA RetryKeepsTypes ==
  ASSUME TypeInv, NEW j \in Jobs, RetryLater(j), LeavesTheRest
  PROVE  JobTypeOK'
BY DEF TypeInv, TypeOK, JobTypeOK, RetryLater, LeavesTheRest, Goto, Steps, FolderSteps,
   runVars, folderVars, fetchVars, seenVars

LEMMA JobTypes ==
  ASSUME TypeInv, NEW j \in Jobs, RequestSync(j) \/ JobStep(j)
  PROVE  JobTypeOK'
<1> USE DEF TypeInv, TypeOK, JobTypeOK, Goto, Steps, FolderSteps,
            runVars, folderVars, fetchVars, seenVars
<1>1. CASE RequestSync(j)
  <2>1. PICK w \in Windows : window' = [window EXCEPT ![j] = w]
    BY <1>1 DEF RequestSync
  <2>2. w \in SUBSET Uids
    BY SyncAssumption
  <2>3. window' \in [Jobs -> SUBSET Uids]
    BY <2>1, <2>2
  <2>4. UNCHANGED <<todo, total, errors, folderVars, fetchVars, seenVars, spent>>
    BY <1>1 DEF RequestSync
  <2>5. pc' \in [Jobs -> Steps] /\ result' \in [Jobs -> Results]
    BY <1>1 DEF RequestSync, Results
  <2> QED
    BY <2>3, <2>4, <2>5
<1>2. CASE ListSelectedFolders(j)
  BY <1>2 DEF ListSelectedFolders, SelectedFolders, StoreTypeOK
<1>3. CASE Announce(j)
  BY <1>3 DEF Announce
<1>4. CASE NoFoldersSelected(j)
  BY <1>4, DiscardKeepsTypes DEF NoFoldersSelected, Return, Results
<1>5. CASE Connect(j)
  BY <1>5 DEF Connect
<1>6. CASE ConnectFails(j)
  BY <1>6 DEF ConnectFails, Raise
<1>7. CASE ConnectRaisesValueError(j)
  BY <1>7, DiscardKeepsTypes DEF ConnectRaisesValueError, Return, Results
<1>8. ASSUME NEW f \in Folders, Search(j, f) PROVE JobTypeOK'
  <2>1. epoch[f] \in UidValidities /\ SearchResult(f, window[j]) \in SUBSET Uids
    BY DEF ServerTypeOK, SearchResult
  <2>2. KeysOf(f, epoch[f], SearchResult(f, window[j])) \in SUBSET RowKeys
    BY <2>1 DEF KeysOf, RowKeys
  <2> QED
    BY <1>8, <2>1, <2>2 DEF Search
<1>9. ASSUME NEW f \in Folders, SearchFails(j, f) PROVE JobTypeOK'
  BY <1>9 DEF SearchFails, FailFolder
<1>10. CASE NextMessage(j)
  BY <1>10, SyncAssumption DEF NextMessage
<1>11. CASE Fetch(j)
  <2>1. session[j] \in Sessions /\ session[j].state = "selected"
    BY <1>11 DEF Fetch, ServesUid, ServerTypeOK
  <2>2. OriginOf(session[j]) \in Origins
    BY <2>1 DEF OriginOf, Origins, Sessions
  <2> QED
    BY <1>11, <2>2 DEF Fetch, LeavesTheRest
<1>12. CASE FetchFindsNothing(j)
  BY <1>12, FailMessageKeepsTypes, RetryKeepsTypes DEF FetchFindsNothing, Interrupt
<1>13. CASE FetchRefused(j)
  BY <1>13, FailMessageKeepsTypes, RetryKeepsTypes DEF FetchRefused, Interrupt
<1>14. CASE FetchLosesConnection(j)
  BY <1>14, FailMessageKeepsTypes, RetryKeepsTypes DEF FetchLosesConnection, Interrupt
<1>15. CASE FetchNotPossible(j)
  BY <1>15, FailMessageKeepsTypes DEF FetchNotPossible
<1>16. CASE Reconnect(j)
  <2>1. CASE epoch[cur[j]] = uv[j]
    <3>1. /\ tries' = [tries EXCEPT ![j] = tries[j] + 1]
          /\ pc[j] = "reconnect" /\ Goto(j, "try")
          /\ UNCHANGED <<result, runVars, folderVars, uid, fetched, seenVars, spent>>
      BY <1>16, <2>1 DEF Reconnect, NextAttempt, LeavesTheRest
    <3>2. tries' \in [Jobs -> 0 .. Attempts]
      <4>1. tries[j] + 1 \in 0 .. Attempts
        BY <3>1, SyncAssumption DEF Placed
      <4> QED
        BY <3>1, <4>1
    <3>3. pc' \in [Jobs -> Steps]
      BY <3>1
    <3> QED
      BY <3>1, <3>2, <3>3
  <2>2. CASE epoch[cur[j]] # uv[j]
    BY <1>16, <2>2, FailMessageKeepsTypes DEF Reconnect
  <2> QED
    BY <2>1, <2>2
<1>17. CASE ReconnectFails(j)
  BY <1>17, FailMessageKeepsTypes DEF ReconnectFails
<1>18. CASE MarkStale(j)
  BY <1>18 DEF MarkStale
<1>19. CASE ReadMissing(j)
  BY <1>19 DEF ReadMissing, MissingUids
<1>20. CASE PublishProgress(j)
  BY <1>20 DEF PublishProgress
<1>21. CASE Save(j)
  BY <1>21, SyncAssumption DEF Save, Placed, FetchSteps
<1>22. CASE SaveFails(j)
  BY <1>22, FailMessageKeepsTypes DEF SaveFails
<1>23. CASE FolderStoreFails(j)
  BY <1>23 DEF FolderStoreFails, FailFolder
<1>24. CASE RunStoreFails(j)
  BY <1>24 DEF RunStoreFails, Raise
<1>25. CASE FinishFolder(j)
  BY <1>25 DEF FinishFolder
<1>26. CASE CloseFolder(j)
  BY <1>26 DEF CloseFolder, NoteErrors
<1>27. CASE Finish(j)
  BY <1>27, DiscardKeepsTypes DEF Finish, Return, Results, Verdict, Verdicts
<1>28. CASE ReportFailure(j)
  BY <1>28, DiscardKeepsTypes DEF ReportFailure, Return, Results
<1>29. CASE ReportFailureFails(j)
  BY <1>29, DiscardKeepsTypes DEF ReportFailureFails, Return, Results
<1> QED
  BY <1>1, <1>2, <1>3, <1>4, <1>5, <1>6, <1>7, <1>8, <1>9, <1>10, <1>11, <1>12, <1>13,
     <1>14, <1>15, <1>16, <1>17, <1>18, <1>19, <1>20, <1>21, <1>22, <1>23, <1>24, <1>25,
     <1>26, <1>27, <1>28, <1>29, JobCases

-----------------------------------------------------------------------------
(***************************************************************************)
(* The connections, the store and the faults.                              *)
(***************************************************************************)

LEMMA FaultKeepsType ==
  ASSUME FaultsTypeOK, NEW kind, Fault(kind)
  PROVE  FaultsTypeOK'
BY BoundsAssumption DEF FaultsTypeOK, Fault

LEMMA DiscardKeepsSessions ==
  ASSUME ServerTypeOK, NEW gone \in SUBSET Jobs, Discard(gone)
  PROVE  session' \in [Jobs -> Sessions]
BY SessionShapes DEF ServerTypeOK, Discard, Wiped

LEMMA SessionTypes ==
  ASSUME TypeInv, NEW j \in Jobs, RequestSync(j) \/ JobStep(j)
  PROVE  session' \in [Jobs -> Sessions]
<1>0. /\ session \in [Jobs -> Sessions] /\ epoch \in [Folders -> UidValidities]
      /\ ServerTypeOK
  BY DEF TypeInv, TypeOK, ServerTypeOK
<1>1. CASE UNCHANGED session
  BY <1>0, <1>1
<1>2. CASE \E gone \in SUBSET Jobs : Discard(gone)
  BY <1>0, <1>2, DiscardKeepsSessions
<1>3. CASE Connect(j) \/ FetchLosesConnection(j) \/ CloseFolder(j)
  BY <1>0, <1>3, SessionShapes DEF Connect, FetchLosesConnection, CloseFolder
<1>4. ASSUME NEW f \in Folders, Search(j, f) PROVE session' \in [Jobs -> Sessions]
  BY <1>0, <1>4, SessionShapes DEF Search, OpenMailbox
<1>5. ASSUME NEW f \in Folders, SearchFails(j, f) PROVE session' \in [Jobs -> Sessions]
  BY <1>0, <1>5, SessionShapes DEF SearchFails, FailedSearch
<1>6. CASE Reconnect(j) \/ ReconnectFails(j)
  <2>1. cur[j] \in Folders
    BY <1>6 DEF TypeInv, Placed, FolderSteps, Reconnect, ReconnectFails
  <2> QED
    BY <1>0, <1>6, <2>1, SessionShapes DEF Reconnect, OpenMailbox, ReconnectFails, FailedReconnect
<1> QED
  <2>1. CASE RequestSync(j)
    BY <1>1, <2>1 DEF RequestSync
  <2>2. CASE \/ ListSelectedFolders(j) \/ Announce(j) \/ ConnectFails(j) \/ NextMessage(j)
             \/ Fetch(j) \/ FetchFindsNothing(j) \/ FetchRefused(j) \/ FetchNotPossible(j)
    BY <1>1, <2>2 DEF ListSelectedFolders, Announce, ConnectFails, Raise, NextMessage,
       Fetch, FetchFindsNothing, FetchRefused, FetchNotPossible
  <2>3. CASE \/ MarkStale(j) \/ ReadMissing(j) \/ PublishProgress(j) \/ Save(j) \/ SaveFails(j)
             \/ FolderStoreFails(j) \/ RunStoreFails(j) \/ FinishFolder(j)
    BY <1>1, <2>3 DEF MarkStale, ReadMissing, PublishProgress, Save, SaveFails,
       FolderStoreFails, RunStoreFails, Raise, FinishFolder
  <2>4. CASE \/ NoFoldersSelected(j) \/ ConnectRaisesValueError(j) \/ Finish(j)
             \/ ReportFailure(j) \/ ReportFailureFails(j)
    <3>1. Discard({j}) /\ {j} \in SUBSET Jobs
      BY <2>4 DEF NoFoldersSelected, ConnectRaisesValueError, Finish, ReportFailure,
         ReportFailureFails, Return
    <3> QED
      BY <1>2, <3>1
  <2> QED
    BY <2>1, <2>2, <2>3, <2>4, <1>3, <1>4, <1>5, <1>6, JobCases

LEMMA StoreTypes ==
  ASSUME TypeInv, NEW j \in Jobs, RequestSync(j) \/ JobStep(j)
  PROVE  StoreTypeOK' /\ FaultsTypeOK' /\ UNCHANGED serverVars
<1> USE DEF TypeInv, TypeOK, StoreTypeOK, FaultsTypeOK, storeVars, rowVars, SetSyncStatus
<1>1. CASE RequestSync(j) \/ ListSelectedFolders(j) \/ NextMessage(j) \/ Connect(j)
  BY <1>1 DEF RequestSync, ListSelectedFolders, NextMessage, Connect
<1>2. CASE Announce(j) \/ NoFoldersSelected(j) \/ PublishProgress(j) \/ CloseFolder(j)
           \/ Finish(j) \/ ReportFailure(j)
  BY <1>2 DEF Announce, NoFoldersSelected, PublishProgress, CloseFolder, Finish, ReportFailure,
     Statuses, Verdict
<1>3. CASE ConnectFails(j) \/ ConnectRaisesValueError(j) \/ RunStoreFails(j)
           \/ ReportFailureFails(j) \/ FolderStoreFails(j)
  BY <1>3, FaultKeepsType DEF ConnectFails, ConnectRaisesValueError, RunStoreFails,
     ReportFailureFails, FolderStoreFails, Raise, FailFolder
<1>4. ASSUME NEW f \in Folders, Search(j, f) \/ SearchFails(j, f)
      PROVE StoreTypeOK' /\ FaultsTypeOK' /\ UNCHANGED serverVars
  BY <1>4, FaultKeepsType DEF Search, SearchFails, FailedSearch, FailFolder
<1>5. CASE Fetch(j) \/ FetchFindsNothing(j) \/ FetchRefused(j) \/ FetchLosesConnection(j)
           \/ FetchNotPossible(j) \/ Reconnect(j) \/ ReconnectFails(j) \/ SaveFails(j)
  BY <1>5, FaultKeepsType DEF Fetch, FetchFindsNothing, FetchRefused, FetchLosesConnection,
     FetchNotPossible, Reconnect, ReconnectFails, FailedReconnect, SaveFails, LeavesTheRest
<1>6. CASE MarkStale(j)
  <2>1. messages' \in [RowKeys -> Rows \cup {NoRow}]
    BY <1>6 DEF MarkStale, MarkFolderStale, StaleRows, Stored, Rows
  <2> QED
    BY <1>6, <2>1 DEF MarkStale
<1>7. CASE ReadMissing(j)
  BY <1>7 DEF ReadMissing
<1>8. CASE Save(j)
  <2>1. RowKey(j) \in RowKeys /\ fetched[j] \in Origins
    BY <1>8 DEF Save, RowKey, RowKeys, Placed, FolderSteps, FetchSteps
  <2>2. messages' \in [RowKeys -> Rows \cup {NoRow}]
    BY <1>8, <2>1 DEF Save, SaveMessage, Rows
  <2>3. attachments' \in [RowKeys -> SUBSET Origins]
    BY <1>8, <2>1 DEF Save, SaveMessage
  <2> QED
    BY <1>8, <2>2, <2>3 DEF Save
<1>9. CASE FinishFolder(j)
  BY <1>9 DEF FinishFolder, UpdateFolderSyncResult, Placed, FolderSteps
<1> QED
  BY <1>1, <1>2, <1>3, <1>4, <1>5, <1>6, <1>7, <1>8, <1>9, JobCases

-----------------------------------------------------------------------------
(***************************************************************************)
(* Which locals a step changes.                                            *)
(***************************************************************************)

\* The locals of a job that say how far it is and what it has in hand.
SameLocals(i) ==
  /\ pc'[i] = pc[i] /\ todo'[i] = todo[i] /\ errors'[i] = errors[i]
  /\ cur'[i] = cur[i] /\ uv'[i] = uv[i] /\ uids'[i] = uids[i] /\ folderErr'[i] = folderErr[i]
  /\ uid'[i] = uid[i] /\ tries'[i] = tries[i] /\ fetched'[i] = fetched[i]
  /\ listed'[i] = listed[i]

\* A step of one job leaves the locals of the others alone.
LEMMA OthersStay ==
  ASSUME TypeInv, NEW j \in Jobs, RequestSync(j) \/ JobStep(j), NEW i \in Jobs \ {j}
  PROVE  SameLocals(i)
<1> USE DEF TypeInv, TypeOK, JobTypeOK, SameLocals, Goto, runVars, folderVars, fetchVars, seenVars
<1>1. CASE RequestSync(j) \/ ListSelectedFolders(j) \/ Announce(j) \/ Connect(j)
           \/ ConnectFails(j) \/ RunStoreFails(j)
  BY <1>1 DEF RequestSync, ListSelectedFolders, Announce, Connect, ConnectFails, RunStoreFails, Raise
<1>2. CASE \/ NoFoldersSelected(j) \/ ConnectRaisesValueError(j) \/ Finish(j)
           \/ ReportFailure(j) \/ ReportFailureFails(j)
  <2>1. Discard({j}) /\ i \notin {j}
    BY <1>2 DEF NoFoldersSelected, ConnectRaisesValueError, Finish, ReportFailure,
       ReportFailureFails, Return
  <2> QED
    BY <2>1 DEF Discard, Wiped
<1>3. ASSUME NEW f \in Folders, Search(j, f) \/ SearchFails(j, f)
      PROVE  SameLocals(i)
  BY <1>3 DEF Search, SearchFails, FailFolder
<1>4. CASE FolderStoreFails(j) \/ FinishFolder(j) \/ CloseFolder(j)
  BY <1>4 DEF FolderStoreFails, FailFolder, FinishFolder, CloseFolder
<1>5. CASE MarkStale(j) \/ ReadMissing(j) \/ PublishProgress(j) \/ NextMessage(j) \/ Save(j)
  BY <1>5 DEF MarkStale, ReadMissing, PublishProgress, NextMessage, Save
<1>6. CASE Fetch(j) \/ FetchFindsNothing(j) \/ FetchRefused(j) \/ FetchLosesConnection(j)
           \/ FetchNotPossible(j) \/ Reconnect(j) \/ ReconnectFails(j) \/ SaveFails(j)
  BY <1>6
  DEF Fetch, FetchFindsNothing, FetchRefused, FetchLosesConnection, FetchNotPossible, Reconnect,
      ReconnectFails, SaveFails, LeavesTheRest, Interrupt, RetryLater, FailMessage
<1> QED
  BY <1>1, <1>2, <1>3, <1>4, <1>5, <1>6, JobCases

\* Only a search changes the folder a job is at.
LEMMA FolderStays ==
  ASSUME TypeInv, NEW j \in Jobs, RequestSync(j) \/ JobStep(j)
  PROVE  \/ \E f \in Folders : Search(j, f)
         \/ pc'[j] \in FolderSteps => pc[j] \in FolderSteps /\ cur'[j] = cur[j] /\ uv'[j] = uv[j]
<1> USE DEF TypeInv, TypeOK, JobTypeOK, Goto, FolderSteps, FetchSteps, runVars, folderVars, fetchVars
<1>1. CASE RequestSync(j) \/ ListSelectedFolders(j) \/ Announce(j) \/ Connect(j)
           \/ ConnectFails(j) \/ RunStoreFails(j)
  BY <1>1 DEF RequestSync, ListSelectedFolders, Announce, Connect, ConnectFails, RunStoreFails, Raise
<1>2. CASE \/ NoFoldersSelected(j) \/ ConnectRaisesValueError(j) \/ Finish(j)
           \/ ReportFailure(j) \/ ReportFailureFails(j)
  BY <1>2 DEF NoFoldersSelected, ConnectRaisesValueError, Finish, ReportFailure, ReportFailureFails,
     Return, Discard, Wiped
<1>3. ASSUME NEW f \in Folders, SearchFails(j, f)
      PROVE  pc'[j] \notin FolderSteps
  BY <1>3 DEF SearchFails, FailFolder
<1>4. CASE FolderStoreFails(j) \/ FinishFolder(j) \/ CloseFolder(j)
  BY <1>4 DEF FolderStoreFails, FailFolder, FinishFolder, CloseFolder
<1>5. CASE MarkStale(j) \/ ReadMissing(j) \/ PublishProgress(j) \/ NextMessage(j) \/ Save(j)
  BY <1>5 DEF MarkStale, ReadMissing, PublishProgress, NextMessage, Save
<1>6. CASE Fetch(j) \/ FetchFindsNothing(j) \/ FetchRefused(j) \/ FetchLosesConnection(j)
           \/ FetchNotPossible(j) \/ Reconnect(j) \/ ReconnectFails(j) \/ SaveFails(j)
  BY <1>6
  DEF Fetch, FetchFindsNothing, FetchRefused, FetchLosesConnection, FetchNotPossible, Reconnect,
      ReconnectFails, SaveFails, LeavesTheRest, Interrupt, RetryLater, FailMessage
<1> QED
  BY <1>1, <1>2, <1>3, <1>4, <1>5, <1>6, JobCases

-----------------------------------------------------------------------------
(***************************************************************************)
(* The strengthening, and the theorem.                                     *)
(***************************************************************************)

LEMMA DiscardKeepsPlaced ==
  ASSUME TypeInv, NEW gone \in SUBSET Jobs, Discard(gone)
  PROVE  \A k \in Jobs : Placed(k)'
BY DEF TypeInv, Placed, Discard, Wiped, FolderSteps, FetchSteps

LEMMA FailMessageKeepsPlaced ==
  ASSUME TypeInv, NEW j \in Jobs, pc[j] \in FetchSteps, FailMessage(j)
  PROVE  \A k \in Jobs : Placed(k)'
BY DEF TypeInv, TypeOK, JobTypeOK, Placed, FailMessage, Goto, FolderSteps, FetchSteps

LEMMA InterruptKeepsPlaced ==
  ASSUME TypeInv, NEW j \in Jobs, pc[j] \in FetchSteps, Interrupt(j)
  PROVE  \A k \in Jobs : Placed(k)'
<1>1. CASE tries[j] < Attempts
  BY <1>1 DEF Interrupt, RetryLater, TypeInv, TypeOK, JobTypeOK, Placed, Goto, FolderSteps,
     FetchSteps, folderVars, fetchVars
<1>2. CASE ~(tries[j] < Attempts)
  BY <1>2, FailMessageKeepsPlaced DEF Interrupt
<1> QED
  BY <1>1, <1>2

LEMMA PlacedStep ==
  ASSUME TypeInv, NEW j \in Jobs, RequestSync(j) \/ JobStep(j)
  PROVE  \A k \in Jobs : Placed(k)'
<1> USE DEF TypeInv, TypeOK, JobTypeOK, Placed, Goto, FolderSteps, FetchSteps,
            runVars, folderVars, fetchVars
<1>1. CASE RequestSync(j) \/ ListSelectedFolders(j) \/ Announce(j) \/ Connect(j)
           \/ ConnectFails(j) \/ RunStoreFails(j)
  BY <1>1 DEF RequestSync, ListSelectedFolders, Announce, Connect, ConnectFails,
     RunStoreFails, Raise
<1>2. CASE \/ NoFoldersSelected(j) \/ ConnectRaisesValueError(j) \/ Finish(j)
           \/ ReportFailure(j) \/ ReportFailureFails(j)
  <2>1. Discard({j}) /\ {j} \in SUBSET Jobs
    BY <1>2 DEF NoFoldersSelected, ConnectRaisesValueError, Finish, ReportFailure,
       ReportFailureFails, Return
  <2> QED
    BY <2>1, DiscardKeepsPlaced
<1>3. ASSUME NEW f \in Folders, Search(j, f) PROVE \A k \in Jobs : Placed(k)'
  BY <1>3 DEF Search, ServerTypeOK
<1>4. ASSUME NEW f \in Folders, SearchFails(j, f) PROVE \A k \in Jobs : Placed(k)'
  BY <1>4 DEF SearchFails, FailFolder
<1>5. CASE FolderStoreFails(j)
  BY <1>5 DEF FolderStoreFails, FailFolder
<1>6. CASE MarkStale(j) \/ ReadMissing(j) \/ PublishProgress(j) \/ FinishFolder(j)
  BY <1>6 DEF MarkStale, ReadMissing, PublishProgress, FinishFolder
<1>7. CASE NextMessage(j)
  BY <1>7 DEF NextMessage
<1>8. CASE Fetch(j)
  <2>1. OriginOf(session[j]) \in Origins
    BY <1>8 DEF Fetch, ServesUid, ServerTypeOK, OriginOf, Origins, Sessions
  <2> QED
    BY <1>8, <2>1 DEF Fetch
<1>9. CASE FetchFindsNothing(j) \/ FetchRefused(j) \/ FetchLosesConnection(j)
           \/ FetchNotPossible(j)
  BY <1>9, FailMessageKeepsPlaced, InterruptKeepsPlaced
  DEF FetchFindsNothing, FetchRefused, FetchLosesConnection, FetchNotPossible
<1>10. CASE Reconnect(j)
  <2>1. CASE epoch[cur[j]] = uv[j]
    BY <1>10, <2>1 DEF Reconnect
  <2>2. CASE epoch[cur[j]] # uv[j]
    BY <1>10, <2>2, FailMessageKeepsPlaced DEF Reconnect
  <2> QED
    BY <2>1, <2>2
<1>11. CASE ReconnectFails(j) \/ SaveFails(j)
  BY <1>11, FailMessageKeepsPlaced DEF ReconnectFails, SaveFails
<1>12. CASE Save(j)
  BY <1>12 DEF Save
<1>13. CASE CloseFolder(j)
  BY <1>13 DEF CloseFolder
<1> QED
  BY <1>1, <1>2, <1>3, <1>4, <1>5, <1>6, <1>7, <1>8, <1>9, <1>10, <1>11, <1>12, <1>13, JobCases

LEMMA TypeInvInit == Init => TypeInv
<1> SUFFICES ASSUME Init PROVE TypeInv
  OBVIOUS
<1>1. ServerTypeOK /\ FaultsTypeOK
  BY BoundsAssumption, SessionShapes
  DEF Init, ServerInit, FaultsInit, ServerTypeOK, FaultsTypeOK, Uids, UidValidities
<1>2. StoreTypeOK /\ choice \in SUBSET Folders /\ chosen \in SUBSET Folders
  BY SelectionAssumption DEF Init, StoreInit, StoreTypeOK, Statuses
<1>3. JobTypeOK
  BY SyncAssumption DEF Init, JobInit, JobTypeOK, Steps, Results
<1>4. \A j \in Jobs : Placed(j)
  BY DEF Init, JobInit, Placed, FolderSteps, FetchSteps
<1> QED
  BY <1>1, <1>2, <1>3, <1>4 DEF TypeInv, TypeOK

LEMMA ServerStepTypes ==
  ASSUME TypeInv, ServerStep, UNCHANGED <<storeVars, jobVars, userVars, faults>>
  PROVE  TypeInv'
<1> USE DEF TypeInv, TypeOK, ServerTypeOK
<1>1. ServerTypeOK'
  <2>1. changes' \in 0 .. MaxChanges
    BY BoundsAssumption DEF ServerStep
  <2>2. PICK f \in Folders : Deliver(f) \/ Expunge(f) \/ Recreate(f)
    BY DEF ServerStep
  <2>3. CASE Deliver(f)
    BY <2>1, <2>3, BoundsAssumption DEF Deliver, Uids
  <2>4. CASE Expunge(f)
    BY <2>1, <2>4 DEF Expunge
  <2>5. CASE Recreate(f)
    <3>1. PICK held \in 0 .. MaxUid : /\ mailbox' = [mailbox EXCEPT ![f] = 1 .. held]
                                      /\ uidnext' = [uidnext EXCEPT ![f] = held + 1]
      BY <2>5 DEF Recreate
    <3>2. 1 .. held \in SUBSET Uids /\ held + 1 \in 1 .. MaxUid + 1
      BY BoundsAssumption DEF Uids
    <3>3. epoch' \in [Folders -> UidValidities]
      BY <2>5, BoundsAssumption DEF Recreate, UidValidities
    <3> QED
      BY <2>1, <2>5, <3>1, <3>2, <3>3 DEF Recreate
  <2> QED
    BY <2>2, <2>3, <2>4, <2>5
<1>2. StoreTypeOK' /\ choice' \in SUBSET Folders /\ chosen' \in SUBSET Folders /\ FaultsTypeOK'
  BY DEF StoreTypeOK, storeVars, userVars, FaultsTypeOK
<1>3. JobTypeOK'
  BY DEF JobTypeOK, jobVars, runVars, folderVars, fetchVars, seenVars
<1>4. \A j \in Jobs : Placed(j)'
  BY DEF Placed, jobVars, folderVars, fetchVars
<1> QED
  BY <1>1, <1>2, <1>3, <1>4

LEMMA TypeInvStep == TypeInv /\ [Next]_vars => TypeInv'
<1> SUFFICES ASSUME TypeInv, [Next]_vars PROVE TypeInv'
  OBVIOUS
<1> USE DEF TypeInv, TypeOK
<1>1. CASE ServerStep /\ UNCHANGED <<storeVars, jobVars, userVars, faults>>
  BY <1>1, ServerStepTypes
<1>2. CASE SaveSelectedFolders
  BY <1>2, SelectionAssumption
  DEF SaveSelectedFolders, SetSelectedFolders, ServerTypeOK, StoreTypeOK, JobTypeOK, FaultsTypeOK,
      Placed, serverVars, rowVars, jobVars, runVars, folderVars, fetchVars, seenVars
<1>3. ASSUME NEW j \in Jobs, RequestSync(j) \/ JobStep(j), UNCHANGED userVars PROVE TypeInv'
  BY <1>3, JobTypes, SessionTypes, StoreTypes, PlacedStep DEF userVars, ServerTypeOK, serverVars
<1>4. CASE Crash
  <2>1. JobTypeOK'
    BY <1>4, DiscardKeepsTypes DEF Crash, Wiped, Results, JobTypeOK
  <2>2. session' \in [Jobs -> Sessions] /\ \A j \in Jobs : Placed(j)'
    BY <1>4, DiscardKeepsSessions, DiscardKeepsPlaced DEF Crash
  <2> QED
    BY <1>4, <2>1, <2>2, FaultKeepsType
    DEF Crash, ServerTypeOK, StoreTypeOK, serverVars, storeVars, userVars
<1>5. CASE UNCHANGED vars
  BY <1>5 DEF vars, ServerTypeOK, StoreTypeOK, JobTypeOK, FaultsTypeOK, Placed, serverVars,
     storeVars, userVars, jobVars, runVars, folderVars, fetchVars, seenVars
<1> QED
  BY <1>1, <1>2, <1>3, <1>4, <1>5 DEF Next

\* Every reachable state is well typed and every job's locals are set when a
\* step reads them (sync_service.py:54-240).
THEOREM TypeCorrectness == Spec => []TypeInv
BY TypeInvInit, TypeInvStep, PTL DEF Spec

\* The type invariant the runs check.
THEOREM TypeOKHolds == Spec => []TypeOK
<1>1. TypeInv => TypeOK
  BY DEF TypeInv
<1> QED
  BY <1>1, TypeCorrectness, PTL
=============================================================================
