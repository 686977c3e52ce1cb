-------------------------- MODULE SyncPromiseProofs -------------------------
(***************************************************************************)
(* What a request is promised, for every value of the constants.           *)
(* SyncSystem implements SyncPromise and SyncFace: the initial states map  *)
(* to an initial state and every step to one of their steps, or to none.   *)
(* And each call of a run brings it nearer to its answer.                  *)
(***************************************************************************)
EXTENDS SyncAnswerProofs, FiniteSetTheorems

HeldInv == \A k \in Stored : messages[k].origin \in attachments[k]

AnswerOf == [j \in Jobs |-> IF Running(j) THEN "busy" ELSE result[j]]

LEMMA HeldIsStored == HeldInv => Held = Stored
BY DEF HeldInv, Held

\* What a step of a job does to a request and to what is held.
LEMMA HeldStep ==
  ASSUME TypeInv, HeldInv, NEW j \in Jobs, RequestSync(j) \/ JobStep(j)
  PROVE  /\ HeldInv'
         /\ \/ Stored' = Stored
            \/ Save(j) /\ RowKey(j) \in RowKeys /\ Stored' = Stored \cup {RowKey(j)}
<1>1. CASE /\ Stored' = Stored /\ UNCHANGED attachments
           /\ \A k \in Stored : messages'[k].origin = messages[k].origin
  BY <1>1 DEF HeldInv
<1>2. CASE /\ Save(j) /\ RowKey(j) \in RowKeys /\ Stored' = Stored \cup {RowKey(j)}
           /\ \A k \in RowKeys \ {RowKey(j)} :
                messages'[k] = messages[k] /\ attachments'[k] = attachments[k]
           /\ messages'[RowKey(j)].origin \in attachments'[RowKey(j)]
  <2>1. ASSUME NEW k \in Stored' PROVE messages'[k].origin \in attachments'[k]
    <3>1. CASE k = RowKey(j)
      BY <1>2, <3>1
    <3>2. CASE k # RowKey(j)
      <4>1. k \in Stored /\ k \in RowKeys \ {RowKey(j)}
        BY <1>2, <3>2 DEF Stored
      <4> QED
        BY <1>2, <4>1 DEF HeldInv
    <3> QED
      BY <3>1, <3>2
  <2> QED
    BY <1>2, <2>1 DEF HeldInv
<1> QED
  BY <1>1, <1>2, StoredStep

LEMMA HeldInvStep == TypeInv /\ HeldInv /\ [Next]_vars => HeldInv'
<1> SUFFICES ASSUME TypeInv, HeldInv, [Next]_vars PROVE HeldInv'
  OBVIOUS
<1>1. ASSUME NEW j \in Jobs, RequestSync(j) \/ JobStep(j) PROVE HeldInv'
  BY <1>1, HeldStep
<1>2. CASE UNCHANGED <<messages, attachments>>
  BY <1>2 DEF HeldInv, Stored
<1> QED
  BY <1>1, <1>2 DEF Next, vars, storeVars, rowVars, SaveSelectedFolders, Crash

\* A job's step that neither starts nor ends its request nor searches.
Quiet == UNCHANGED <<listed, result>> /\ \A k \in Jobs : Running(k)' = Running(k)

LEMMA QuietSteps ==
  ASSUME TypeInv, NEW j \in Jobs, JobStep(j)
  PROVE  \/ Quiet
         \/ (\E f \in Folders : Search(j, f))
         \/ (\E a \in Results \ {"none", "completed"} : Return(j, a) /\ ~Save(j))
         \/ Finish(j)
<1> USE DEF TypeInv, TypeOK, JobTypeOK, Quiet, Running, Goto, runVars, folderVars, fetchVars, seenVars
<1>1. CASE ListSelectedFolders(j) \/ Announce(j) \/ Connect(j)
  <2>1. CASE ListSelectedFolders(j)
    BY <2>1 DEF ListSelectedFolders
  <2>2. CASE Announce(j)
    BY <2>2 DEF Announce
  <2>3. CASE Connect(j)
    BY <2>3 DEF Connect
  <2> QED
    BY <1>1, <2>1, <2>2, <2>3
<1>2. CASE ConnectFails(j) \/ RunStoreFails(j)
  BY <1>2 DEF ConnectFails, RunStoreFails, Raise
<1>3. ASSUME NEW f \in Folders, SearchFails(j, f) PROVE Quiet
  BY <1>3 DEF SearchFails, FailFolder
<1>4. CASE FolderStoreFails(j) \/ FinishFolder(j) \/ MarkStale(j) \/ ReadMissing(j)
           \/ PublishProgress(j) \/ NextMessage(j)
  BY <1>4 DEF FolderStoreFails, FailFolder, FinishFolder, MarkStale, ReadMissing, PublishProgress, NextMessage
<1>5. CASE FetchFindsNothing(j) \/ FetchRefused(j) \/ FetchLosesConnection(j)
           \/ FetchNotPossible(j) \/ ReconnectFails(j) \/ SaveFails(j)
  BY <1>5 DEF FetchFindsNothing, FetchRefused, FetchLosesConnection, FetchNotPossible, ReconnectFails,
     SaveFails, Interrupt, RetryLater, FailMessage, LeavesTheRest
<1>6. CASE Fetch(j)
  BY <1>6 DEF Fetch, LeavesTheRest
<1>7. CASE Reconnect(j)
  BY <1>7 DEF Reconnect, LeavesTheRest, FailMessage
<1>8. CASE Save(j)
  BY <1>8 DEF Save
<1>9. CASE CloseFolder(j)
  BY <1>9 DEF CloseFolder
<1>10. CASE \/ NoFoldersSelected(j) \/ ConnectRaisesValueError(j) \/ ReportFailure(j)
            \/ ReportFailureFails(j)
  <2>1. \E a \in {"idle", "bad_request", "failed", "unhandled"} : Return(j, a)
    BY <1>10 DEF NoFoldersSelected, ConnectRaisesValueError, ReportFailure, ReportFailureFails
  <2>2. ~Save(j)
    BY <1>10 DEF NoFoldersSelected, ConnectRaisesValueError, ReportFailure, ReportFailureFails, Save
  <2> QED
    BY <2>1, <2>2 DEF Results
<1> QED
  BY <1>1, <1>2, <1>3, <1>4, <1>5, <1>6, <1>7, <1>8, <1>9, <1>10, JobCases

\* Only a running job takes a step.
LEMMA PcIsSet == ASSUME NEW j \in Jobs, JobStep(j) PROVE Running(j)
<1> USE DEF Running
<1>1. ASSUME NEW f \in Folders, Search(j, f) \/ SearchFails(j, f) PROVE Running(j)
  BY <1>1 DEF Search, SearchFails
<1>2. CASE ListSelectedFolders(j) \/ Announce(j) \/ NoFoldersSelected(j)
           \/ Connect(j) \/ ConnectFails(j) \/ ConnectRaisesValueError(j) \/ NextMessage(j)
           \/ MarkStale(j) \/ Save(j) \/ ReadMissing(j) \/ PublishProgress(j) \/ FinishFolder(j)
           \/ CloseFolder(j) \/ Finish(j) \/ ReportFailure(j) \/ ReportFailureFails(j)
           \/ RunStoreFails(j) \/ FolderStoreFails(j)
  BY <1>2 DEF ListSelectedFolders, Announce, NoFoldersSelected, Connect, ConnectFails,
     ConnectRaisesValueError, NextMessage, MarkStale, Save, ReadMissing, PublishProgress, FinishFolder,
     CloseFolder, Finish, ReportFailure, ReportFailureFails, RunStoreFails, FolderStoreFails
<1>3. CASE Fetch(j) \/ FetchFindsNothing(j) \/ FetchRefused(j) \/ FetchLosesConnection(j)
           \/ FetchNotPossible(j) \/ Reconnect(j) \/ ReconnectFails(j) \/ SaveFails(j)
  BY <1>3 DEF Fetch, FetchFindsNothing, FetchRefused, FetchLosesConnection, FetchNotPossible,
     Reconnect, ReconnectFails, SaveFails
<1> QED
  BY <1>1, <1>2, <1>3, JobCases

LEMMA ReturnAnswers ==
  ASSUME TypeInv, NEW j \in Jobs, NEW a, Return(j, a)
  PROVE  AnswerOf' = [AnswerOf EXCEPT ![j] = a] /\ listed' = [listed EXCEPT ![j] = {}]
BY DEF TypeInv, TypeOK, JobTypeOK, Return, Discard, Wiped, AnswerOf, Running

-----------------------------------------------------------------------------

LEMMA InitKeepsPromise == Init => Promise!PromiseInit
BY DEF Init, StoreInit, JobInit, Promise!PromiseInit, Held, Stored, Running

LEMMA JobKeepsPromise ==
  ASSUME TypeInv, HeldInv, VerdictInv, NEW j \in Jobs, RequestSync(j) \/ JobStep(j)
  PROVE  Promise!PromiseNext \/ UNCHANGED <<Held, listed, AnswerOf>>
<1>0. Held = Stored /\ Held' = Stored'
  BY HeldStep, HeldIsStored DEF HeldInv, Held
<1>1. CASE RequestSync(j)
  <2>1. AnswerOf' = [AnswerOf EXCEPT ![j] = "busy"] /\ UNCHANGED listed /\ AnswerOf[j] # "busy"
    BY <1>1 DEF RequestSync, AnswerOf, Running, Goto, TypeInv, TypeOK, JobTypeOK, seenVars, Results, Verdicts
  <2>2. Stored' = Stored
    BY <1>1 DEF RequestSync, Stored, storeVars
  <2> QED
    BY <1>0, <2>1, <2>2 DEF AnswerOf, Promise!PromiseNext, Promise!Ask, Promise!Busy
<1>2. ASSUME NEW f \in Folders, Search(j, f)
      PROVE Promise!PromiseNext
  <2>1. KeysOf(f, epoch[f], SearchResult(f, window[j])) \in SUBSET RowKeys
    BY DEF KeysOf, RowKeys, SearchResult, TypeInv, TypeOK, ServerTypeOK, JobTypeOK
  <2>2. listed' = [listed EXCEPT ![j] = @ \cup KeysOf(f, epoch[f], SearchResult(f, window[j]))]
    BY <1>2 DEF Search
  <2>3. Stored' = Stored /\ AnswerOf' = AnswerOf /\ AnswerOf[j] = "busy"
    BY <1>2 DEF Search, Stored, storeVars, AnswerOf, Running, Goto, TypeInv, TypeOK, JobTypeOK
  <2> QED
    BY <1>0, <2>1, <2>2, <2>3 DEF AnswerOf, Promise!PromiseNext, Promise!Learn, Promise!Busy
<1>3. CASE Quiet
  <2>1. AnswerOf' = AnswerOf /\ listed' = listed
    BY <1>3 DEF Quiet, AnswerOf
  <2>2. CASE Stored' = Stored
    BY <1>0, <2>1, <2>2
  <2>3. CASE RowKey(j) \in RowKeys /\ Stored' = Stored \cup {RowKey(j)}
    BY <1>0, <2>1, <2>3 DEF AnswerOf, Promise!PromiseNext, Promise!Hold
  <2> QED
    BY <2>2, <2>3, HeldStep
<1>4. ASSUME NEW a \in Results, Return(j, a), JobStep(j), Stored' = Stored,
             a = "completed" => listed[j] \subseteq Stored
      PROVE Promise!PromiseNext
  <2>1. AnswerOf' = [AnswerOf EXCEPT ![j] = a] /\ listed' = [listed EXCEPT ![j] = {}]
    BY <1>4, ReturnAnswers
  <2>2. AnswerOf[j] = "busy"
    BY <1>4, PcIsSet DEF AnswerOf, Running
  <2> QED
    BY <1>0, <1>4, <2>1, <2>2 DEF AnswerOf, Promise!PromiseNext, Promise!Answer, Promise!Busy
<1>5. CASE JobStep(j) /\ \E a \in Results \ {"none", "completed"} : Return(j, a) /\ ~Save(j)
  BY <1>4, <1>5, HeldStep
<1>6. CASE Finish(j)
  <2>1. Return(j, Verdict(j)) /\ Verdict(j) \in Results /\ JobStep(j)
    BY <1>6 DEF Finish, Verdict, Results, Verdicts, JobStep, EndCall
  <2>2. Verdict(j) = "completed" => listed[j] \subseteq Stored
    BY <1>6, VerdictMeansStored DEF Finish, Verdict, CompletedMeansStored
  <2>3. Stored' = Stored
    BY <1>6 DEF Finish, Stored, rowVars
  <2> QED
    BY <1>4, <2>1, <2>2, <2>3
<1> QED
  BY <1>1, <1>2, <1>3, <1>5, <1>6, QuietSteps

LEMMA StepKeepsPromise ==
  TypeInv /\ HeldInv /\ VerdictInv /\ [Next]_vars => [Promise!PromiseNext]_(Promise!promiseVars)
<1> SUFFICES ASSUME TypeInv, HeldInv, VerdictInv, [Next]_vars
             PROVE  Promise!PromiseNext \/ UNCHANGED <<Held, listed, AnswerOf>>
  BY DEF Promise!promiseVars, AnswerOf
<1>1. ASSUME NEW j \in Jobs, RequestSync(j) \/ JobStep(j)
      PROVE Promise!PromiseNext \/ UNCHANGED <<Held, listed, AnswerOf>>
  BY <1>1, JobKeepsPromise
<1>2. CASE Crash
  <2>1. AnswerOf' = [j \in Jobs |-> "none"] /\ listed' = [j \in Jobs |-> {}]
    BY <1>2 DEF Crash, Discard, Wiped, AnswerOf, Running
  <2>2. Held' = Held
    BY <1>2 DEF Crash, Held, Stored, storeVars
  <2> QED
    BY <2>1, <2>2 DEF AnswerOf, Promise!PromiseNext, Promise!Stop
<1>3. CASE UNCHANGED <<messages, attachments, jobVars>>
  BY <1>3 DEF Held, Stored, jobVars, seenVars, AnswerOf, Running
<1> QED
  BY <1>1, <1>2, <1>3 DEF Next, vars, storeVars, rowVars, SaveSelectedFolders

\* However jobs interleave, connections fail and the process stops, a request
\* is answered "completed" only when the store holds, with its attachments,
\* every message the request's searches returned, and holds it from then on.
THEOREM SyncKeepsPromise == Spec => KeepsPromise
<1>1. Init => HeldInv
  BY DEF Init, StoreInit, HeldInv, Stored
<1>2. Spec => [](TypeInv /\ VerdictInv /\ HeldInv)
  BY <1>1, HeldInvStep, VerdictInvInit, VerdictInvStep, TypeCorrectness, PTL DEF Spec
<1> QED
  BY <1>2, InitKeepsPromise, StepKeepsPromise, PTL DEF Spec, KeepsPromise, Promise!PromiseSpec

-----------------------------------------------------------------------------
(***************************************************************************)
(* SyncSystem implements SyncFace too, on which AdminPage is built.        *)
(***************************************************************************)

\* What a job has ahead and is in comes from the selection it read.
PickedInv == \A j \in Jobs : Reached(j) \subseteq snapshot[j]

LEMMA PickedStep ==
  ASSUME TypeInv, PickedInv, NEW j \in Jobs, RequestSync(j) \/ JobStep(j)
  PROVE  PickedInv'
<1> USE DEF TypeInv, TypeOK, JobTypeOK, PickedInv, Reached, Goto, FolderSteps,
            runVars, folderVars, fetchVars, seenVars
<1>1. CASE RequestSync(j) \/ Announce(j) \/ Connect(j) \/ ConnectFails(j) \/ RunStoreFails(j)
  BY <1>1 DEF RequestSync, Announce, Connect, ConnectFails, RunStoreFails, Raise
<1>2. CASE ListSelectedFolders(j)
  BY <1>2 DEF ListSelectedFolders, SelectedFolders
<1>3. CASE \/ NoFoldersSelected(j) \/ ConnectRaisesValueError(j) \/ Finish(j)
           \/ ReportFailure(j) \/ ReportFailureFails(j)
  <2>1. Discard({j})
    BY <1>3 DEF NoFoldersSelected, ConnectRaisesValueError, Finish, ReportFailure,
       ReportFailureFails, Return
  <2> QED
    BY <2>1 DEF Discard, Wiped
<1>4. ASSUME NEW f \in Folders, Search(j, f) \/ SearchFails(j, f)
      PROVE PickedInv'
  BY <1>4 DEF Search, SearchFails, FailFolder, IsNext
<1>5. CASE FolderStoreFails(j) \/ FinishFolder(j) \/ CloseFolder(j)
  BY <1>5 DEF FolderStoreFails, FailFolder, FinishFolder, CloseFolder
<1>6. CASE MarkStale(j) \/ ReadMissing(j) \/ PublishProgress(j) \/ NextMessage(j) \/ Save(j)
  BY <1>6 DEF MarkStale, ReadMissing, PublishProgress, NextMessage, Save
<1>7. CASE FetchFindsNothing(j) \/ FetchRefused(j) \/ FetchLosesConnection(j)
           \/ FetchNotPossible(j) \/ ReconnectFails(j) \/ SaveFails(j)
  BY <1>7 DEF FetchFindsNothing, FetchRefused, FetchLosesConnection, FetchNotPossible,
     ReconnectFails, SaveFails, Interrupt, RetryLater, FailMessage, LeavesTheRest
<1>8. CASE Fetch(j) \/ Reconnect(j)
  BY <1>8 DEF Fetch, Reconnect, FailMessage, LeavesTheRest
<1> QED
  BY <1>1, <1>2, <1>3, <1>4, <1>5, <1>6, <1>7, <1>8, JobCases

LEMMA PickedInvStep == TypeInv /\ PickedInv /\ [Next]_vars => PickedInv'
<1> SUFFICES ASSUME TypeInv, PickedInv, [Next]_vars PROVE PickedInv'
  OBVIOUS
<1>1. ASSUME NEW j \in Jobs, RequestSync(j) \/ JobStep(j) PROVE PickedInv'
  BY <1>1, PickedStep
<1>2. CASE Crash
  BY <1>2 DEF Crash, Discard, Wiped, PickedInv, Reached, FolderSteps
<1>3. CASE UNCHANGED jobVars
  BY <1>3 DEF PickedInv, Reached, jobVars, runVars, folderVars, seenVars
<1> QED
  BY <1>1, <1>2, <1>3 DEF Next, vars, SaveSelectedFolders

PhaseOf == [j \in Jobs |-> Phase(j)]
PickedBy == [j \in Jobs |-> IF pc[j] = "report" THEN {} ELSE snapshot[j]]

\* The steps the page does not see: the job stays in the middle of its run.
Unseen(j) ==
  /\ pc[j] \notin {"none", "select", "report"}
  /\ \E s \in Steps \ {"none", "select", "report"} : Goto(j, s)
  /\ UNCHANGED <<selected, snapshot>>

\* A job's step as the page sees it.
LEMMA SeenSteps ==
  ASSUME TypeInv, NEW j \in Jobs, RequestSync(j) \/ JobStep(j)
  PROVE  \/ RequestSync(j) \/ ListSelectedFolders(j) \/ FinishFolder(j)
         \/ Raise(j) /\ pc[j] \notin {"none", "report"}
         \/ UNCHANGED selected /\ (\E a \in Results : Return(j, a)) /\ pc[j] \notin {"none", "select"}
         \/ Unseen(j)
<1> USE DEF TypeInv, TypeOK, JobTypeOK, Unseen, Goto, seenVars, storeVars, Steps, FolderSteps
<1>1. CASE Announce(j) \/ Connect(j)
  BY <1>1 DEF Announce, Connect
<1>2. CASE ConnectFails(j) \/ RunStoreFails(j)
  BY <1>2 DEF ConnectFails, RunStoreFails
<1>3. CASE \/ NoFoldersSelected(j) \/ ConnectRaisesValueError(j) \/ Finish(j)
           \/ ReportFailure(j) \/ ReportFailureFails(j)
  BY <1>3 DEF NoFoldersSelected, ConnectRaisesValueError, Finish, Verdict,
     ReportFailure, ReportFailureFails, Results, Verdicts
<1>4. ASSUME NEW f \in Folders, Search(j, f) \/ SearchFails(j, f)
      PROVE Unseen(j)
  BY <1>4 DEF Search, SearchFails, FailFolder
<1>5. CASE FolderStoreFails(j) \/ CloseFolder(j)
  BY <1>5 DEF FolderStoreFails, FailFolder, CloseFolder
<1>6. CASE MarkStale(j) \/ ReadMissing(j) \/ PublishProgress(j) \/ NextMessage(j) \/ Save(j)
  BY <1>6 DEF MarkStale, ReadMissing, PublishProgress, NextMessage, Save
<1>7. CASE FetchFindsNothing(j) \/ FetchRefused(j) \/ FetchLosesConnection(j)
           \/ FetchNotPossible(j) \/ ReconnectFails(j) \/ SaveFails(j)
  BY <1>7 DEF FetchFindsNothing, FetchRefused, FetchLosesConnection, FetchNotPossible,
     ReconnectFails, SaveFails, Interrupt, RetryLater, FailMessage, LeavesTheRest
<1>8. CASE Fetch(j) \/ Reconnect(j)
  BY <1>8 DEF Fetch, Reconnect, FailMessage, LeavesTheRest
<1> QED
  BY <1>1, <1>2, <1>3, <1>4, <1>5, <1>6, <1>7, <1>8, JobCases

LEMMA JobKeepsFace ==
  ASSUME TypeInv, PickedInv, NEW j \in Jobs, RequestSync(j) \/ JobStep(j), UNCHANGED userVars
  PROVE  Face!FaceNext \/ UNCHANGED <<selected, choice, PhaseOf, PickedBy>>
<1> USE DEF TypeInv, TypeOK, JobTypeOK, PhaseOf, PickedBy, Phase, Goto, storeVars, seenVars,
            userVars, Face!FaceNext
<1>1. CASE RequestSync(j)
  <2>1. PhaseOf[j] = "none" /\ PhaseOf' = [PhaseOf EXCEPT ![j] = "asked"]
    BY <1>1 DEF RequestSync, Running
  <2>2. UNCHANGED <<selected, choice, PickedBy>>
    BY <1>1 DEF RequestSync, Running
  <2> QED
    BY <2>1, <2>2 DEF Face!Ask
<1>2. CASE ListSelectedFolders(j)
  <2>1. PhaseOf[j] = "asked" /\ PhaseOf' = [PhaseOf EXCEPT ![j] = "running"]
    BY <1>2 DEF ListSelectedFolders
  <2>2. PickedBy' = [PickedBy EXCEPT ![j] = selected] /\ UNCHANGED <<selected, choice>>
    BY <1>2 DEF ListSelectedFolders, SelectedFolders
  <2> QED
    BY <2>1, <2>2 DEF Face!Pick
<1>3. CASE FinishFolder(j)
  <2>1. cur[j] \in snapshot[j] /\ pc[j] = "fetch"
    BY <1>3 DEF FinishFolder, PickedInv, Reached, FolderSteps
  <2>2. PhaseOf[j] = "running" /\ PickedBy[j] = snapshot[j]
    BY <2>1
  <2>3. selected' = selected \cup {cur[j]} /\ UNCHANGED <<choice, PhaseOf, PickedBy>>
    BY <1>3 DEF FinishFolder, UpdateFolderSyncResult
  <2> QED
    BY <2>1, <2>2, <2>3 DEF Face!EndFolder
<1>4. CASE Raise(j) /\ pc[j] \notin {"none", "report"}
  <2>1. PhaseOf[j] \in {"asked", "running"} /\ PhaseOf' = [PhaseOf EXCEPT ![j] = "failing"]
    BY <1>4 DEF Raise
  <2>2. PickedBy' = [PickedBy EXCEPT ![j] = {}] /\ UNCHANGED <<selected, choice>>
    BY <1>4 DEF Raise
  <2> QED
    BY <2>1, <2>2 DEF Face!Fail
<1>5. ASSUME UNCHANGED selected, NEW a \in Results, Return(j, a), pc[j] \notin {"none", "select"}
      PROVE Face!FaceNext
  <2>1. PhaseOf[j] \in {"running", "failing"} /\ PhaseOf' = [PhaseOf EXCEPT ![j] = "none"]
    BY <1>5 DEF Return, Discard, Wiped
  <2>2. PickedBy' = [PickedBy EXCEPT ![j] = {}] /\ UNCHANGED <<selected, choice>>
    BY <1>5 DEF Return, Discard, Wiped
  <2> QED
    BY <2>1, <2>2 DEF Face!Answer
<1>6. CASE Unseen(j)
  BY <1>6 DEF Unseen
<1> QED
  BY <1>1, <1>2, <1>3, <1>4, <1>5, <1>6, SeenSteps

LEMMA StepKeepsFace ==
  TypeInv /\ PickedInv /\ [Next]_vars => [Face!FaceNext]_(Face!faceVars)
<1> SUFFICES ASSUME TypeInv, PickedInv, [Next]_vars
             PROVE  Face!FaceNext \/ UNCHANGED <<selected, choice, PhaseOf, PickedBy>>
  BY DEF Face!faceVars, PhaseOf, PickedBy
<1>1. ASSUME NEW j \in Jobs, RequestSync(j) \/ JobStep(j), UNCHANGED userVars
      PROVE Face!FaceNext \/ UNCHANGED <<selected, choice, PhaseOf, PickedBy>>
  BY <1>1, JobKeepsFace
<1>2. CASE SaveSelectedFolders
  <2>1. PICK folders \in Choices : selected' = folders /\ choice' = folders
    BY <1>2 DEF SaveSelectedFolders, SetSelectedFolders
  <2>2. folders \in SUBSET Folders
    BY <2>1, SelectionAssumption
  <2>3. UNCHANGED <<PhaseOf, PickedBy>>
    BY <1>2 DEF SaveSelectedFolders, jobVars, seenVars, PhaseOf, PickedBy, Phase
  <2> QED
    BY <2>1, <2>2, <2>3 DEF PhaseOf, PickedBy, Face!FaceNext, Face!Select
<1>3. CASE Crash
  <2>1. /\ PhaseOf' = [j \in Jobs |-> "none"] /\ PickedBy' = [j \in Jobs |-> {}]
        /\ UNCHANGED <<selected, choice>>
    BY <1>3 DEF Crash, Discard, Wiped, PhaseOf, PickedBy, Phase, storeVars, userVars
  <2> QED
    BY <2>1 DEF PhaseOf, PickedBy, Face!FaceNext, Face!Stop
<1>4. CASE UNCHANGED <<storeVars, jobVars, userVars>>
  BY <1>4 DEF storeVars, jobVars, userVars, seenVars, PhaseOf, PickedBy, Phase
<1> QED
  BY <1>1, <1>2, <1>3, <1>4 DEF Next, vars

\* Whatever fails and however requests overlap, to the page a job reads the
\* selection once, adds to it only folders it has read, one at a time, and is
\* answered: what AdminPage rests on holds of the synchronisation.
THEOREM SyncKeepsFace == Spec => KeepsFace
<1>1. Init => PickedInv /\ Face!FaceInit
  BY DEF Init, JobInit, PickedInv, Reached, FolderSteps, Face!FaceInit, Phase
<1>2. Spec => [](TypeInv /\ PickedInv)
  BY <1>1, PickedInvStep, TypeCorrectness, PTL DEF Spec
<1> QED
  BY <1>1, <1>2, StepKeepsFace, PTL DEF Spec, KeepsFace, Face!FaceSpec

-----------------------------------------------------------------------------
(***************************************************************************)
(* The work of a run runs out.  A folder's end takes the folder from those *)
(* ahead, a message's end takes the message from those of the folder, and  *)
(* a reconnection takes one of the attempts: so each call of a job comes   *)
(* nearer to its answer, in the order of Distance.                         *)
(***************************************************************************)

\* What a job is at is still among what is ahead of it.
AtHand(j) ==
  /\ pc[j] \in FolderSteps \cup {"close"} => cur[j] \in todo[j]
  /\ pc[j] \in FetchSteps => uid[j] \in uids[j]

WorkInv == \A j \in Jobs : AtHand(j)

LEMMA FailMessageKeepsWork ==
  ASSUME TypeInv, NEW j \in Jobs, AtHand(j), pc[j] \in FetchSteps, FailMessage(j), LeavesTheRest
  PROVE  AtHand(j)'
BY DEF TypeInv, TypeOK, JobTypeOK, AtHand, FailMessage, LeavesTheRest, Goto, FolderSteps, FetchSteps,
   runVars

LEMMA RetryKeepsWork ==
  ASSUME TypeInv, NEW j \in Jobs, AtHand(j), pc[j] \in FetchSteps, RetryLater(j), LeavesTheRest
  PROVE  AtHand(j)'
BY DEF TypeInv, TypeOK, JobTypeOK, AtHand, RetryLater, LeavesTheRest, Goto, FolderSteps, FetchSteps,
   runVars, folderVars, fetchVars

LEMMA WorkStep ==
  ASSUME TypeInv, NEW j \in Jobs, AtHand(j), RequestSync(j) \/ JobStep(j)
  PROVE  AtHand(j)'
<1> USE DEF TypeInv, TypeOK, JobTypeOK, AtHand, Goto, FolderSteps, FetchSteps, runVars, folderVars,
            fetchVars
<1>1. CASE RequestSync(j) \/ ListSelectedFolders(j) \/ Announce(j) \/ Connect(j)
           \/ ConnectFails(j) \/ RunStoreFails(j)
  BY <1>1 DEF RequestSync, ListSelectedFolders, Announce, Connect, ConnectFails, RunStoreFails, Raise
<1>2. CASE \/ NoFoldersSelected(j) \/ ConnectRaisesValueError(j) \/ Finish(j)
           \/ ReportFailure(j) \/ ReportFailureFails(j)
  BY <1>2 DEF NoFoldersSelected, ConnectRaisesValueError, Finish, ReportFailure, ReportFailureFails,
     Return, Discard, Wiped
<1>3. ASSUME NEW f \in Folders, Search(j, f) \/ SearchFails(j, f) PROVE AtHand(j)'
  BY <1>3 DEF Search, SearchFails, FailFolder, IsNext
<1>4. CASE FolderStoreFails(j) \/ FinishFolder(j) \/ CloseFolder(j)
  BY <1>4 DEF FolderStoreFails, FailFolder, FinishFolder, CloseFolder
<1>5. CASE MarkStale(j) \/ ReadMissing(j) \/ PublishProgress(j) \/ NextMessage(j) \/ Save(j)
  BY <1>5 DEF MarkStale, ReadMissing, PublishProgress, NextMessage, Save
<1>6. CASE FetchFindsNothing(j) \/ FetchRefused(j) \/ FetchLosesConnection(j)
           \/ FetchNotPossible(j) \/ ReconnectFails(j) \/ SaveFails(j)
  BY <1>6, FailMessageKeepsWork, RetryKeepsWork
  DEF FetchFindsNothing, FetchRefused, FetchLosesConnection, FetchNotPossible, ReconnectFails,
      SaveFails, Interrupt
<1>7. CASE Fetch(j)
  BY <1>7 DEF Fetch, LeavesTheRest
<1>8. CASE Reconnect(j)
  <2>1. CASE epoch[cur[j]] = uv[j]
    BY <1>8, <2>1 DEF Reconnect, LeavesTheRest
  <2>2. CASE epoch[cur[j]] # uv[j]
    BY <1>8, <2>2, FailMessageKeepsWork DEF Reconnect
  <2> QED
    BY <2>1, <2>2
<1> QED
  BY <1>1, <1>2, <1>3, <1>4, <1>5, <1>6, <1>7, <1>8, JobCases

LEMMA WorkInvStep == TypeInv /\ WorkInv /\ [Next]_vars => WorkInv'
<1> SUFFICES ASSUME TypeInv, WorkInv, [Next]_vars PROVE WorkInv'
  OBVIOUS
<1>1. ASSUME NEW j \in Jobs, RequestSync(j) \/ JobStep(j) PROVE WorkInv'
  <2>1. ASSUME NEW i \in Jobs \ {j} PROVE AtHand(i)'
    BY <1>1, OthersStay DEF SameLocals, WorkInv, AtHand
  <2> QED
    BY <1>1, <2>1, WorkStep DEF WorkInv
<1>2. CASE Crash
  BY <1>2 DEF Crash, Discard, Wiped, WorkInv, AtHand, FolderSteps, FetchSteps
<1>3. CASE UNCHANGED jobVars
  BY <1>3 DEF jobVars, runVars, folderVars, fetchVars, WorkInv, AtHand
<1> QED
  BY <1>1, <1>2, <1>3 DEF Next, vars, SaveSelectedFolders

LEMMA WorkInvHolds == Spec => []WorkInv
<1>1. Init => WorkInv
  BY DEF Init, JobInit, WorkInv, AtHand, FolderSteps, FetchSteps
<1> QED
  BY <1>1, WorkInvStep, TypeCorrectness, PTL DEF Spec

LEMMA Stages ==
  /\ RunStage("select") = 6 /\ RunStage("announce") = 5 /\ RunStage("connect") = 4
  /\ RunStage("empty") = 2 /\ RunStage("finish") = 2
  /\ RunStage("report") = 1 /\ RunStage("none") = 0
  /\ \A step \in FolderSteps \cup {"search", "close"} : RunStage(step) = 3
  /\ FolderStage("search") = 4 /\ FolderStage("mark") = 3 /\ FolderStage("missing") = 2
  /\ \A step \in FolderSteps \ {"mark", "missing"} : FolderStage(step) = 1
  /\ FolderStage("close") = 0
BY DEF RunStage, FolderStage, FolderSteps

\* It is enough to be nearer in the first of the five that changes.
LEMMA FirstThatChanges ==
  ASSUME NEW j \in Jobs,
         \/ RunStage(pc'[j]) < RunStage(pc[j])
         \/ /\ RunStage(pc'[j]) = RunStage(pc[j])
            /\ Cardinality(todo'[j]) < Cardinality(todo[j])
         \/ /\ RunStage(pc'[j]) = RunStage(pc[j]) /\ todo'[j] = todo[j]
            /\ FolderStage(pc'[j]) < FolderStage(pc[j])
         \/ /\ RunStage(pc'[j]) = RunStage(pc[j]) /\ todo'[j] = todo[j]
            /\ FolderStage(pc'[j]) = FolderStage(pc[j])
            /\ Cardinality(uids'[j]) < Cardinality(uids[j])
         \/ /\ RunStage(pc'[j]) = RunStage(pc[j]) /\ todo'[j] = todo[j]
            /\ FolderStage(pc'[j]) = FolderStage(pc[j]) /\ uids'[j] = uids[j]
            /\ MessageStage(j)' < MessageStage(j)
  PROVE  Precedes(Distance(j)', Distance(j))
<1> DEFINE s == Distance(j)'
           t == Distance(j)
<1>1. /\ s[1] = RunStage(pc'[j]) /\ t[1] = RunStage(pc[j])
      /\ s[2] = Cardinality(todo'[j]) /\ t[2] = Cardinality(todo[j])
      /\ s[3] = FolderStage(pc'[j]) /\ t[3] = FolderStage(pc[j])
      /\ s[4] = Cardinality(uids'[j]) /\ t[4] = Cardinality(uids[j])
      /\ s[5] = MessageStage(j)' /\ t[5] = MessageStage(j)
  BY DEF Distance
<1> HIDE DEF s, t
<1>2. \/ s[1] < t[1]
      \/ s[1] = t[1] /\ s[2] < t[2]
      \/ s[1] = t[1] /\ s[2] = t[2] /\ s[3] < t[3]
      \/ s[1] = t[1] /\ s[2] = t[2] /\ s[3] = t[3] /\ s[4] < t[4]
      \/ s[1] = t[1] /\ s[2] = t[2] /\ s[3] = t[3] /\ s[4] = t[4] /\ s[5] < t[5]
  BY <1>1
<1>3. Precedes(s, t)
  BY <1>2 DEF Precedes
<1> QED
  BY <1>3 DEF s, t

Nearer(j) == pc'[j] # pc[j] /\ Precedes(Distance(j)', Distance(j))

LEMMA AheadShrinks ==
  ASSUME IsFiniteSet(Folders), TypeInv, NEW j \in Jobs
  PROVE  /\ \A f \in todo[j] : Cardinality(todo[j] \ {f}) < Cardinality(todo[j])
         /\ \A u \in uids[j] : Cardinality(uids[j] \ {u}) < Cardinality(uids[j])
<1>1. IsFiniteSet(Uids)
  BY FS_Interval, BoundsAssumption DEF Uids
<1>2. todo[j] \in SUBSET Folders /\ uids[j] \in SUBSET Uids
  BY DEF TypeInv, TypeOK, JobTypeOK
<1>3. IsFiniteSet(todo[j]) /\ IsFiniteSet(uids[j])
  BY <1>1, <1>2, FS_Subset
<1>4. Cardinality(todo[j]) \in Nat /\ Cardinality(uids[j]) \in Nat
  BY <1>3, FS_CardinalityType
<1>5. ASSUME NEW S, IsFiniteSet(S), Cardinality(S) \in Nat, NEW x \in S
      PROVE  Cardinality(S \ {x}) < Cardinality(S)
  <2>1. Cardinality(S \ {x}) = Cardinality(S) - 1
    BY <1>5, FS_RemoveElement
  <2> QED
    BY <1>5, <2>1
<1> QED
  BY <1>3, <1>4, <1>5

LEMMA FailMessageIsNearer ==
  ASSUME IsFiniteSet(Folders), TypeInv, WorkInv, NEW j \in Jobs, pc[j] \in FetchSteps,
         FailMessage(j), UNCHANGED todo
  PROVE  Nearer(j)
<1>1. pc'[j] = "progress" /\ todo'[j] = todo[j] /\ uids'[j] = uids[j] \ {uid[j]}
  BY DEF FailMessage, Goto, TypeInv, TypeOK, JobTypeOK
<1>2. Cardinality(uids'[j]) < Cardinality(uids[j])
  BY <1>1, AheadShrinks DEF WorkInv, AtHand
<1> QED
  BY <1>1, <1>2, FirstThatChanges, Stages DEF Nearer, FolderSteps, FetchSteps

LEMMA RetryIsNearer ==
  ASSUME TypeInv, NEW j \in Jobs, pc[j] = "try", RetryLater(j), UNCHANGED todo
  PROVE  Nearer(j)
<1>1. pc'[j] = "reconnect" /\ UNCHANGED <<todo, uids, tries>> /\ tries[j] \in 0 .. Attempts
  BY DEF RetryLater, Goto, TypeInv, TypeOK, JobTypeOK, folderVars, fetchVars
<1>2. MessageStage(j)' < MessageStage(j)
  BY <1>1, SyncAssumption DEF MessageStage
<1> QED
  BY <1>1, <1>2, FirstThatChanges, Stages DEF Nearer, FolderSteps

LEMMA NearerStep ==
  ASSUME IsFiniteSet(Folders), TypeInv, WorkInv, NEW j \in Jobs, JobStep(j)
  PROVE  Nearer(j)
<1> USE DEF TypeInv, TypeOK, JobTypeOK, Goto
<1>1. CASE ListSelectedFolders(j) \/ Announce(j) \/ Connect(j) \/ ConnectFails(j) \/ RunStoreFails(j)
  <2>1. /\ pc[j] = "select" => pc'[j] \in {"announce", "report"}
        /\ pc[j] = "announce" => pc'[j] \in {"empty", "connect", "report"}
        /\ pc[j] = "connect" => pc'[j] \in {"search", "report"}
        /\ pc[j] \in {"empty", "close", "finish"} => pc'[j] = "report"
        /\ pc[j] \in {"select", "announce", "connect", "empty", "close", "finish"}
    BY <1>1 DEF ListSelectedFolders, Announce, Connect, ConnectFails, RunStoreFails, Raise
  <2> QED
    BY <2>1, FirstThatChanges, Stages DEF Nearer
<1>2. CASE \/ NoFoldersSelected(j) \/ ConnectRaisesValueError(j) \/ Finish(j)
           \/ ReportFailure(j) \/ ReportFailureFails(j)
  <2>1. pc[j] \in {"empty", "connect", "finish", "report"} /\ Discard({j})
    BY <1>2 DEF NoFoldersSelected, ConnectRaisesValueError, Finish, ReportFailure,
       ReportFailureFails, Return
  <2>2. pc'[j] = "none"
    BY <2>1 DEF Discard, Wiped
  <2> QED
    BY <2>1, <2>2, FirstThatChanges, Stages DEF Nearer
<1>3. ASSUME NEW f \in Folders, Search(j, f) \/ SearchFails(j, f) PROVE Nearer(j)
  <2>1. pc[j] = "search" /\ pc'[j] \in {"mark", "close"} /\ todo'[j] = todo[j]
    BY <1>3 DEF Search, SearchFails, FailFolder, runVars
  <2> QED
    BY <2>1, FirstThatChanges, Stages DEF Nearer, FolderSteps
<1>4. CASE FolderStoreFails(j) \/ FinishFolder(j)
  <2>1. pc[j] \in {"mark", "missing", "progress", "fetch"} /\ pc'[j] = "close" /\ todo'[j] = todo[j]
    BY <1>4 DEF FolderStoreFails, FailFolder, FinishFolder, runVars
  <2>2. /\ RunStage(pc[j]) = 3 /\ RunStage(pc'[j]) = 3
        /\ FolderStage(pc[j]) \in {1, 2, 3} /\ FolderStage(pc'[j]) = 0
    BY <2>1, Stages DEF FolderSteps
  <2> QED
    BY <2>1, <2>2, FirstThatChanges DEF Nearer
<1>5. CASE MarkStale(j) \/ ReadMissing(j)
  <2>1. /\ todo'[j] = todo[j]
        /\ \/ pc[j] = "mark" /\ pc'[j] = "missing"
           \/ pc[j] = "missing" /\ pc'[j] = "progress"
    BY <1>5 DEF MarkStale, ReadMissing, runVars
  <2> QED
    BY <2>1, FirstThatChanges, Stages DEF Nearer, FolderSteps
<1>6. CASE PublishProgress(j) \/ NextMessage(j) \/ Fetch(j)
  <2>1. /\ UNCHANGED <<todo, uids>>
        /\ \/ pc[j] = "progress" /\ pc'[j] = "fetch"
           \/ pc[j] = "fetch" /\ pc'[j] = "try" /\ tries'[j] = 1
           \/ pc[j] = "try" /\ pc'[j] = "save" /\ tries[j] \in 0 .. Attempts
    BY <1>6 DEF PublishProgress, NextMessage, Fetch, LeavesTheRest, runVars, folderVars
  <2>2. MessageStage(j)' < MessageStage(j)
    BY <2>1, SyncAssumption DEF MessageStage
  <2> QED
    BY <2>1, <2>2, FirstThatChanges, Stages DEF Nearer, FolderSteps
<1>7. CASE FetchFindsNothing(j) \/ FetchRefused(j) \/ FetchLosesConnection(j)
           \/ FetchNotPossible(j)
  <2>1. pc[j] = "try" /\ UNCHANGED todo /\ (FailMessage(j) \/ RetryLater(j))
    BY <1>7 DEF FetchFindsNothing, FetchRefused, FetchLosesConnection, FetchNotPossible, Interrupt,
       LeavesTheRest, runVars
  <2> QED
    BY <2>1, FailMessageIsNearer, RetryIsNearer DEF FetchSteps
<1>8. CASE ReconnectFails(j) \/ SaveFails(j)
  <2>1. pc[j] \in FetchSteps /\ UNCHANGED todo /\ FailMessage(j)
    BY <1>8 DEF ReconnectFails, SaveFails, LeavesTheRest, runVars, FetchSteps
  <2> QED
    BY <2>1, FailMessageIsNearer
<1>9. CASE Reconnect(j)
  <2>1. CASE epoch[cur[j]] = uv[j]
    <3>1. /\ pc[j] = "reconnect" /\ pc'[j] = "try" /\ UNCHANGED <<todo, uids>>
          /\ tries'[j] = tries[j] + 1 /\ tries[j] \in 0 .. Attempts
      BY <1>9, <2>1 DEF Reconnect, NextAttempt, LeavesTheRest, runVars, folderVars
    <3>2. MessageStage(j)' < MessageStage(j)
      BY <3>1, SyncAssumption DEF MessageStage
    <3> QED
      BY <3>1, <3>2, FirstThatChanges, Stages DEF Nearer, FolderSteps
  <2>2. CASE epoch[cur[j]] # uv[j]
    BY <1>9, <2>2, FailMessageIsNearer DEF Reconnect, LeavesTheRest, runVars, FetchSteps
  <2> QED
    BY <2>1, <2>2
<1>10. CASE Save(j)
  <2>1. /\ pc[j] = "save" /\ pc'[j] = "progress" /\ todo'[j] = todo[j]
        /\ uids'[j] = uids[j] \ {uid[j]} /\ uid[j] \in uids[j]
    BY <1>10 DEF Save, runVars, WorkInv, AtHand, FetchSteps
  <2>2. Cardinality(uids'[j]) < Cardinality(uids[j])
    BY <2>1, AheadShrinks
  <2> QED
    BY <2>1, <2>2, FirstThatChanges, Stages DEF Nearer, FolderSteps
<1>11. CASE CloseFolder(j)
  <2>1. /\ pc[j] = "close" /\ pc'[j] \in {"finish", "search"}
        /\ todo'[j] = todo[j] \ {cur[j]} /\ cur[j] \in todo[j]
    BY <1>11 DEF CloseFolder, WorkInv, AtHand
  <2>2. Cardinality(todo'[j]) < Cardinality(todo[j])
    BY <2>1, AheadShrinks
  <2>3. RunStage(pc'[j]) < RunStage(pc[j]) \/ RunStage(pc'[j]) = RunStage(pc[j])
    BY <2>1, Stages
  <2>4. Precedes(Distance(j)', Distance(j))
    BY <2>2, <2>3, FirstThatChanges
  <2> QED
    BY <2>1, <2>4 DEF Nearer
<1> QED
  BY <1>1, <1>2, <1>3, <1>4, <1>5, <1>6, <1>7, <1>8, <1>9, <1>10, <1>11, JobCases

\* Whatever fails, and whatever the other jobs do, each call of a run that
\* changes where the run is brings it nearer to its answer: a run makes only
\* finitely many calls, for any number of folders, messages and attempts.  It
\* is the half of SyncTerminates that is safety.
THEOREM EachCallIsNearer ==
  ASSUME IsFiniteSet(Folders)
  PROVE  Spec => WorkRunsOut
<1> DEFINE Progress(j) == IF pc'[j] = pc[j] THEN Distance(j)' = Distance(j)
                          ELSE Precedes(Distance(j)', Distance(j))
<1>1. ASSUME TypeInv, WorkInv, [Next]_vars, NEW i \in Jobs, Running(i)
      PROVE  Progress(i)
  <2>1. ASSUME NEW j \in Jobs, RequestSync(j) \/ JobStep(j) PROVE Progress(i)
    <3>1. CASE i = j
      BY <1>1, <2>1, <3>1, NearerStep DEF RequestSync, Nearer
    <3>2. CASE i # j
      <4>1. SameLocals(i)
        BY <1>1, <2>1, <3>2, OthersStay
      <4> QED
        BY <4>1 DEF SameLocals, Distance, MessageStage
    <3> QED
      BY <3>1, <3>2
  <2>2. CASE Crash
    <3>1. pc'[i] = "none" /\ pc[i] # "none" /\ pc[i] \in Steps
      BY <1>1, <2>2 DEF Crash, Discard, Wiped, Running, TypeInv, TypeOK, JobTypeOK
    <3>2. RunStage(pc'[i]) < RunStage(pc[i])
      BY <3>1, Stages DEF Steps
    <3> QED
      BY <3>1, <3>2, FirstThatChanges
  <2>3. CASE UNCHANGED jobVars
    BY <2>3 DEF jobVars, runVars, folderVars, fetchVars, Distance, MessageStage
  <2> QED
    BY <1>1, <2>1, <2>2, <2>3 DEF Next, vars, SaveSelectedFolders
<1>2. TypeInv /\ WorkInv /\ [Next]_vars => [\A j \in Jobs : Running(j) => Progress(j)]_vars
  BY <1>1
<1> QED
  BY <1>2, WorkInvHolds, TypeCorrectness, PTL DEF Spec, WorkRunsOut

\* There is no endless way of coming nearer, ...
LEMMA PrecedesIsWellFounded ==
  IsWellFoundedOn(LexProductOrdering(OpToRel(<, Nat), Nat, 5), [1 .. 5 -> Nat])
BY NatLessThanWellFounded, WFLexProductOrdering

LEMMA PrecedesIsLexicographic ==
  ASSUME NEW s \in [1 .. 5 -> Nat], NEW t \in [1 .. 5 -> Nat], Precedes(s, t)
  PROVE  <<s, t>> \in LexProductOrdering(OpToRel(<, Nat), Nat, 5)
<1>1. PICK i \in 1 .. 5 : s[i] < t[i] /\ \A h \in 1 .. (i - 1) : s[h] = t[h]
  BY DEF Precedes
<1>2. <<s[i], t[i]>> \in OpToRel(<, Nat)
  BY <1>1 DEF OpToRel
<1> QED
  BY <1>1, <1>2 DEF LexProductOrdering

\* ... and a job's distance is made of numbers: the two together leave no run
\* that makes calls for ever.
THEOREM RunsAreFinite ==
  ASSUME IsFiniteSet(Folders)
  PROVE  /\ Spec => [](\A j \in Jobs : Distance(j) \in [1 .. 5 -> Nat])
         /\ ~ \E way \in [Nat -> [1 .. 5 -> Nat]] : \A n \in Nat : Precedes(way[n + 1], way[n])
<1>1. ASSUME TypeInv, NEW j \in Jobs PROVE Distance(j) \in [1 .. 5 -> Nat]
  <2>1. RunStage(pc[j]) \in Nat /\ FolderStage(pc[j]) \in Nat
    <3>1. pc[j] \in Steps
      BY <1>1 DEF TypeInv, TypeOK, JobTypeOK
    <3> QED
      BY <3>1, Stages DEF Steps, FolderStage
  <2>2. Cardinality(todo[j]) \in Nat /\ Cardinality(uids[j]) \in Nat
    <3>1. IsFiniteSet(Uids)
      BY FS_Interval, BoundsAssumption DEF Uids
    <3>2. todo[j] \in SUBSET Folders /\ uids[j] \in SUBSET Uids
      BY <1>1 DEF TypeInv, TypeOK, JobTypeOK
    <3> QED
      BY <3>1, <3>2, FS_Subset, FS_CardinalityType
  <2>3. MessageStage(j) \in Nat
    BY <1>1, SyncAssumption DEF MessageStage, TypeInv, TypeOK, JobTypeOK
  <2> QED
    BY <2>1, <2>2, <2>3 DEF Distance
<1>2. ASSUME NEW way \in [Nat -> [1 .. 5 -> Nat]], \A n \in Nat : Precedes(way[n + 1], way[n])
      PROVE  FALSE
  <2>1. ASSUME NEW n \in Nat
        PROVE  <<way[n + 1], way[n]>> \in LexProductOrdering(OpToRel(<, Nat), Nat, 5)
    <3>1. n + 1 \in Nat
      OBVIOUS
    <3>2. way[n + 1] \in [1 .. 5 -> Nat] /\ way[n] \in [1 .. 5 -> Nat]
      BY <1>2, <2>1, <3>1
    <3>3. Precedes(way[n + 1], way[n])
      BY <1>2, <2>1
    <3> QED
      BY <3>2, <3>3, PrecedesIsLexicographic
  <2> QED
    BY <1>2, <2>1, PrecedesIsWellFounded DEF IsWellFoundedOn
<1>3. Spec => [](\A j \in Jobs : Distance(j) \in [1 .. 5 -> Nat])
  <2>1. TypeInv => \A j \in Jobs : Distance(j) \in [1 .. 5 -> Nat]
    BY <1>1
  <2> QED
    BY <2>1, TypeCorrectness, PTL
<1> QED
  BY <1>2, <1>3

-----------------------------------------------------------------------------
(***************************************************************************)
(* No run is stuck.  Of all guards of a job's calls only IsNext, of the    *)
(* loop over the folders, is one that data could leave unmet.              *)
(***************************************************************************)

FolderIsAhead(j) == pc[j] \in {"connect", "search"} => todo[j] # {}

LEMMA SomeFolderIsFirst ==
  ASSUME NEW T \in SUBSET Folders, T # {}
  PROVE  \E f \in T : \A g \in T : Rank[f] <= Rank[g]
<1> DEFINE ranks == {Rank[f] : f \in T}
<1>1. ranks \subseteq Nat /\ ranks # {}
  BY SyncAssumption
<1>2. PICK n \in ranks : \A m \in ranks : <<m, n>> \notin OpToRel(<, Nat)
  BY <1>1, NatLessThanWellFounded, WFMin
<1>3. ASSUME NEW m \in ranks PROVE n <= m
  <2>1. m \in Nat /\ n \in Nat
    BY <1>1
  <2>2. ~(m < n)
    BY <1>2, <2>1 DEF OpToRel
  <2> QED
    BY <2>1, <2>2
<1>4. PICK f \in T : n = Rank[f]
  BY <1>2
<1>5. \A g \in T : Rank[g] \in ranks
  OBVIOUS
<1> HIDE DEF ranks
<1> QED
  BY <1>3, <1>4, <1>5

LEMMA FolderIsAheadStep ==
  ASSUME TypeInv, WorkInv, NEW j \in Jobs, FolderIsAhead(j), RequestSync(j) \/ JobStep(j)
  PROVE  FolderIsAhead(j)'
<1> USE DEF TypeInv, TypeOK, JobTypeOK, FolderIsAhead, Goto, runVars
<1>1. CASE Announce(j)
  BY <1>1 DEF Announce
<1>2. CASE Connect(j)
  BY <1>2 DEF Connect
<1>3. CASE CloseFolder(j)
  <2>1. cur[j] \in todo[j] /\ todo'[j] = todo[j] \ {cur[j]}
    BY <1>3 DEF CloseFolder, WorkInv, AtHand
  <2>2. pc'[j] = "search" => todo[j] # {cur[j]}
    BY <1>3 DEF CloseFolder
  <2>3. pc'[j] # "connect"
    BY <1>3 DEF CloseFolder
  <2> QED
    BY <2>1, <2>2, <2>3
<1>4. CASE RequestSync(j) \/ ListSelectedFolders(j) \/ ConnectFails(j) \/ RunStoreFails(j)
  BY <1>4 DEF RequestSync, ListSelectedFolders, ConnectFails, RunStoreFails, Raise
<1>5. CASE \/ NoFoldersSelected(j) \/ ConnectRaisesValueError(j) \/ Finish(j)
           \/ ReportFailure(j) \/ ReportFailureFails(j)
  BY <1>5 DEF NoFoldersSelected, ConnectRaisesValueError, Finish, ReportFailure, ReportFailureFails,
     Return, Discard, Wiped
<1>6. ASSUME NEW f \in Folders, Search(j, f) \/ SearchFails(j, f) PROVE FolderIsAhead(j)'
  BY <1>6 DEF Search, SearchFails, FailFolder
<1>7. CASE \/ FolderStoreFails(j) \/ FinishFolder(j) \/ MarkStale(j) \/ ReadMissing(j)
           \/ PublishProgress(j) \/ NextMessage(j) \/ Save(j)
  BY <1>7 DEF FolderStoreFails, FailFolder, FinishFolder, MarkStale, ReadMissing, PublishProgress,
     NextMessage, Save
<1>8. CASE Fetch(j) \/ FetchFindsNothing(j) \/ FetchRefused(j) \/ FetchLosesConnection(j)
           \/ FetchNotPossible(j) \/ Reconnect(j) \/ ReconnectFails(j) \/ SaveFails(j)
  BY <1>8
  DEF Fetch, FetchFindsNothing, FetchRefused, FetchLosesConnection, FetchNotPossible, Reconnect,
      ReconnectFails, SaveFails, Interrupt, RetryLater, FailMessage
<1> QED
  BY <1>1, <1>2, <1>3, <1>4, <1>5, <1>6, <1>7, <1>8, JobCases

\* A run at the head of its loop over the folders always has a folder to go to,
\* whatever order the names sort in.  (sync_service.py:90-121)
THEOREM LoopHasAFolder ==
  Spec => [](\A j \in Jobs : pc[j] = "search" => \E f \in Folders : IsNext(j, f))
<1> DEFINE AheadInv == \A j \in Jobs : FolderIsAhead(j)
<1>1. Init => AheadInv
  BY DEF Init, JobInit, FolderIsAhead
<1>2. TypeInv /\ WorkInv /\ AheadInv /\ [Next]_vars => AheadInv'
  <2> SUFFICES ASSUME TypeInv, WorkInv, AheadInv, [Next]_vars PROVE AheadInv'
    OBVIOUS
  <2>1. ASSUME NEW j \in Jobs, RequestSync(j) \/ JobStep(j) PROVE AheadInv'
    <3>1. ASSUME NEW i \in Jobs \ {j} PROVE FolderIsAhead(i)'
      BY <2>1, OthersStay DEF SameLocals, FolderIsAhead
    <3> QED
      BY <2>1, <3>1, FolderIsAheadStep
  <2>2. CASE Crash
    BY <2>2 DEF Crash, Discard, Wiped, FolderIsAhead
  <2>3. CASE UNCHANGED jobVars
    BY <2>3 DEF jobVars, runVars, FolderIsAhead
  <2> QED
    BY <2>1, <2>2, <2>3 DEF Next, vars, SaveSelectedFolders
<1>3. TypeInv /\ AheadInv => \A j \in Jobs : pc[j] = "search" => \E f \in Folders : IsNext(j, f)
  <2> SUFFICES ASSUME TypeInv, AheadInv, NEW j \in Jobs, pc[j] = "search"
               PROVE  \E f \in Folders : IsNext(j, f)
    OBVIOUS
  <2>1. todo[j] \in SUBSET Folders /\ todo[j] # {}
    BY DEF FolderIsAhead, TypeInv, TypeOK, JobTypeOK
  <2> QED
    BY <2>1, SomeFolderIsFirst DEF IsNext
<1> QED
  BY <1>1, <1>2, <1>3, WorkInvHolds, TypeCorrectness, PTL DEF Spec
=============================================================================
