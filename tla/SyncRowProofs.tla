--------------------------- MODULE SyncRowProofs ----------------------------
(***************************************************************************)
(* What the rows of the store hold, for every value of the constants.      *)
(*                                                                         *)
(* The argument: the UIDVALIDITY a job files under was that of the mailbox *)
(* at its search, and every connection it fetches over has opened the same *)
(* mailbox at the search or later.  A mailbox's UIDVALIDITY only grows, so *)
(* what is fetched is of the life the key names or of a later one.         *)
(***************************************************************************)
EXTENDS SyncTypeProofs

\* How a job's connection, its locals and the message in its hand relate.
Labelled(j) ==
  /\ session[j].state = "selected" => session[j].epoch <= epoch[session[j].folder]
  /\ pc[j] \in FolderSteps => uv[j] <= epoch[cur[j]]
  /\ pc[j] \in FolderSteps /\ session[j].state = "selected" =>
       session[j].folder = cur[j] /\ uv[j] <= session[j].epoch
  /\ pc[j] = "save" =>
       /\ fetched[j].folder = cur[j]
       /\ uv[j] <= fetched[j].epoch /\ fetched[j].epoch <= epoch[cur[j]]

RowLabelled(k) ==
  /\ messages[k].origin.folder = k[1]
  /\ k[2] <= messages[k].origin.epoch
  /\ messages[k].origin.epoch <= epoch[k[1]]

JobsLabelled == \A j \in Jobs : Labelled(j)
RowsLabelled == \A k \in Stored : RowLabelled(k)
RowInv == JobsLabelled /\ RowsLabelled

-----------------------------------------------------------------------------
(***************************************************************************)
(* The steps of the jobs.                                                  *)
(***************************************************************************)

LEMMA FailMessageKeepsLabels ==
  ASSUME TypeInv, JobsLabelled, NEW j \in Jobs, pc[j] \in FetchSteps, FailMessage(j),
         UNCHANGED <<session, epoch>>
  PROVE  JobsLabelled'
BY DEF TypeInv, TypeOK, JobTypeOK, JobsLabelled, Labelled, FailMessage, Goto, FolderSteps, FetchSteps

LEMMA InterruptKeepsLabels ==
  ASSUME TypeInv, JobsLabelled, NEW j \in Jobs, pc[j] \in FetchSteps, Interrupt(j),
         UNCHANGED <<session, epoch>>
  PROVE  JobsLabelled'
<1>1. CASE tries[j] < Attempts
  BY <1>1 DEF Interrupt, RetryLater, TypeInv, TypeOK, JobTypeOK, JobsLabelled, Labelled, Goto,
     FolderSteps, FetchSteps, folderVars, fetchVars
<1>2. CASE ~(tries[j] < Attempts)
  BY <1>2, FailMessageKeepsLabels DEF Interrupt
<1> QED
  BY <1>1, <1>2

LEMMA DiscardKeepsLabels ==
  ASSUME TypeInv, JobsLabelled, NEW gone \in SUBSET Jobs, Discard(gone), UNCHANGED epoch
  PROVE  JobsLabelled'
BY DEF TypeInv, TypeOK, ServerTypeOK, JobsLabelled, Labelled, Discard, Wiped, NotOpen, FolderSteps

LEMMA JobsLabelledStep ==
  ASSUME TypeInv, JobsLabelled, NEW j \in Jobs, RequestSync(j) \/ JobStep(j)
  PROVE  JobsLabelled'
<1> USE DEF TypeInv, TypeOK, JobTypeOK, JobsLabelled, Labelled, Goto, FolderSteps, FetchSteps,
            runVars, folderVars, fetchVars, serverVars
<1>1. CASE RequestSync(j) \/ ListSelectedFolders(j) \/ Announce(j)
           \/ ConnectFails(j) \/ RunStoreFails(j)
  BY <1>1 DEF RequestSync, ListSelectedFolders, Announce, ConnectFails, RunStoreFails, Raise
<1>2. CASE \/ NoFoldersSelected(j) \/ ConnectRaisesValueError(j) \/ Finish(j)
           \/ ReportFailure(j) \/ ReportFailureFails(j)
  <2>1. Discard({j}) /\ {j} \in SUBSET Jobs /\ UNCHANGED epoch
    BY <1>2 DEF NoFoldersSelected, ConnectRaisesValueError, Finish, ReportFailure,
       ReportFailureFails, Return
  <2> QED
    BY <2>1, DiscardKeepsLabels
<1>3. CASE Connect(j)
  BY <1>3 DEF Connect, ServerTypeOK, NotOpen
<1>4. ASSUME NEW f \in Folders, Search(j, f) PROVE JobsLabelled'
  BY <1>4 DEF Search, ServerTypeOK, OpenMailbox, Examined, UidValidities
<1>5. ASSUME NEW f \in Folders, SearchFails(j, f) PROVE JobsLabelled'
  BY <1>5 DEF SearchFails, FailFolder, FailedSearch, ServerTypeOK, NotOpen, Examined, UidValidities
<1>6. CASE FolderStoreFails(j)
  BY <1>6 DEF FolderStoreFails, FailFolder
<1>7. CASE MarkStale(j) \/ ReadMissing(j) \/ PublishProgress(j) \/ FinishFolder(j) \/ NextMessage(j)
  BY <1>7 DEF MarkStale, ReadMissing, PublishProgress, FinishFolder, NextMessage
<1>8. CASE Fetch(j)
  BY <1>8 DEF Fetch, ServesUid, OriginOf, LeavesTheRest
<1>9. CASE FetchFindsNothing(j) \/ FetchRefused(j) \/ FetchNotPossible(j)
  BY <1>9, FailMessageKeepsLabels, InterruptKeepsLabels
  DEF FetchFindsNothing, FetchRefused, FetchNotPossible, LeavesTheRest
<1>10. CASE FetchLosesConnection(j)
  BY <1>10 DEF FetchLosesConnection, LeavesTheRest, Interrupt, RetryLater, FailMessage, NotOpen,
     ServerTypeOK
<1>11. CASE Reconnect(j)
  <2>1. cur[j] \in Folders /\ session' = [session EXCEPT ![j] = Examined(cur[j])] /\ UNCHANGED epoch
    BY <1>11 DEF Reconnect, OpenMailbox, LeavesTheRest, Placed
  <2>2. CASE epoch[cur[j]] = uv[j]
    BY <1>11, <2>1, <2>2 DEF Reconnect, ServerTypeOK, Examined, UidValidities
  <2>3. CASE epoch[cur[j]] # uv[j]
    BY <1>11, <2>1, <2>3 DEF Reconnect, FailMessage, ServerTypeOK, Examined, UidValidities
  <2> QED
    BY <2>2, <2>3
<1>12. CASE ReconnectFails(j)
  <2>1. cur[j] \in Folders /\ UNCHANGED epoch
    BY <1>12 DEF ReconnectFails, LeavesTheRest, Placed
  <2> QED
    BY <1>12, <2>1 DEF ReconnectFails, FailedReconnect, FailMessage, ServerTypeOK, NotOpen, Examined,
       UidValidities
<1>13. CASE Save(j)
  BY <1>13 DEF Save
<1>14. CASE SaveFails(j)
  BY <1>14, FailMessageKeepsLabels DEF SaveFails, LeavesTheRest
<1>15. CASE CloseFolder(j)
  BY <1>15 DEF CloseFolder, ServerTypeOK, NotOpen
<1> QED
  BY <1>1, <1>2, <1>3, <1>4, <1>5, <1>6, <1>7, <1>8, <1>9, <1>10, <1>11, <1>12, <1>13, <1>14,
     <1>15, JobCases

\* Only two steps of a job change the messages table.
LEMMA OnlyMarkAndSaveWrite ==
  ASSUME NEW j \in Jobs, RequestSync(j) \/ JobStep(j)
  PROVE  MarkStale(j) \/ Save(j) \/ UNCHANGED <<messages, attachments>>
<1> USE DEF storeVars, rowVars
<1>1. ASSUME NEW f \in Folders, Search(j, f) \/ SearchFails(j, f)
      PROVE UNCHANGED <<messages, attachments>>
  BY <1>1 DEF Search, SearchFails, FailFolder
<1>2. CASE RequestSync(j) \/ ListSelectedFolders(j) \/ Announce(j) \/ NoFoldersSelected(j)
           \/ Connect(j) \/ ConnectFails(j) \/ ConnectRaisesValueError(j) \/ NextMessage(j)
           \/ ReadMissing(j) \/ PublishProgress(j) \/ FinishFolder(j) \/ CloseFolder(j)
           \/ Finish(j) \/ ReportFailure(j) \/ ReportFailureFails(j) \/ RunStoreFails(j)
           \/ FolderStoreFails(j)
  BY <1>2 DEF RequestSync, ListSelectedFolders, Announce, NoFoldersSelected, Connect, ConnectFails,
     ConnectRaisesValueError, NextMessage, ReadMissing, PublishProgress, FinishFolder, CloseFolder,
     Finish, ReportFailure, ReportFailureFails, RunStoreFails, FolderStoreFails, Raise, FailFolder
<1>3. CASE Fetch(j) \/ FetchFindsNothing(j) \/ FetchRefused(j) \/ FetchLosesConnection(j)
           \/ FetchNotPossible(j) \/ Reconnect(j) \/ ReconnectFails(j) \/ SaveFails(j)
  BY <1>3 DEF Fetch, FetchFindsNothing, FetchRefused, FetchLosesConnection, FetchNotPossible,
     Reconnect, ReconnectFails, SaveFails, LeavesTheRest
<1> QED
  BY <1>1, <1>2, <1>3, JobCases

LEMMA RowsLabelledStep ==
  ASSUME TypeInv, RowInv, NEW j \in Jobs, RequestSync(j) \/ JobStep(j)
  PROVE  RowsLabelled'
<1>0. UNCHANGED epoch
  BY StoreTypes DEF serverVars
<1>1. CASE MarkStale(j)
  <2>1. \A k \in RowKeys : /\ messages'[k] = NoRow <=> messages[k] = NoRow
                           /\ messages[k] # NoRow => messages'[k].origin = messages[k].origin
    BY <1>1, NoRowAssumption
    DEF MarkStale, MarkFolderStale, StaleRows, Stored, TypeInv, TypeOK, StoreTypeOK, Rows
  <2> QED
    BY <1>0, <2>1 DEF RowInv, RowsLabelled, RowLabelled, Stored
<1>2. CASE Save(j)
  <2>1. RowKey(j) \in RowKeys
    BY <1>2 DEF Save, RowKey, RowKeys, TypeInv, Placed, FolderSteps, FetchSteps
  <2>2. messages' = [messages EXCEPT ![RowKey(j)] = [origin |-> fetched[j], stale |-> FALSE]]
    BY <1>2 DEF Save, SaveMessage
  <2>3. \A k \in RowKeys : k # RowKey(j) => messages'[k] = messages[k]
    BY <2>2 DEF TypeInv, TypeOK, StoreTypeOK
  <2>4. messages'[RowKey(j)].origin = fetched[j]
    BY <2>1, <2>2 DEF TypeInv, TypeOK, StoreTypeOK
  <2>5. /\ fetched[j].folder = cur[j]
        /\ uv[j] <= fetched[j].epoch /\ fetched[j].epoch <= epoch[cur[j]]
    BY <1>2 DEF Save, RowInv, JobsLabelled, Labelled
  <2>6. ASSUME NEW k \in Stored'
        PROVE /\ messages'[k].origin.folder = k[1]
              /\ k[2] <= messages'[k].origin.epoch /\ messages'[k].origin.epoch <= epoch[k[1]]
    <3>1. CASE k = RowKey(j)
      BY <2>4, <2>5, <3>1 DEF RowKey
    <3>2. CASE k # RowKey(j)
      <4>1. k \in RowKeys /\ messages'[k] = messages[k]
        BY <2>3, <3>2 DEF Stored
      <4>2. k \in Stored
        BY <4>1 DEF Stored
      <4> QED
        BY <4>1, <4>2 DEF RowInv, RowsLabelled, RowLabelled
    <3> QED
      BY <3>1, <3>2
  <2> QED
    BY <1>0, <2>6 DEF RowsLabelled, RowLabelled
<1>3. CASE UNCHANGED messages
  BY <1>0, <1>3 DEF RowInv, RowsLabelled, RowLabelled, Stored
<1> QED
  BY <1>1, <1>2, <1>3, OnlyMarkAndSaveWrite

-----------------------------------------------------------------------------
(***************************************************************************)
(* The steps of the server, and the theorems.                              *)
(***************************************************************************)

\* A mailbox's UIDVALIDITY never goes back.
LEMMA EpochsGrow ==
  ASSUME TypeInv, ServerStep
  PROVE  \A f \in Folders : epoch[f] <= epoch'[f]
BY DEF TypeInv, TypeOK, ServerTypeOK, ServerStep, Deliver, Expunge, Recreate, UidValidities

LEMMA ServerKeepsRowInv ==
  ASSUME TypeInv, RowInv, ServerStep, UNCHANGED <<storeVars, jobVars, userVars, faults>>
  PROVE  RowInv'
<1>1. epoch' \in [Folders -> UidValidities] /\ UNCHANGED session
  BY ServerStepTypes DEF TypeInv, TypeOK, ServerTypeOK, ServerStep, Deliver, Expunge, Recreate
<1>2. ASSUME NEW j \in Jobs PROVE Labelled(j)'
  <2>1. session[j].state = "selected" => session[j].folder \in Folders /\ session[j].epoch \in UidValidities
    BY DEF TypeInv, TypeOK, ServerTypeOK, Sessions
  <2>2. Labelled(j) /\ Placed(j)
    BY DEF TypeInv, RowInv, JobsLabelled
  <2>3. pc[j] = "save" => fetched[j].epoch \in UidValidities
    BY <2>2 DEF Placed, Origins
  <2> QED
    BY <1>1, <2>1, <2>2, <2>3, EpochsGrow
    DEF TypeInv, TypeOK, ServerTypeOK, Labelled, Placed, UidValidities, FolderSteps,
        jobVars, folderVars, fetchVars
<1>3. ASSUME NEW k \in Stored PROVE RowLabelled(k)'
  <2>1. RowLabelled(k) /\ k[1] \in Folders /\ messages[k].origin.epoch \in UidValidities
    BY DEF RowInv, RowsLabelled, Stored, RowKeys, TypeInv, TypeOK, StoreTypeOK, Rows, Origins
  <2> QED
    BY <1>1, <2>1, EpochsGrow
    DEF TypeInv, TypeOK, ServerTypeOK, RowLabelled, UidValidities, storeVars
<1> QED
  BY <1>2, <1>3 DEF RowInv, JobsLabelled, RowsLabelled, Stored, storeVars

LEMMA RowInvInit == Init => RowInv
BY DEF Init, ServerInit, StoreInit, JobInit, RowInv, JobsLabelled, RowsLabelled, Labelled, Stored,
   NotOpen, FolderSteps

LEMMA RowInvStep == TypeInv /\ RowInv /\ [Next]_vars => RowInv'
<1> SUFFICES ASSUME TypeInv, RowInv, [Next]_vars PROVE RowInv'
  OBVIOUS
<1>1. CASE ServerStep /\ UNCHANGED <<storeVars, jobVars, userVars, faults>>
  BY <1>1, ServerKeepsRowInv
<1>2. ASSUME NEW j \in Jobs, RequestSync(j) \/ JobStep(j) PROVE RowInv'
  BY <1>2, JobsLabelledStep, RowsLabelledStep DEF RowInv
<1>3. CASE Crash
  BY <1>3, DiscardKeepsLabels
  DEF Crash, RowInv, RowsLabelled, RowLabelled, Stored, serverVars, storeVars
<1>4. CASE SaveSelectedFolders \/ UNCHANGED vars
  BY <1>4
  DEF SaveSelectedFolders, vars, RowInv, JobsLabelled, Labelled, RowsLabelled, RowLabelled, Stored,
      serverVars, rowVars, storeVars, jobVars, folderVars, fetchVars
<1> QED
  BY <1>1, <1>2, <1>3, <1>4 DEF Next

\* Rows and connections agree on the mailbox, and content is never older than
\* the UIDVALIDITY it is filed under.
THEOREM RowInvHolds == Spec => []RowInv
BY RowInvInit, RowInvStep, TypeCorrectness, PTL DEF Spec

LEMMA RowInvMeans == TypeInv /\ RowInv => RowsAreOfTheirFolder /\ MisfiledRowsAreOutdated
<1> SUFFICES ASSUME TypeInv, RowInv PROVE RowsAreOfTheirFolder /\ MisfiledRowsAreOutdated
  OBVIOUS
<1>1. RowsAreOfTheirFolder
  BY DEF RowInv, RowsLabelled, RowLabelled, RowsAreOfTheirFolder
<1>2. ASSUME NEW k \in Stored, messages[k].origin.epoch # k[2]
      PROVE  k[2] < messages[k].origin.epoch /\ k[2] < epoch[k[1]]
  <2>1. k \in RowKeys /\ messages[k] \in Rows
    BY DEF TypeInv, TypeOK, StoreTypeOK, Stored
  <2>2. k[1] \in Folders /\ k[2] \in UidValidities /\ messages[k].origin.epoch \in UidValidities
    BY <2>1 DEF RowKeys, Rows, Origins
  <2>3. epoch[k[1]] \in UidValidities
    BY <2>2 DEF TypeInv, TypeOK, ServerTypeOK
  <2> QED
    BY <1>2, <2>2, <2>3 DEF RowInv, RowsLabelled, RowLabelled, UidValidities
<1> QED
  BY <1>1, <1>2 DEF MisfiledRowsAreOutdated

\* No message is ever stored under a folder it was not read from, whatever
\* number of jobs runs and however their connections fail.
THEOREM RowsKeepTheirFolder == Spec => []RowsAreOfTheirFolder
BY RowInvMeans, TypeCorrectness, RowInvHolds, PTL

\* Content of another life of a mailbox than its key names is of a later one,
\* so the next synchronisation of the folder hides it.
THEOREM MisfiledRowsCanHeal == Spec => []MisfiledRowsAreOutdated
BY RowInvMeans, TypeCorrectness, RowInvHolds, PTL

-----------------------------------------------------------------------------
(***************************************************************************)
(* Jobs apart.  Any number of jobs may run, as long as no two are in one   *)
(* folder at the same time.  From the moment a folder's stale rows are     *)
(* marked to its end, what is visible of it has the UIDVALIDITY of the     *)
(* search, and what the job still has to fetch is not visible.             *)
(***************************************************************************)

Apart ==
  \A i, j \in Jobs : pc[i] \in FolderSteps /\ pc[j] \in FolderSteps /\ cur[i] = cur[j] => i = j

\* Requests that do not overlap are apart, and so is one alone.
LEMMA NoOverlapIsApart == (\A i, j \in Jobs : Running(i) /\ Running(j) => i = j) => Apart
BY DEF Apart, Running, FolderSteps, FetchSteps

FolderIsOwn(j) ==
  /\ pc[j] \in FolderSteps \ {"mark"} => \A k \in Visible : k[1] = cur[j] => k[2] = uv[j]
  /\ pc[j] \in FolderSteps \ {"mark", "missing"} =>
       \A u \in uids[j] : <<cur[j], uv[j], u>> \notin Visible
  /\ pc[j] \in FetchSteps => uid[j] \in uids[j]

OwnInv == OneVisibleEpoch /\ \A j \in Jobs : FolderIsOwn(j)

LEMMA MarkVisible ==
  ASSUME TypeInv, NEW j \in Jobs, MarkStale(j)
  PROVE  /\ Visible' = {k \in Visible : k[1] = cur[j] => k[2] = uv[j]}
         /\ \A k \in Stored : messages'[k].origin = messages[k].origin
<1>1. \A k \in RowKeys : messages[k] # NoRow => messages[k] \in Rows
  BY DEF TypeInv, TypeOK, StoreTypeOK
<1>2. \A k \in RowKeys : messages'[k] = IF k \in Stored /\ k[1] = cur[j] /\ k[2] # uv[j]
                                         THEN [messages[k] EXCEPT !.stale = TRUE]
                                         ELSE messages[k]
  BY DEF MarkStale, MarkFolderStale, StaleRows
<1>3. \A k \in Stored : [messages[k] EXCEPT !.stale = TRUE] \in [origin : Origins, stale : BOOLEAN]
  BY <1>1 DEF Stored, Rows
<1>4. ASSUME NEW k \in RowKeys PROVE messages'[k] = NoRow <=> messages[k] = NoRow
  <2>1. CASE k \in Stored /\ k[1] = cur[j] /\ k[2] # uv[j]
    <3>1. messages'[k] \in [origin : Origins, stale : BOOLEAN]
      BY <1>2, <1>3, <2>1
    <3> QED
      BY <2>1, <3>1, NoRowAssumption DEF Stored
  <2> QED
    BY <1>2, <2>1
<1>5. Stored' = Stored
  BY <1>4 DEF Stored
<1> QED
  BY <1>1, <1>2, <1>5 DEF Visible, Stored, Rows

LEMMA SaveVisible ==
  ASSUME TypeInv, NEW j \in Jobs, Save(j)
  PROVE  /\ RowKey(j) \in RowKeys
         /\ Visible' = Visible \cup {RowKey(j)}
         /\ \A k \in RowKeys \ {RowKey(j)} : messages'[k] = messages[k]
<1>1. RowKey(j) \in RowKeys /\ fetched[j] \in Origins
  BY DEF Save, RowKey, RowKeys, TypeInv, Placed, FolderSteps, FetchSteps
<1>2. messages' = [messages EXCEPT ![RowKey(j)] = [origin |-> fetched[j], stale |-> FALSE]]
  BY DEF Save, SaveMessage
<1>3. /\ messages'[RowKey(j)] = [origin |-> fetched[j], stale |-> FALSE]
      /\ \A k \in RowKeys \ {RowKey(j)} : messages'[k] = messages[k]
  BY <1>1, <1>2 DEF TypeInv, TypeOK, StoreTypeOK
<1>4. [origin |-> fetched[j], stale |-> FALSE] \in [origin : Origins, stale : BOOLEAN]
  BY <1>1
<1> QED
  BY <1>1, <1>3, <1>4, NoRowAssumption DEF Visible, Stored

LEMMA DiscardKeepsOwn ==
  ASSUME TypeInv, OwnInv, NEW gone \in SUBSET Jobs, Discard(gone), UNCHANGED messages
  PROVE  OwnInv'
BY DEF TypeInv, TypeOK, JobTypeOK, OwnInv, OneVisibleEpoch, FolderIsOwn, Visible, Stored, Discard,
   Wiped, FolderSteps, FetchSteps

LEMMA FailMessageKeepsOwn ==
  ASSUME TypeInv, OwnInv, NEW j \in Jobs, pc[j] \in FetchSteps, FailMessage(j), LeavesTheRest
  PROVE  OwnInv'
BY DEF TypeInv, TypeOK, JobTypeOK, OwnInv, OneVisibleEpoch, FolderIsOwn, Visible, Stored, FailMessage,
   LeavesTheRest, Goto, FolderSteps, FetchSteps, storeVars, rowVars

LEMMA RetryKeepsOwn ==
  ASSUME TypeInv, OwnInv, NEW j \in Jobs, pc[j] \in FetchSteps, RetryLater(j), LeavesTheRest
  PROVE  OwnInv'
BY DEF TypeInv, TypeOK, JobTypeOK, OwnInv, OneVisibleEpoch, FolderIsOwn, Visible, Stored, RetryLater,
   LeavesTheRest, Goto, FolderSteps, FetchSteps, storeVars, rowVars, folderVars, fetchVars

LEMMA OwnStep ==
  ASSUME Apart, TypeInv, OwnInv, NEW j \in Jobs, RequestSync(j) \/ JobStep(j)
  PROVE  OwnInv'
<1> USE DEF TypeInv, TypeOK, JobTypeOK, OwnInv, OneVisibleEpoch, FolderIsOwn, Goto, FolderSteps,
            FetchSteps, runVars, folderVars, fetchVars, storeVars, rowVars
<1>0. UNCHANGED messages => Visible' = Visible
  BY DEF Visible, Stored
<1>1. CASE RequestSync(j) \/ ListSelectedFolders(j) \/ Announce(j) \/ Connect(j)
  BY <1>0, <1>1 DEF RequestSync, ListSelectedFolders, Announce, Connect
<1>2. CASE ConnectFails(j) \/ RunStoreFails(j)
  BY <1>0, <1>2 DEF ConnectFails, RunStoreFails, Raise
<1>3. CASE \/ NoFoldersSelected(j) \/ ConnectRaisesValueError(j) \/ Finish(j)
           \/ ReportFailure(j) \/ ReportFailureFails(j)
  <2>1. Discard({j}) /\ {j} \in SUBSET Jobs /\ UNCHANGED messages
    BY <1>3 DEF NoFoldersSelected, ConnectRaisesValueError, Finish, ReportFailure,
       ReportFailureFails, Return
  <2> QED
    BY <2>1, DiscardKeepsOwn
<1>4. ASSUME NEW f \in Folders, Search(j, f) \/ SearchFails(j, f) PROVE OwnInv'
  BY <1>0, <1>4 DEF Search, SearchFails, FailFolder
<1>5. CASE FolderStoreFails(j) \/ FinishFolder(j) \/ CloseFolder(j)
  BY <1>0, <1>5 DEF FolderStoreFails, FailFolder, FinishFolder, CloseFolder
<1>6. CASE MarkStale(j)
  <2>1. /\ Visible' \subseteq Visible
        /\ \A k \in Visible' : k[1] = cur[j] => k[2] = uv[j]
    BY <1>6, MarkVisible
  <2>2. pc' = [pc EXCEPT ![j] = "missing"] /\ UNCHANGED <<cur, uv, uid, uids>>
    BY <1>6 DEF MarkStale
  <2>3. ASSUME NEW i \in Jobs PROVE FolderIsOwn(i)'
    BY <2>1, <2>2
  <2> QED
    BY <2>1, <2>3
<1>7. CASE ReadMissing(j)
  BY <1>0, <1>7 DEF ReadMissing, MissingUids
<1>8. CASE PublishProgress(j)
  BY <1>0, <1>8 DEF PublishProgress
<1>9. CASE NextMessage(j)
  BY <1>0, <1>9 DEF NextMessage
<1>10. CASE FetchFindsNothing(j) \/ FetchRefused(j) \/ FetchLosesConnection(j)
            \/ FetchNotPossible(j) \/ ReconnectFails(j) \/ SaveFails(j)
  BY <1>10, FailMessageKeepsOwn, RetryKeepsOwn
  DEF FetchFindsNothing, FetchRefused, FetchLosesConnection, FetchNotPossible, ReconnectFails,
      SaveFails, Interrupt
<1>11. CASE Fetch(j)
  BY <1>0, <1>11 DEF Fetch, LeavesTheRest
<1>12. CASE Reconnect(j)
  <2>1. CASE epoch[cur[j]] = uv[j]
    BY <1>0, <1>12, <2>1 DEF Reconnect, LeavesTheRest
  <2>2. CASE epoch[cur[j]] # uv[j]
    BY <1>12, <2>2, FailMessageKeepsOwn DEF Reconnect
  <2> QED
    BY <2>1, <2>2
<1>13. CASE Save(j)
  <2>1. Visible' = Visible \cup {RowKey(j)}
    BY <1>13, SaveVisible
  <2>2. OneVisibleEpoch'
    BY <1>13, <2>1 DEF Save, RowKey
  <2>3. /\ pc' = [pc EXCEPT ![j] = "progress"] /\ UNCHANGED <<cur, uv>>
        /\ uids' = [uids EXCEPT ![j] = @ \ {uid[j]}]
    BY <1>13 DEF Save
  <2>4. FolderIsOwn(j)'
    BY <1>13, <2>1, <2>3 DEF Save, RowKey
  <2>5. ASSUME NEW i \in Jobs \ {j} PROVE FolderIsOwn(i)'
    <3>1. SameLocals(i)
      BY OthersStay
    <3>2. pc[i] \in FolderSteps => cur[i] # cur[j]
      BY <1>13 DEF Apart, Save
    <3> QED
      BY <2>1, <3>1, <3>2 DEF SameLocals, RowKey
  <2> QED
    BY <2>2, <2>4, <2>5
<1> QED
  BY <1>1, <1>2, <1>3, <1>4, <1>5, <1>6, <1>7, <1>8, <1>9, <1>10, <1>11, <1>12, <1>13, JobCases

LEMMA OwnInvStep == ASSUME Apart, TypeInv, OwnInv, [Next]_vars PROVE OwnInv'
<1>1. ASSUME NEW j \in Jobs, RequestSync(j) \/ JobStep(j) PROVE OwnInv'
  BY <1>1, OwnStep
<1>2. CASE Crash
  BY <1>2, DiscardKeepsOwn DEF Crash, storeVars, rowVars
<1>3. CASE UNCHANGED <<messages, jobVars>>
  BY <1>3 DEF OwnInv, OneVisibleEpoch, FolderIsOwn, Visible, Stored, jobVars, folderVars, fetchVars
<1> QED
  BY <1>1, <1>2, <1>3 DEF Next, vars, storeVars, rowVars, SaveSelectedFolders

\* What a job may rely on while it works on a folder alone: nothing but its own
\* saves makes a message of the folder visible (sync_service.py:157-204).
THEOREM OwnInvHolds == Spec /\ []Apart => []OwnInv
<1>1. Init => OwnInv
  BY DEF Init, StoreInit, JobInit, OwnInv, OneVisibleEpoch, FolderIsOwn, Visible, Stored, FolderSteps,
     FetchSteps
<1>2. Apart /\ TypeInv /\ OwnInv /\ [Next]_vars => OwnInv'
  BY OwnInvStep
<1> QED
  BY <1>1, <1>2, TypeCorrectness, PTL DEF Spec

\* While no two jobs are in one folder at the same time, a folder never shows
\* messages of two UIDVALIDITY values, whatever fails and whenever the process
\* stops.
THEOREM OneEpochIsVisible == Spec /\ []Apart => []OneVisibleEpoch
<1>1. OwnInv => OneVisibleEpoch
  BY DEF OwnInv
<1> QED
  BY <1>1, OwnInvHolds, PTL

\* While no two jobs are in one folder at the same time, what is shown under a
\* reference is not replaced by other content.
THEOREM ShownMessagesStay == Spec /\ []Apart => ShownMessagesDoNotChange
<1>1. ASSUME TypeInv, OwnInv, [Next]_vars
      PROVE  \A k \in Visible : messages'[k].origin = messages[k].origin
  <2>1. ASSUME NEW j \in Jobs, MarkStale(j)
        PROVE  \A k \in Visible : messages'[k].origin = messages[k].origin
    BY <1>1, <2>1, MarkVisible DEF Visible
  <2>2. ASSUME NEW j \in Jobs, Save(j)
        PROVE  \A k \in Visible : messages'[k].origin = messages[k].origin
    <3>1. RowKey(j) \notin Visible
      BY <1>1, <2>2 DEF Save, RowKey, OwnInv, FolderIsOwn, FolderSteps, FetchSteps
    <3> QED
      BY <1>1, <2>2, <3>1, SaveVisible DEF Visible, Stored
  <2>3. UNCHANGED messages \/ \E j \in Jobs : MarkStale(j) \/ Save(j)
    BY <1>1, OnlyMarkAndSaveWrite DEF Next, vars, storeVars, rowVars, SaveSelectedFolders, Crash
  <2> QED
    BY <1>1, <2>1, <2>2, <2>3
<1>2. TypeInv /\ OwnInv /\ [Next]_vars =>
        [\A k \in Visible : messages'[k].origin = messages[k].origin]_vars
  BY <1>1
<1> QED
  BY <1>2, OwnInvHolds, TypeCorrectness, PTL DEF Spec, ShownMessagesDoNotChange

-----------------------------------------------------------------------------
(***************************************************************************)
(* Jobs apart.  A row that is stale has a UIDVALIDITY below the server's,  *)
(* so that no later search asks for it again: what has been stored under a *)
(* reference stays, and its attachments are its own.                       *)
(***************************************************************************)

BehindSearch(j) ==
  pc[j] \in FolderSteps =>
    \A k \in Stored : k[1] = cur[j] => k[2] <= uv[j] /\ (messages[k].stale => k[2] < uv[j])

FinalInv ==
  /\ \A k \in RowKeys : attachments[k] = IF k \in Stored THEN {messages[k].origin} ELSE {}
  /\ \A k \in Stored : messages[k].stale => k[2] < epoch[k[1]]
  /\ \A j \in Jobs : BehindSearch(j)

AllInv == TypeInv /\ RowInv /\ OwnInv /\ FinalInv

\* What has been stored is never replaced.
Kept == \A k \in Stored : k \in Stored' /\ messages'[k].origin = messages[k].origin

LEMMA StoredKeys ==
  ASSUME TypeInv, RowInv, NEW k \in Stored
  PROVE  /\ k \in RowKeys /\ k[1] \in Folders /\ k[2] \in Nat
         /\ epoch[k[1]] \in Nat /\ k[2] <= epoch[k[1]]
         /\ messages[k] \in [origin : Origins, stale : BOOLEAN]
<1>1. k \in RowKeys /\ messages[k] \in Rows
  BY DEF TypeInv, TypeOK, StoreTypeOK, Stored
<1>2. k[1] \in Folders /\ k[2] \in UidValidities /\ messages[k].origin.epoch \in UidValidities
  BY <1>1 DEF RowKeys, Rows, Origins
<1>3. epoch[k[1]] \in UidValidities
  BY <1>2 DEF TypeInv, TypeOK, ServerTypeOK
<1> QED
  BY <1>1, <1>2, <1>3 DEF RowInv, RowsLabelled, RowLabelled, UidValidities, Rows

\* A job saves only what is not stored.
LEMMA SavesAreNew ==
  ASSUME AllInv, NEW j \in Jobs, Save(j)
  PROVE  /\ RowKey(j) \in RowKeys \ Stored
         /\ messages' = [messages EXCEPT ![RowKey(j)] = [origin |-> fetched[j], stale |-> FALSE]]
         /\ attachments' = [attachments EXCEPT ![RowKey(j)] = {fetched[j]}]
<1>1. RowKey(j) \in RowKeys
  BY SaveVisible DEF AllInv
<1>2. RowKey(j) \notin Visible
  BY DEF AllInv, Save, RowKey, OwnInv, FolderIsOwn, FolderSteps, FetchSteps
<1>3. RowKey(j) \notin Stored
  <2> SUFFICES ASSUME RowKey(j) \in Stored PROVE FALSE
    OBVIOUS
  <2>1. messages[RowKey(j)].stale
    BY <1>2 DEF Visible
  <2>2. RowKey(j)[1] = cur[j] /\ RowKey(j)[2] = uv[j]
    BY DEF RowKey
  <2>3. uv[j] < uv[j]
    BY <2>1, <2>2 DEF AllInv, FinalInv, BehindSearch, Save, FolderSteps, FetchSteps
  <2>4. uv[j] \in Nat
    BY <2>2, StoredKeys DEF AllInv
  <2> QED
    BY <2>3, <2>4
<1>4. attachments[RowKey(j)] = {}
  BY <1>1, <1>3 DEF AllInv, FinalInv
<1>5. PICK old \in SUBSET attachments[RowKey(j)] :
        attachments' = [attachments EXCEPT ![RowKey(j)] = old \cup {fetched[j]}]
  BY DEF Save, SaveMessage
<1> QED
  BY <1>1, <1>3, <1>4, <1>5 DEF Save, SaveMessage

LEMMA FinalJobStep ==
  ASSUME Apart, AllInv, NEW j \in Jobs, RequestSync(j) \/ JobStep(j)
  PROVE  FinalInv' /\ Kept
<1>0. UNCHANGED epoch /\ \A i \in Jobs \ {j} : SameLocals(i)
  BY StoreTypes, OthersStay DEF serverVars, AllInv
<1>1. CASE Save(j)
  <2>1. /\ RowKey(j) \in RowKeys \ Stored
        /\ messages'[RowKey(j)] = [origin |-> fetched[j], stale |-> FALSE]
        /\ attachments'[RowKey(j)] = {fetched[j]}
        /\ \A k \in RowKeys \ {RowKey(j)} :
             messages'[k] = messages[k] /\ attachments'[k] = attachments[k]
    BY <1>1, SavesAreNew DEF AllInv, TypeInv, TypeOK, StoreTypeOK
  <2>2. fetched[j] \in Origins
    BY <1>1 DEF AllInv, Save, TypeInv, Placed
  <2>3. messages'[RowKey(j)] # NoRow
    <3>1. [origin |-> fetched[j], stale |-> FALSE] \in [origin : Origins, stale : BOOLEAN]
      BY <2>2
    <3> QED
      BY <2>1, <3>1, NoRowAssumption
  <2>4. Stored' = Stored \cup {RowKey(j)}
    BY <2>1, <2>3 DEF Stored
  <2>5. \A k \in RowKeys : attachments'[k] = IF k \in Stored' THEN {messages'[k].origin} ELSE {}
    <3>1. messages'[RowKey(j)].origin = fetched[j] /\ RowKey(j) \in Stored'
      BY <2>1, <2>4
    <3>2. \A k \in RowKeys \ {RowKey(j)} : k \in Stored' <=> k \in Stored
      BY <2>4
    <3>3. \A k \in RowKeys : attachments[k] = IF k \in Stored THEN {messages[k].origin} ELSE {}
      BY DEF AllInv, FinalInv
    <3> QED
      BY <2>1, <3>1, <3>2, <3>3
  <2>6. \A k \in Stored' : messages'[k].stale => k[2] < epoch'[k[1]]
    BY <1>0, <2>1, <2>4 DEF AllInv, FinalInv, Stored
  <2>7. BehindSearch(j)'
    <3>1. pc[j] \in FolderSteps /\ UNCHANGED <<cur, uv>>
      BY <1>1 DEF Save, FolderSteps, FetchSteps
    <3>2. RowKey(j)[2] = uv[j] /\ uv[j] \in Nat
      BY <2>1 DEF RowKey, RowKeys, UidValidities
    <3> QED
      BY <2>1, <2>4, <3>1, <3>2 DEF AllInv, FinalInv, BehindSearch, Stored
  <2>8. ASSUME NEW i \in Jobs \ {j} PROVE BehindSearch(i)'
    <3>1. pc[i] \in FolderSteps => cur[i] # cur[j]
      BY <1>1 DEF Apart, Save, FolderSteps
    <3> QED
      BY <1>0, <2>1, <2>4, <3>1 DEF SameLocals, RowKey, AllInv, FinalInv, BehindSearch, Stored
  <2>9. Kept
    BY <2>1, <2>4 DEF Kept, Stored
  <2> QED
    BY <2>5, <2>6, <2>7, <2>8, <2>9 DEF FinalInv
<1>2. CASE MarkStale(j)
  <2>1. \A k \in RowKeys : messages'[k] = IF k \in Stored /\ k[1] = cur[j] /\ k[2] # uv[j]
                                           THEN [messages[k] EXCEPT !.stale = TRUE]
                                           ELSE messages[k]
    BY <1>2 DEF MarkStale, MarkFolderStale, StaleRows
  <2>2. ASSUME NEW k \in Stored
        PROVE  /\ messages'[k] \in [origin : Origins, stale : BOOLEAN]
               /\ messages'[k].origin = messages[k].origin
               /\ messages'[k].stale => messages[k].stale \/ (k[1] = cur[j] /\ k[2] # uv[j])
    BY <2>1, StoredKeys DEF AllInv
  <2>3. Stored' = Stored
    BY <2>1, <2>2, NoRowAssumption DEF Stored
  <2>4. UNCHANGED <<attachments, cur, uv>> /\ pc[j] \in FolderSteps
    BY <1>2 DEF MarkStale, FolderSteps, folderVars
  <2>5. \A k \in RowKeys : attachments'[k] = IF k \in Stored' THEN {messages'[k].origin} ELSE {}
    BY <2>2, <2>3, <2>4 DEF AllInv, FinalInv
  <2>6. uv[j] <= epoch[cur[j]] /\ uv[j] \in Nat
    BY <2>4 DEF AllInv, RowInv, JobsLabelled, Labelled, TypeInv, TypeOK, JobTypeOK, Placed,
       UidValidities, FolderSteps, FetchSteps
  <2>7. ASSUME NEW k \in Stored, messages'[k].stale
        PROVE  k[2] < epoch[k[1]] /\ (k[1] = cur[j] => k[2] < uv[j])
    <3>1. k[2] \in Nat /\ epoch[k[1]] \in Nat
      BY StoredKeys DEF AllInv
    <3>2. CASE messages[k].stale
      BY <2>4, <3>2 DEF AllInv, FinalInv, BehindSearch
    <3>3. CASE k[1] = cur[j] /\ k[2] # uv[j]
      BY <2>4, <2>6, <3>1, <3>3 DEF AllInv, FinalInv, BehindSearch
    <3> QED
      BY <2>2, <2>7, <3>2, <3>3
  <2>8. BehindSearch(j)'
    BY <2>3, <2>4, <2>7 DEF AllInv, FinalInv, BehindSearch
  <2>9. ASSUME NEW i \in Jobs \ {j} PROVE BehindSearch(i)'
    <3>1. pc[i] \in FolderSteps => cur[i] # cur[j]
      BY <2>4 DEF Apart
    <3> QED
      BY <1>0, <2>2, <2>3, <3>1 DEF SameLocals, AllInv, FinalInv, BehindSearch
  <2> QED
    BY <1>0, <2>2, <2>3, <2>5, <2>7, <2>8, <2>9 DEF FinalInv, Kept
<1>3. ASSUME NEW f \in Folders, Search(j, f)
      PROVE  FinalInv' /\ Kept
  <2>1. /\ UNCHANGED <<messages, attachments>>
        /\ cur'[j] = f /\ uv'[j] = epoch[f]
    BY <1>3 DEF Search, storeVars, rowVars, AllInv, TypeInv, TypeOK, JobTypeOK
  <2>2. \A k \in Stored : k[2] <= epoch[k[1]] /\ (messages[k].stale => k[2] < epoch[k[1]])
    BY StoredKeys DEF AllInv, FinalInv
  <2>3. Stored' = Stored /\ UNCHANGED epoch
    BY <1>0, <2>1 DEF Stored
  <2>4. BehindSearch(j)'
    BY <2>1, <2>2, <2>3 DEF AllInv, FinalInv, BehindSearch
  <2>5. ASSUME NEW i \in Jobs \ {j} PROVE BehindSearch(i)'
    BY <1>0, <2>1, <2>3 DEF SameLocals, AllInv, FinalInv, BehindSearch
  <2> QED
    BY <2>1, <2>3, <2>4, <2>5 DEF AllInv, FinalInv, Kept
<1>4. CASE ~Save(j) /\ ~MarkStale(j) /\ ~(\E f \in Folders : Search(j, f))
  <2>1. UNCHANGED <<messages, attachments>>
    BY <1>4, OnlyMarkAndSaveWrite
  <2>2. pc'[j] \in FolderSteps => pc[j] \in FolderSteps /\ cur'[j] = cur[j] /\ uv'[j] = uv[j]
    BY <1>4, FolderStays DEF AllInv
  <2>3. Stored' = Stored /\ UNCHANGED epoch
    BY <1>0, <2>1 DEF Stored
  <2>4. BehindSearch(j)'
    BY <2>1, <2>2, <2>3 DEF AllInv, FinalInv, BehindSearch
  <2>5. ASSUME NEW i \in Jobs \ {j} PROVE BehindSearch(i)'
    BY <1>0, <2>1, <2>3 DEF SameLocals, AllInv, FinalInv, BehindSearch
  <2> QED
    BY <2>1, <2>3, <2>4, <2>5 DEF AllInv, FinalInv, Kept
<1> QED
  BY <1>1, <1>2, <1>3, <1>4

\* The four invariants step together.
LEMMA FinalStep == ASSUME Apart, AllInv, [Next]_vars PROVE FinalInv' /\ Kept
<1>1. ASSUME NEW j \in Jobs, RequestSync(j) \/ JobStep(j) PROVE FinalInv' /\ Kept
  BY <1>1, FinalJobStep
<1>2. CASE ServerStep /\ UNCHANGED <<storeVars, jobVars, userVars, faults>>
  <2>1. UNCHANGED <<messages, attachments, pc, cur, uv>>
    BY <1>2 DEF storeVars, rowVars, jobVars, folderVars
  <2>2. ASSUME NEW k \in Stored, messages[k].stale PROVE k[2] < epoch'[k[1]]
    <3>1. k[2] \in Nat /\ epoch[k[1]] \in Nat /\ k[1] \in Folders /\ k[2] < epoch[k[1]]
      BY <2>2, StoredKeys DEF AllInv, FinalInv
    <3>2. epoch[k[1]] <= epoch'[k[1]]
      BY <1>2, <3>1, EpochsGrow DEF AllInv
    <3>3. epoch'[k[1]] \in Nat
      <4>1. epoch' \in [Folders -> UidValidities]
        BY <1>2, ServerStepTypes DEF AllInv, TypeInv, TypeOK, ServerTypeOK, ServerStep, Deliver, Expunge,
           Recreate
      <4> QED
        BY <3>1, <4>1 DEF UidValidities
    <3> QED
      BY <3>1, <3>2, <3>3
  <2> QED
    BY <2>1, <2>2 DEF AllInv, FinalInv, BehindSearch, Stored, Kept
<1>3. CASE Crash
  <2>1. UNCHANGED <<messages, attachments, epoch>> /\ \A j \in Jobs : pc'[j] \notin FolderSteps
    BY <1>3 DEF Crash, storeVars, rowVars, serverVars, Discard, Wiped, FolderSteps, FetchSteps, AllInv,
       TypeInv, TypeOK, JobTypeOK
  <2> QED
    BY <2>1 DEF AllInv, FinalInv, BehindSearch, Stored, Kept
<1>4. CASE SaveSelectedFolders \/ UNCHANGED vars
  <2>1. UNCHANGED <<messages, attachments, epoch, pc, cur, uv>>
    BY <1>4 DEF SaveSelectedFolders, vars, serverVars, storeVars, rowVars, jobVars, folderVars
  <2> QED
    BY <2>1 DEF AllInv, FinalInv, BehindSearch, Stored, Kept
<1> QED
  BY <1>1, <1>2, <1>3, <1>4 DEF Next

LEMMA FinalInvInit == Init => OwnInv /\ FinalInv
BY DEF Init, StoreInit, JobInit, OwnInv, OneVisibleEpoch, FolderIsOwn, FinalInv, BehindSearch, Visible,
   Stored, FolderSteps, FetchSteps

LEMMA FinalInvHolds == Spec /\ []Apart => []AllInv
<1>1. Init => AllInv
  BY TypeInvInit, RowInvInit, FinalInvInit DEF AllInv
<1>2. Apart /\ AllInv /\ [Next]_vars => AllInv'
  BY TypeInvStep, RowInvStep, OwnInvStep, FinalStep DEF AllInv
<1> QED
  BY <1>1, <1>2, PTL DEF Spec

-----------------------------------------------------------------------------
(***************************************************************************)
(* The mirror.  A job that hides rows of a folder hides none of the life   *)
(* it searched, and one that saves a row writes content between that life  *)
(* and the server's: where the two are the same, neither does any harm.    *)
(***************************************************************************)

LEMMA UpToDateStays ==
  ASSUME TypeInv, NEW j \in Jobs, RequestSync(j) \/ JobStep(j), NEW f \in Folders, UpToDate(f)
  PROVE  UpToDate(f)'
<1>1. UNCHANGED epoch
  BY StoreTypes DEF serverVars
<1>2. ASSUME NEW i \in Jobs \ {j}, pc'[i] \in FolderSteps, cur'[i] = f PROVE uv'[i] = epoch[f]
  BY <1>2, OthersStay DEF SameLocals, UpToDate
<1>3. ASSUME pc'[j] \in FolderSteps, cur'[j] = f PROVE uv'[j] = epoch[f]
  <2>1. ASSUME NEW g \in Folders, Search(j, g) PROVE uv'[j] = epoch[f]
    BY <1>3, <2>1 DEF Search, TypeInv, TypeOK, JobTypeOK
  <2> QED
    BY <1>3, <2>1, FolderStays DEF UpToDate
<1> QED
  BY <1>1, <1>2, <1>3 DEF UpToDate

LEMMA MirrorKeepsJobStep ==
  ASSUME TypeInv, RowInv, NEW j \in Jobs, RequestSync(j) \/ JobStep(j), NEW f \in Folders,
         Mirrored(f), UpToDate(f)
  PROVE  Mirrored(f)'
<1> USE DEF Mirrored
<1>0. UNCHANGED <<epoch, mailbox>>
  BY StoreTypes DEF serverVars
<1>1. CASE MarkStale(j)
  <2>1. cur[j] = f => uv[j] = epoch[f]
    BY <1>1 DEF MarkStale, UpToDate, FolderSteps
  <2>2. \A k \in Visible : k[1] = f /\ k[1] = cur[j] => k[2] = uv[j]
    BY <2>1
  <2>3. \A k \in RowKeys : k[1] = f => (k \in Visible' <=> k \in Visible)
    BY <1>1, <2>2, MarkVisible
  <2>4. \A k \in KeysOf(f, epoch[f], mailbox[f]) : k[1] = f
    BY DEF KeysOf
  <2>5. KeysOf(f, epoch[f], mailbox[f]) \subseteq Visible'
    BY <2>3, <2>4 DEF Visible, Stored
  <2>6. \A k \in Visible' : k \in Visible /\ messages'[k].origin = messages[k].origin
    BY <1>1, MarkVisible DEF Visible
  <2> QED
    BY <1>0, <2>5, <2>6
<1>2. CASE Save(j)
  <2>1. /\ RowKey(j) \in RowKeys
        /\ Visible' = Visible \cup {RowKey(j)}
        /\ \A k \in RowKeys \ {RowKey(j)} : messages'[k] = messages[k]
    BY <1>2, SaveVisible
  <2>2. messages'[RowKey(j)].origin = fetched[j]
    BY <1>2, <2>1 DEF Save, SaveMessage, TypeInv, TypeOK, StoreTypeOK
  <2>3. ASSUME cur[j] = f
        PROVE  uv[j] = epoch[f] /\ fetched[j] = [folder |-> f, epoch |-> epoch[f]]
    <3>1. uv[j] = epoch[f]
      BY <1>2, <2>3 DEF Save, UpToDate, FolderSteps
    <3>2. fetched[j] \in Origins /\ epoch[f] \in UidValidities
      BY <1>2 DEF Save, TypeInv, TypeOK, ServerTypeOK, Placed
    <3>3. fetched[j].folder = f /\ epoch[f] <= fetched[j].epoch /\ fetched[j].epoch <= epoch[f]
      BY <1>2, <2>3, <3>1 DEF Save, RowInv, JobsLabelled, Labelled
    <3>4. fetched[j].epoch = epoch[f]
      BY <3>2, <3>3 DEF Origins, UidValidities
    <3> QED
      BY <3>1, <3>2, <3>3, <3>4 DEF Origins
  <2>4. RowKey(j)[1] = cur[j] /\ RowKey(j)[2] = uv[j]
    BY DEF RowKey
  <2>5. ASSUME NEW k \in Visible', k[1] = f
        PROVE  k[2] = epoch[f] /\ messages'[k].origin = [folder |-> f, epoch |-> epoch[f]]
    <3>1. CASE k = RowKey(j)
      BY <2>2, <2>3, <2>4, <2>5, <3>1
    <3>2. CASE k # RowKey(j)
      <4>1. k \in Visible /\ messages'[k] = messages[k]
        BY <2>1, <3>2 DEF Visible, Stored
      <4> QED
        BY <2>5, <4>1
    <3> QED
      BY <3>1, <3>2
  <2> QED
    BY <1>0, <2>1, <2>5
<1>3. CASE UNCHANGED messages
  BY <1>0, <1>3 DEF Visible, Stored
<1> QED
  BY <1>1, <1>2, <1>3, OnlyMarkAndSaveWrite

\* A folder that mirrors its mailbox, with no job in it that searched another
\* life, stays so until mail arrives or the mailbox is replaced, whatever number
\* of jobs overlaps and whatever fails: the half of Converges that is safety.
THEOREM MirrorsStay == Spec => StaysMirrored
<1>1. ASSUME TypeInv, RowInv, [Next]_vars, NEW f \in Folders, Mirrored(f), UpToDate(f),
             epoch'[f] = epoch[f], mailbox'[f] \subseteq mailbox[f]
      PROVE  Mirrored(f)' /\ UpToDate(f)'
  <2>1. ASSUME NEW j \in Jobs, RequestSync(j) \/ JobStep(j) PROVE Mirrored(f)' /\ UpToDate(f)'
    BY <1>1, <2>1, UpToDateStays, MirrorKeepsJobStep
  <2>2. CASE UNCHANGED messages /\ ((UNCHANGED jobVars) \/ Crash)
    <3>1. \A j \in Jobs : pc'[j] \in FolderSteps =>
            pc[j] \in FolderSteps /\ cur'[j] = cur[j] /\ uv'[j] = uv[j]
      BY <2>2 DEF jobVars, folderVars, Crash, Discard, Wiped, FolderSteps
    <3>2. UpToDate(f)'
      BY <1>1, <3>1 DEF UpToDate
    <3>3. Visible' = Visible
      BY <2>2 DEF Visible, Stored
    <3>4. KeysOf(f, epoch'[f], mailbox'[f]) \subseteq KeysOf(f, epoch[f], mailbox[f])
      BY <1>1 DEF KeysOf
    <3>5. Mirrored(f)'
      BY <1>1, <2>2, <3>3, <3>4 DEF Mirrored
    <3> QED
      BY <3>2, <3>5
  <2> QED
    BY <1>1, <2>1, <2>2 DEF Next, vars, storeVars, rowVars, SaveSelectedFolders, Crash
<1>2. TypeInv /\ RowInv /\ [Next]_vars =>
        [\A f \in Folders : /\ Mirrored(f) /\ UpToDate(f)
                            /\ epoch'[f] = epoch[f] /\ mailbox'[f] \subseteq mailbox[f]
                            => Mirrored(f)' /\ UpToDate(f)']_vars
  BY <1>1
<1> QED
  BY <1>2, RowInvHolds, TypeCorrectness, PTL DEF Spec, StaysMirrored
=============================================================================
