----------------------------- MODULE ReadsProofs -----------------------------
(***************************************************************************)
(* What the tools answer, for every value of the constants and any number  *)
(* of jobs that write the store meanwhile.                                 *)
(***************************************************************************)
EXTENDS CachedReads, SyncPromiseProofs

OfTheMatter(f) == FolderKey[f] = FolderKey[asked] \/ f \in SentFolders

\* What a tool has established by the time it reads the messages: the folders
\* it resolved are selected and of the matter, and so is its reference's.
UnderWay ==
  /\ at \in DOMAIN Script[tool]
  /\ found = {}
  /\ targets \subseteq selected
  /\ tool \in CaseTools /\ at # "case" =>
       case \in selected /\ FolderKey[case] = FolderKey[asked]
  /\ tool \in RefTools => ref \in RowKeys
  /\ tool \in RefTools /\ at \notin {"case", "ref"} => ref[1] \in selected
  /\ tool # "related" /\ at = "list" => targets # {}

ReaderInv ==
  /\ tool \in Tools
  /\ at # "done" => UnderWay
  /\ tool \in {"scan", "thread"} => \A f \in targets : OfTheMatter(f)
  /\ AnswersAreOfTheMatter

\* The transaction that follows another, tool by tool.
LEMMA NextTransaction ==
  ASSUME tool \in Tools, at \in DOMAIN Script[tool], Proceed
  PROVE  /\ at = "case" => at' = IF tool = "thread" THEN "ref" ELSE "sent"
         /\ at = "ref" => at' = IF tool = "attachment" THEN "file" ELSE "row"
         /\ at = "row" => at' = "files"
         /\ at = "files" => at' = IF tool = "thread" THEN "sent" ELSE "done"
         /\ at = "file" => at' = "done"
         /\ at = "sent" => at' = IF tool = "related" THEN "rows" ELSE "list"
         /\ at = "rows" => at' = "list"
         /\ at = "list" => at' = "done"
         /\ at' \in DOMAIN Script[tool] \/ at' = "done"
<1>1. tool \in {"scan", "thread", "related", "message", "attachment"}
  BY DEF Tools, Script
<1>2. CASE tool = "scan"
  BY <1>2 DEF Proceed, Script
<1>3. CASE tool = "thread"
  BY <1>3 DEF Proceed, Script
<1>4. CASE tool = "related"
  BY <1>4 DEF Proceed, Script
<1>5. CASE tool = "message"
  BY <1>5 DEF Proceed, Script
<1>6. CASE tool = "attachment"
  BY <1>6 DEF Proceed, Script
<1> QED
  BY <1>1, <1>2, <1>3, <1>4, <1>5, <1>6

\* Which transactions each tool makes.
LEMMA Transactions ==
  ASSUME tool \in Tools, at \in DOMAIN Script[tool]
  PROVE  /\ at = "case" => tool \in CaseTools
         /\ at \in {"ref", "row", "files", "file"} => tool \in RefTools
         /\ at \in {"sent", "list"} => tool \in CaseTools
         /\ at = "rows" => tool = "related"
         /\ at \in {"row", "files"} => tool # "attachment"
<1>1. tool \in {"scan", "thread", "related", "message", "attachment"}
  BY DEF Tools, Script
<1>2. CASE tool = "scan"
  BY <1>2 DEF Script, CaseTools, RefTools
<1>3. CASE tool = "thread"
  BY <1>3 DEF Script, CaseTools, RefTools
<1>4. CASE tool = "related"
  BY <1>4 DEF Script, CaseTools, RefTools
<1>5. CASE tool = "message"
  BY <1>5 DEF Script, CaseTools, RefTools
<1>6. CASE tool = "attachment"
  BY <1>6 DEF Script, CaseTools, RefTools
<1> QED
  BY <1>1, <1>2, <1>3, <1>4, <1>5, <1>6

-----------------------------------------------------------------------------
(***************************************************************************)
(* Resolving names: nothing is found that is not accessible, and what is   *)
(* found is spelled as asked, or is a sent folder.                         *)
(***************************************************************************)

LEMMA ResolvedIsAccessible ==
  ASSUME NEW requested, NEW accessible
  PROVE  /\ ResolveFolderName(requested, accessible) \subseteq accessible
         /\ \A f \in ResolveFolderName(requested, accessible) :
              FolderKey[f] = FolderKey[requested]
BY DEF ResolveFolderName

LEMMA ResolvedSentIsSent ==
  ASSUME NEW requested, NEW accessible
  PROVE  ResolveSentFolders(requested, accessible) \subseteq accessible \cap SentFolders
<1> DEFINE sent == accessible \cap SentFolders
<1>1. UNION {ResolveFolderName(f, sent) : f \in requested} \subseteq sent
  BY ResolvedIsAccessible
<1> QED
  BY <1>1 DEF ResolveSentFolders

-----------------------------------------------------------------------------
(***************************************************************************)
(* ReaderInv is inductive.                                                 *)
(***************************************************************************)

LEMMA RefuseKeepsReaderInv ==
  ASSUME tool \in Tools, Refuse
  PROVE  ReaderInv'
BY DEF Refuse, NoAnswer, ReaderInv, AnswersAreOfTheMatter

LEMMA AskKeepsReaderInv ==
  ASSUME Ask, UNCHANGED vars
  PROVE  ReaderInv'
<1>1. PICK t \in ToolsAsked :
        /\ tool' = t /\ at' = Script[t].start
        /\ ref' \in IF t \in RefTools THEN Stored ELSE {NoKey}
  BY DEF Ask
<1>2. t \in {"scan", "thread", "related", "message", "attachment"}
  BY ReadsAssumption
<1>3. /\ tool' \in Tools
      /\ at' \in DOMAIN Script[tool'] /\ at' \in {"case", "ref"}
      /\ at' = "ref" => tool' \notin CaseTools
  BY <1>1, <1>2 DEF Tools, Script, CaseTools
<1>4. tool' \in RefTools => ref' \in RowKeys
  BY <1>1 DEF Stored
<1> QED
  BY <1>3, <1>4 DEF Ask, NoAnswer, ReaderInv, UnderWay, AnswersAreOfTheMatter

LEMMA ToolStepKeepsReaderInv ==
  ASSUME ReaderInv, ToolStep, UNCHANGED vars
  PROVE  ReaderInv'
<1>1. UNCHANGED <<selected, messages, tool, asked, ref>>
  BY DEF ToolStep, EnsureSyncedCaseFolder, ValidateMessageRef, ResolveTargets, ListCaseMessages,
     ListSelected, ListMessages, ReadRow, ReadAttachmentRows, ReadAttachment, Refuse, vars, storeVars
<1>2. at # "done" /\ UnderWay /\ tool \in Tools
  BY DEF ReaderInv, ToolStep, EnsureSyncedCaseFolder, ValidateMessageRef, ResolveTargets,
     ListCaseMessages, ListSelected, ListMessages, ReadRow, ReadAttachmentRows, ReadAttachment
<1>3. CASE Refuse
  BY <1>2, <1>3, RefuseKeepsReaderInv
<1>4. CASE EnsureSyncedCaseFolder /\ ~Refuse
  <2>1. /\ at = "case" /\ Proceed
        /\ case' \in ResolveFolderName(asked, selected)
        /\ UNCHANGED <<targets, found>>
    BY <1>4 DEF EnsureSyncedCaseFolder, SelectedFolders
  <2>2. case' \in selected /\ FolderKey[case'] = FolderKey[asked]
    BY <2>1, ResolvedIsAccessible
  <2>3. /\ at' \in {"ref", "sent"}
        /\ at' \in DOMAIN Script[tool]
        /\ tool \in CaseTools
        /\ tool \in RefTools => at' = "ref"
    BY <1>2, <2>1, NextTransaction, Transactions DEF UnderWay, CaseTools, RefTools
  <2> QED
    BY <1>1, <1>2, <2>1, <2>2, <2>3 DEF ReaderInv, UnderWay, OfTheMatter, AnswersAreOfTheMatter
<1>5. CASE ValidateMessageRef /\ ~Refuse
  <2>1. /\ at = "ref" /\ Proceed /\ ref[1] \in selected
        /\ UNCHANGED <<case, targets, found>>
    BY <1>5 DEF ValidateMessageRef, SelectedFolders
  <2>2. at' \in {"row", "file"} /\ at' \in DOMAIN Script[tool]
    BY <1>2, <2>1, NextTransaction DEF UnderWay
  <2> QED
    BY <1>1, <1>2, <2>1, <2>2 DEF ReaderInv, UnderWay, OfTheMatter, AnswersAreOfTheMatter
<1>6. CASE ResolveTargets
  <2>1. /\ at = "sent" /\ Proceed
        /\ UNCHANGED <<case, found>>
    BY <1>6 DEF ResolveTargets
  <2>2. PICK requested \in SUBSET Folders :
          LET sent == ResolveSentFolders(requested, selected) IN
            targets' \in IF tool = "related" THEN {sent} ELSE {{case}, {case} \cup sent}
    BY <1>6 DEF ResolveTargets, SelectedFolders
  <2>3. ResolveSentFolders(requested, selected) \subseteq selected \cap SentFolders
    BY ResolvedSentIsSent
  <2>4. case \in selected /\ FolderKey[case] = FolderKey[asked]
    BY <1>2, <2>1, Transactions DEF UnderWay
  <2>5. /\ at' \in {"rows", "list"} /\ at' \in DOMAIN Script[tool]
    BY <1>2, <2>1, NextTransaction DEF UnderWay
  <2>6. /\ targets' \subseteq selected
        /\ tool # "related" => targets' # {}
        /\ tool # "related" => \A f \in targets' : f = case \/ f \in SentFolders
    BY <2>2, <2>3, <2>4
  <2> QED
    BY <1>1, <1>2, <2>1, <2>4, <2>5, <2>6 DEF ReaderInv, UnderWay, OfTheMatter, AnswersAreOfTheMatter
<1>7. CASE ListCaseMessages
  <2>1. /\ at = "rows" /\ (at' = "done" \/ Proceed)
        /\ UNCHANGED <<case, targets, found>>
    BY <1>7 DEF ListCaseMessages
  <2>2. tool = "related" /\ (at' = "done" \/ (at' = "list" /\ at' \in DOMAIN Script[tool]))
    BY <1>2, <2>1, NextTransaction, Transactions DEF UnderWay
  <2> QED
    BY <1>1, <1>2, <2>1, <2>2 DEF ReaderInv, UnderWay, OfTheMatter, AnswersAreOfTheMatter
<1>8. CASE ListSelected
  <2>1. /\ at = "list" /\ targets = {} /\ targets' = selected /\ selected # {}
        /\ UNCHANGED <<at, case, found>>
    BY <1>8 DEF ListSelected, SelectedFolders
  <2>2. tool = "related"
    BY <1>2, <2>1 DEF UnderWay
  <2> QED
    BY <1>1, <1>2, <2>1, <2>2 DEF ReaderInv, UnderWay, OfTheMatter, AnswersAreOfTheMatter
<1>9. CASE ListMessages
  <2>1. /\ at = "list" /\ Proceed
        /\ UNCHANGED <<case, targets>>
        /\ \A k \in found' : k[1] \in targets
    BY <1>9 DEF ListMessages, ListMessageSummaries, FilterSummaries
  <2>2. at' = "done"
    BY <1>2, <2>1, NextTransaction DEF UnderWay
  <2> QED
    BY <1>1, <1>2, <2>1, <2>2 DEF ReaderInv, OfTheMatter, AnswersAreOfTheMatter
<1>10. CASE ReadRow /\ ~Refuse
  <2>1. /\ at = "row" /\ Proceed
        /\ UNCHANGED <<case, targets, found>>
    BY <1>10 DEF ReadRow
  <2>2. at' = "files" /\ at' \in DOMAIN Script[tool]
    BY <1>2, <2>1, NextTransaction DEF UnderWay
  <2> QED
    BY <1>1, <1>2, <2>1, <2>2 DEF ReaderInv, UnderWay, OfTheMatter, AnswersAreOfTheMatter
<1>11. CASE ReadAttachmentRows
  <2>1. /\ at = "files" /\ Proceed
        /\ UNCHANGED <<case, targets>>
        /\ found' = IF tool = "message" THEN {ref} ELSE {}
    BY <1>11 DEF ReadAttachmentRows
  <2>2. /\ tool = "thread" => at' = "sent" /\ at' \in DOMAIN Script[tool]
        /\ tool # "thread" => at' = "done"
    BY <1>2, <2>1, NextTransaction DEF UnderWay
  <2> QED
    BY <1>1, <1>2, <2>1, <2>2 DEF ReaderInv, UnderWay, OfTheMatter, AnswersAreOfTheMatter
<1>12. CASE ReadAttachment /\ ~Refuse
  <2>1. /\ at = "file" /\ Proceed
        /\ UNCHANGED targets
    BY <1>12 DEF ReadAttachment
  <2>2. at' = "done" /\ tool = "attachment"
    <3>1. tool \in {"scan", "thread", "related", "message", "attachment"}
      BY <1>2 DEF Tools, Script
    <3> QED
      BY <1>2, <2>1, <3>1, NextTransaction DEF UnderWay, Script
  <2> QED
    BY <1>1, <1>2, <2>1, <2>2 DEF ReaderInv, OfTheMatter, AnswersAreOfTheMatter
<1> QED
  BY <1>3, <1>4, <1>5, <1>6, <1>7, <1>8, <1>9, <1>10, <1>11, <1>12 DEF ToolStep

\* What runs beside a tool, and what is done between tools, only adds to the
\* selection or leaves no tool under way.
LEMMA BesideTheTool ==
  ASSUME ReaderInv, Background \/ (LoopIsFree /\ Next), UNCHANGED readerVars
  PROVE  ReaderInv'
<1>1. CASE LoopIsFree
  BY <1>1 DEF LoopIsFree, readerVars, ReaderInv, OfTheMatter, AnswersAreOfTheMatter
<1>2. CASE Background
  <2>1. selected \subseteq selected'
    <3>1. CASE UNCHANGED storeVars
      BY <3>1 DEF storeVars
    <3>2. CASE \E j \in Jobs : JobStep(j)
      BY <3>2, SelectionStep
    <3> QED
      BY <1>2, <3>1, <3>2 DEF Background
  <2> QED
    BY <2>1 DEF readerVars, ReaderInv, UnderWay, OfTheMatter, AnswersAreOfTheMatter
<1> QED
  BY <1>1, <1>2

LEMMA ReaderInvStep == ReaderInv /\ [ReadsNext]_allVars => ReaderInv'
<1> SUFFICES ASSUME ReaderInv, [ReadsNext]_allVars PROVE ReaderInv'
  OBVIOUS
<1>1. CASE UNCHANGED allVars
  BY <1>1 DEF allVars, vars, storeVars, readerVars, ReaderInv, UnderWay, OfTheMatter,
     AnswersAreOfTheMatter
<1>2. CASE ReadFails \/ CrashInTool
  BY <1>2, RefuseKeepsReaderInv DEF ReadFails, CrashInTool, ReaderInv
<1> QED
  BY <1>1, <1>2, AskKeepsReaderInv, ToolStepKeepsReaderInv, BesideTheTool DEF ReadsNext

LEMMA ReaderInvInit == ReadsInit => ReaderInv
BY DEF ReadsInit, ReaderInit, ReaderInv, Tools, Script, OfTheMatter, AnswersAreOfTheMatter

THEOREM ReadsKeepReaderInv == ReadsSpec => []ReaderInv
BY ReaderInvInit, ReaderInvStep, PTL DEF ReadsSpec

\* Searches, timelines and threads show messages of the matter asked for and of
\* sent folders only, however many jobs add to the selection while a tool runs.
\* (service.py:62-64, 117-119, security.py:50-75)
THEOREM TheMatterIsKept == ReadsSpec => []AnswersAreOfTheMatter
<1>1. ReaderInv => AnswersAreOfTheMatter
  BY DEF ReaderInv
<1> QED
  BY <1>1, ReadsKeepReaderInv, PTL

-----------------------------------------------------------------------------
(***************************************************************************)
(* An answer is of the selection of its own moment.                        *)
(***************************************************************************)

LEMMA AnswerStep ==
  ASSUME ReaderInv, ToolStep, UNCHANGED vars, at' = "done"
  PROVE  \A k \in found' : k[1] \in selected'
<1> USE DEF vars, storeVars
<1>1. at # "done" /\ UnderWay /\ tool \in Tools
  BY DEF ReaderInv, ToolStep, EnsureSyncedCaseFolder, ValidateMessageRef, ResolveTargets,
     ListCaseMessages, ListSelected, ListMessages, ReadRow, ReadAttachmentRows, ReadAttachment
<1>2. CASE ListMessages
  BY <1>1, <1>2 DEF ListMessages, ListMessageSummaries, FilterSummaries, UnderWay
<1>3. CASE (ReadAttachmentRows \/ ReadAttachment) /\ ~Refuse
  <2>1. at \in {"files", "file"} /\ found' \subseteq {ref}
    BY <1>3 DEF ReadAttachmentRows, ReadAttachment
  <2>2. ref[1] \in selected
    BY <1>1, <2>1, Transactions DEF UnderWay
  <2> QED
    BY <2>1, <2>2
<1>4. CASE found' = {}
  BY <1>4
<1>5. CASE \/ Refuse \/ EnsureSyncedCaseFolder \/ ValidateMessageRef \/ ResolveTargets
           \/ ListCaseMessages \/ ListSelected \/ ReadRow
  <2>1. found' = {} \/ found' = found
    BY <1>5 DEF Refuse, NoAnswer, EnsureSyncedCaseFolder, ValidateMessageRef, ResolveTargets,
       ListCaseMessages, ListSelected, ReadRow
  <2> QED
    BY <1>1, <1>4, <2>1 DEF UnderWay
<1> QED
  BY <1>2, <1>3, <1>5 DEF ToolStep

\* What a tool answers is of folders selected at the moment it answers, for any
\* number of jobs.  The invariant says why: the folders it resolved stay
\* selected until then.  (service.py:279-290, cache.py:307-321)
THEOREM TheSelectionIsKept == ReadsSpec => AnswersAreOfSelected
<1>1. ReaderInv /\ [ReadsNext]_allVars =>
        [at # "done" /\ at' = "done" => \A k \in found' : k[1] \in selected']_allVars
  <2> SUFFICES ASSUME ReaderInv, ReadsNext, at # "done", at' = "done"
               PROVE  \A k \in found' : k[1] \in selected'
    OBVIOUS
  <2>1. CASE ToolStep /\ UNCHANGED vars
    BY <2>1, AnswerStep
  <2>2. CASE ReadFails \/ CrashInTool
    BY <2>2 DEF ReadFails, CrashInTool, Refuse, NoAnswer
  <2> QED
    BY <2>1, <2>2 DEF ReadsNext, Ask, LoopIsFree, readerVars
<1> QED
  BY <1>1, ReadsKeepReaderInv, PTL DEF ReadsSpec, AnswersAreOfSelected

-----------------------------------------------------------------------------
(***************************************************************************)
(* The tools beside the synchronisation.  A tool takes no step of the      *)
(* store's, it can only meet a fault: so what SyncSystem keeps is kept     *)
(* with the tools beside it.                                               *)
(***************************************************************************)

\* A tool that finds the database locked.
OnlyAFault == Fault("locked") /\ UNCHANGED <<serverVars, session, storeVars, jobVars, userVars>>

LEMMA StoreSteps == ASSUME [ReadsNext]_allVars PROVE [Next]_vars \/ OnlyAFault
BY DEF ReadsNext, allVars, Background, CrashInTool, Next, ReadFails, OnlyAFault

StoreInv == TypeInv /\ RowInv /\ ChosenInv /\ VerdictInv /\ HeldInv

LEMMA FaultKeepsStoreInv ==
  ASSUME TypeInv, OnlyAFault
  PROVE  /\ TypeInv'
         /\ RowInv => RowInv'
         /\ StoreInv => StoreInv'
<1>1. FaultsTypeOK'
  BY FaultKeepsType DEF OnlyAFault, TypeInv, TypeOK
<1>2. TypeInv'
  BY <1>1
  DEF OnlyAFault, TypeInv, TypeOK, ServerTypeOK, StoreTypeOK, JobTypeOK, Placed, serverVars, storeVars,
      rowVars, userVars, jobVars, runVars, folderVars, fetchVars, seenVars
<1>3. /\ UNCHANGED <<messages, attachments, selected, epoch, session, chosen>>
      /\ UNCHANGED <<pc, todo, cur, uv, uid, uids, fetched, errors, folderErr, listed, snapshot>>
  BY DEF OnlyAFault, storeVars, rowVars, serverVars, userVars, jobVars, runVars, folderVars, fetchVars,
     seenVars
<1>4. RowInv => RowInv'
  BY <1>3 DEF RowInv, JobsLabelled, Labelled, RowsLabelled, RowLabelled, Stored
<1>5. ChosenInv => ChosenInv'
  BY <1>3 DEF ChosenInv, Reached, Stored
<1>6. VerdictInv => VerdictInv'
  BY <1>3 DEF OnlyAFault, VerdictInv, Accounted, Ahead, Noted, Stored, jobVars, runVars, folderVars, seenVars
<1>7. HeldInv => HeldInv'
  BY <1>3 DEF HeldInv, Stored
<1> QED
  BY <1>2, <1>4, <1>5, <1>6, <1>7 DEF StoreInv

LEMMA StoreInvStep == StoreInv /\ [ReadsNext]_allVars => StoreInv'
<1>1. ASSUME StoreInv, [Next]_vars PROVE StoreInv'
  BY <1>1, TypeInvStep, RowInvStep, ChosenInvStep, VerdictInvStep, HeldInvStep DEF StoreInv
<1> QED
  BY <1>1, StoreSteps, FaultKeepsStoreInv DEF StoreInv

LEMMA StoreInvHolds == ReadsSpec => []StoreInv
<1>1. Init => ChosenInv /\ HeldInv
  BY DEF Init, StoreInit, JobInit, ChosenInv, HeldInv, Reached, Stored, FolderSteps
<1>2. ReadsInit => StoreInv
  BY <1>1, TypeInvInit, RowInvInit, VerdictInvInit DEF ReadsInit, StoreInv
<1> QED
  BY <1>2, StoreInvStep, PTL DEF ReadsSpec

\* The invariants of the synchronisation that need no assumption about its jobs
\* hold with the tools beside it, faults of the tools included.
THEOREM StoreIsKept ==
  ReadsSpec => []( /\ TypeOK /\ RowsAreOfTheirFolder /\ MisfiledRowsAreOutdated
                   /\ CompletedMeansStored /\ ExposureWithinChosen )
<1>1. StoreInv => TypeOK /\ ExposureWithinChosen
  BY DEF StoreInv, TypeInv, ChosenInv, ExposureWithinChosen
<1>2. StoreInv => RowsAreOfTheirFolder /\ MisfiledRowsAreOutdated
  BY RowInvMeans DEF StoreInv
<1>3. StoreInv => CompletedMeansStored
  BY VerdictMeansStored DEF StoreInv
<1> QED
  BY <1>1, <1>2, <1>3, StoreInvHolds, PTL

\* With the tools beside it the synchronisation still promises what it did:
\* "completed" is answered only when all that was searched is held, and what is
\* held stays.  (service.py calls no writing method of cache.py)
THEOREM ReadsKeepPromise == ReadsSpec => KeepsPromise
<1>1. ReadsInit => Promise!PromiseInit
  BY InitKeepsPromise DEF ReadsInit
<1>2. ASSUME StoreInv, [ReadsNext]_allVars
      PROVE  [Promise!PromiseNext]_(Promise!promiseVars)
  <2>1. CASE [Next]_vars
    BY <1>2, <2>1, StepKeepsPromise DEF StoreInv
  <2>2. CASE OnlyAFault
    BY <2>2 DEF OnlyAFault, Promise!promiseVars, Held, Stored, storeVars, rowVars, jobVars, seenVars,
       Running
  <2> QED
    BY <1>2, <2>1, <2>2, StoreSteps
<1>3. StoreInv /\ [ReadsNext]_allVars => [Promise!PromiseNext]_(Promise!promiseVars)
  BY <1>2
<1> QED
  BY <1>1, <1>3, StoreInvHolds, PTL DEF ReadsSpec, KeepsPromise, Promise!PromiseSpec

\* What a tool answers is of folders the user has chosen at some time: no
\* overlap of jobs, tools and changes of the selection shows another folder,
\* although a job writes folders back that were deselected meanwhile.
\* (service.py:279-290, cache.py:118-128, 380-401, sync_service.py:206)
THEOREM AnswersAreOfChosen == ReadsSpec => [](\A k \in found : k[1] \in chosen)
<1> DEFINE Chosen == \A k \in found : k[1] \in chosen
<1>1. ReadsInit => Chosen
  BY DEF ReadsInit, ReaderInit
<1>2. ASSUME ReaderInv, StoreInv, StoreInv', Chosen, [ReadsNext]_allVars PROVE Chosen'
  <2>1. chosen \subseteq chosen'
    BY <1>2, StoreSteps
    DEF OnlyAFault, Next, vars, userVars, SaveSelectedFolders, Crash
  <2>2. CASE found' \subseteq found
    BY <1>2, <2>1, <2>2
  <2>3. CASE ToolStep /\ UNCHANGED vars /\ ~Refuse
    <3>1. CASE at' = "done"
      BY <1>2, <2>3, <3>1, AnswerStep DEF StoreInv, ChosenInv
    <3>2. CASE at' # "done"
      BY <1>2, <2>3, <3>2, ToolStepKeepsReaderInv DEF ReaderInv, UnderWay
    <3> QED
      BY <3>1, <3>2
  <2>4. CASE Refuse \/ Ask
    BY <2>4 DEF Refuse, Ask, NoAnswer
  <2> QED
    BY <1>2, <2>2, <2>3, <2>4 DEF ReadsNext, ReadFails, CrashInTool, allVars, readerVars
<1>3. ReaderInv /\ StoreInv /\ StoreInv' /\ Chosen /\ [ReadsNext]_allVars => Chosen'
  BY <1>2
<1>4. ReadsSpec => []Chosen
  <2> HIDE DEF Chosen
  <2> QED
    BY <1>1, <1>3, StoreInvHolds, ReadsKeepReaderInv, PTL DEF ReadsSpec
<1> QED
  BY <1>4

LEMMA ReaderTypes ==
  ASSUME TypeInv, ReaderInv, ReaderTypeOK, [ReadsNext]_allVars
  PROVE  ReaderTypeOK'
<1> USE DEF ReaderTypeOK
<1>1. CASE UNCHANGED readerVars \/ Refuse
  BY <1>1 DEF readerVars, Refuse, NoAnswer
<1>2. CASE Ask
  <2>1. PICK t \in ToolsAsked :
          /\ tool' = t /\ at' = Script[t].start
          /\ asked' \in IF t \in CaseTools THEN Folders ELSE {NoFolder}
          /\ ref' \in IF t \in RefTools THEN Stored ELSE {NoKey}
    BY <1>2 DEF Ask
  <2>2. t \in {"scan", "thread", "related", "message", "attachment"}
    BY ReadsAssumption
  <2>3. t \in Tools /\ at' \in {"case", "ref"}
    BY <2>1, <2>2 DEF Tools, Script
  <2> QED
    BY <1>2, <2>1, <2>3 DEF Ask, NoAnswer, Stored
<1>3. CASE ToolStep /\ UNCHANGED vars /\ ~Refuse
  <2>1. at # "done" /\ UnderWay /\ UNCHANGED <<tool, asked, ref>>
    BY <1>3
    DEF ReaderInv, ToolStep, EnsureSyncedCaseFolder, ValidateMessageRef, ResolveTargets,
        ListCaseMessages, ListSelected, ListMessages, ReadRow, ReadAttachmentRows, ReadAttachment
  <2>2. at' = at \/ at' = "done" \/ Proceed
    BY <1>3
    DEF ToolStep, EnsureSyncedCaseFolder, ValidateMessageRef, ResolveTargets, ListCaseMessages,
        ListSelected, ListMessages, ReadRow, ReadAttachmentRows, ReadAttachment
  <2>3. at' \in {"case", "ref", "row", "files", "file", "sent", "rows", "list", "done"}
    BY <2>1, <2>2, NextTransaction DEF UnderWay
  <2>4. selected \in SUBSET Folders /\ attachments \in [RowKeys -> SUBSET Origins]
    BY DEF TypeInv, TypeOK, StoreTypeOK
  <2>5. ASSUME NEW k \in Stored PROVE messages[k].origin \in Origins
    BY DEF TypeInv, TypeOK, StoreTypeOK, Stored, Rows
  <2>6. CASE EnsureSyncedCaseFolder
    BY <1>3, <2>1, <2>3, <2>4, <2>6, ResolvedIsAccessible DEF EnsureSyncedCaseFolder, SelectedFolders
  <2>7. CASE ResolveTargets
    <3>1. PICK requested \in SUBSET Folders :
            LET sent == ResolveSentFolders(requested, selected) IN
              targets' \in IF tool = "related" THEN {sent} ELSE {{case}, {case} \cup sent}
      BY <2>7 DEF ResolveTargets, SelectedFolders
    <3>2. at = "sent" /\ UNCHANGED <<case, found, row, files>>
      BY <2>7 DEF ResolveTargets
    <3>3. tool # "related" => case \in Folders
      BY <2>1, <2>4, <3>2, Transactions DEF UnderWay
    <3>4. targets' \in SUBSET Folders
      BY <2>4, <3>1, <3>3, ResolvedSentIsSent
    <3> QED
      BY <2>1, <2>3, <3>2, <3>4
  <2>8. CASE ListSelected \/ ListCaseMessages \/ ValidateMessageRef
    BY <1>3, <2>1, <2>3, <2>4, <2>8 DEF ListSelected, ListCaseMessages, ValidateMessageRef, SelectedFolders
  <2>9. CASE ListMessages
    BY <2>1, <2>3, <2>9 DEF ListMessages, FilterSummaries, ListMessageSummaries, Visible, Stored
  <2>10. CASE ReadRow
    BY <1>3, <2>1, <2>3, <2>5, <2>10 DEF ReadRow, Visible
  <2>11. CASE ReadAttachmentRows \/ ReadAttachment
    <3>1. at \in {"files", "file"} /\ UNCHANGED <<case, targets, row>>
      BY <1>3, <2>11 DEF ReadAttachmentRows, ReadAttachment
    <3>2. ref \in RowKeys
      BY <2>1, <3>1, Transactions DEF UnderWay
    <3> QED
      BY <1>3, <2>1, <2>3, <2>4, <2>11, <3>1, <3>2 DEF ReadAttachmentRows, ReadAttachment
  <2> QED
    BY <1>3, <2>6, <2>7, <2>8, <2>9, <2>10, <2>11 DEF ToolStep
<1> QED
  BY <1>1, <1>2, <1>3 DEF ReadsNext, ReadFails, CrashInTool, allVars

\* Whatever a tool answers, refuses or is interrupted in, its variables are of
\* their types: a key it reads is that of a message that was stored.
THEOREM ReadsAreTyped == ReadsSpec => []ReaderTypeOK
<1>1. ReadsInit => ReaderTypeOK
  BY DEF ReadsInit, ReaderInit, ReaderTypeOK, Tools, Script
<1>2. ReaderTypeOK /\ ReaderInv /\ StoreInv /\ [ReadsNext]_allVars => ReaderTypeOK'
  BY ReaderTypes DEF StoreInv
<1> QED
  BY <1>1, <1>2, StoreInvHolds, ReadsKeepReaderInv, PTL DEF ReadsSpec

-----------------------------------------------------------------------------
(***************************************************************************)
(* A message and its attachments, read by two SELECTs.  What the first of  *)
(* them has seen is still there at the second, since what is stored is     *)
(* kept (Kept), and its attachments are its own (FinalInv).                *)
(***************************************************************************)

\* What is kept while the jobs are apart is kept in the reading system.
LEMMA AllInvStep ==
  ASSUME Apart, AllInv, [ReadsNext]_allVars
  PROVE  AllInv' /\ Kept
<1>1. CASE [Next]_vars
  BY <1>1, TypeInvStep, RowInvStep, OwnInvStep, FinalStep DEF AllInv
<1>2. CASE OnlyAFault
  <2>1. TypeInv' /\ RowInv'
    BY <1>2, FaultKeepsStoreInv DEF AllInv
  <2>2. UNCHANGED <<messages, attachments, epoch, session, pc, cur, uv, uid, uids>>
    BY <1>2 DEF OnlyAFault, storeVars, rowVars, serverVars, jobVars, folderVars, fetchVars
  <2>3. OwnInv'
    BY <2>2 DEF AllInv, OwnInv, OneVisibleEpoch, FolderIsOwn, Visible, Stored
  <2>4. FinalInv' /\ Kept
    BY <2>2 DEF AllInv, FinalInv, BehindSearch, Stored, Kept
  <2> QED
    BY <2>1, <2>3, <2>4 DEF AllInv
<1> QED
  BY <1>1, <1>2, StoreSteps

\* Between the two SELECTs the row that was read is still the stored one.
DetailInv ==
  /\ tool = "message" /\ at = "files" => ref \in Stored /\ row = messages[ref].origin
  /\ DetailIsWhole

LEMMA DetailStep ==
  ASSUME ReaderInv, AllInv, DetailInv, [ReadsNext]_allVars, Kept
  PROVE  DetailInv'
<1> USE DEF DetailInv, DetailIsWhole
<1>1. CASE UNCHANGED readerVars
  BY <1>1 DEF readerVars, Kept
<1>2. CASE Refuse
  BY <1>2 DEF Refuse, NoAnswer
<1>3. CASE Ask
  <2>1. PICK t \in ToolsAsked : tool' = t /\ at' = Script[t].start
    BY <1>3 DEF Ask
  <2>2. t \in {"scan", "thread", "related", "message", "attachment"}
    BY ReadsAssumption
  <2>3. at' \in {"case", "ref"}
    BY <2>1, <2>2 DEF Script
  <2> QED
    BY <1>3, <2>3 DEF Ask, NoAnswer
<1>4. CASE ToolStep /\ UNCHANGED vars /\ ~Refuse
  <2>1. UNCHANGED <<messages, tool, ref>> /\ Stored' = Stored
    BY <1>4
    DEF ToolStep, EnsureSyncedCaseFolder, ValidateMessageRef, ResolveTargets, ListCaseMessages,
        ListSelected, ListMessages, ReadRow, ReadAttachmentRows, ReadAttachment, vars, storeVars, Stored
  <2>2. at # "done" /\ UnderWay /\ tool \in Tools
    BY <1>4
    DEF ReaderInv, ToolStep, EnsureSyncedCaseFolder, ValidateMessageRef, ResolveTargets,
        ListCaseMessages, ListSelected, ListMessages, ReadRow, ReadAttachmentRows, ReadAttachment
  <2>3. CASE tool # "message"
    BY <2>1, <2>3
  <2>4. CASE tool = "message"
    <3>1. at \in {"start", "ref", "row", "files"} /\ found = {}
      BY <2>2, <2>4 DEF UnderWay, Script
    <3>2. CASE ValidateMessageRef
      <4>1. at = "ref" /\ Proceed /\ UNCHANGED found
        BY <1>4, <3>2 DEF ValidateMessageRef
      <4> QED
        BY <2>1, <2>2, <2>4, <3>1, <4>1, NextTransaction DEF UnderWay
    <3>3. CASE ReadRow
      BY <1>4, <2>1, <3>1, <3>3 DEF ReadRow, Visible
    <3>4. CASE ReadAttachmentRows
      <4>1. at = "files" /\ Proceed /\ files' = attachments[ref] /\ UNCHANGED row
        BY <3>4 DEF ReadAttachmentRows
      <4>2. files' = {row'}
        BY <2>4, <4>1 DEF AllInv, FinalInv, Stored
      <4>3. at' # "files"
        BY <2>2, <2>4, <4>1, NextTransaction DEF UnderWay
      <4> QED
        BY <4>2, <4>3
    <3> QED
      BY <1>4, <3>1, <3>2, <3>3, <3>4
      DEF ToolStep, EnsureSyncedCaseFolder, ResolveTargets, ListCaseMessages, ListSelected,
          ListMessages, ReadAttachment
  <2> QED
    BY <2>3, <2>4
<1> QED
  BY <1>1, <1>2, <1>3, <1>4 DEF ReadsNext, ReadFails, CrashInTool, allVars

\* While no two jobs are in one folder at the same time, a message read in
\* detail comes with its own attachments and no others, however its two SELECTs
\* and the jobs' steps interleave and whatever fails.  (cache.py:323-353, 274-304)
THEOREM DetailsAreWhole == ReadsSpec /\ []Apart => []DetailIsWhole
<1>1. ReadsInit => ReaderInv /\ AllInv /\ DetailInv
  <2>1. ReaderInit => DetailInv
    BY DEF ReaderInit, DetailInv, DetailIsWhole
  <2> QED
    BY <2>1, ReaderInvInit, TypeInvInit, RowInvInit, FinalInvInit DEF ReadsInit, AllInv
<1>2. Apart /\ ReaderInv /\ AllInv /\ DetailInv /\ [ReadsNext]_allVars => (ReaderInv /\ AllInv /\ DetailInv)'
  BY ReaderInvStep, AllInvStep, DetailStep
<1>3. DetailInv => DetailIsWhole
  BY DEF DetailInv
<1> QED
  BY <1>1, <1>2, <1>3, PTL DEF ReadsSpec
=============================================================================
