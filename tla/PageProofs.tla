----------------------------- MODULE PageProofs -----------------------------
(***************************************************************************)
(* The safety properties of AdminPage, for any folders, filters, number of *)
(* requests and number of saves on their way.                              *)
(***************************************************************************)
EXTENDS AdminPage, TLAPS

\* The steps of Next, one disjunct per action.
LEMMA StepCases ==
  ASSUME [Next]_vars
  PROVE  \/ ListRemoteFolders \/ LoadFolders \/ LoadFoldersFails \/ TypeFilter
         \/ (\E f \in Folders : ToggleBox(f))
         \/ ClickSave
         \/ (\E save \in saves : SaveSelectedFolders(save))
         \/ (\E save \in saves : SaveIsLost(save))
         \/ ClickSync \/ SyncAnswered \/ CallFails
         \/ (\E j \in Jobs : RequestSync(j))
         \/ (\E j \in Jobs : JobMoves(j))
         \/ ServerStops \/ UNCHANGED vars
BY DEF Next

-----------------------------------------------------------------------------

LEMMA FaceTypes ==
  ASSUME FaceTypeOK,
         \/ \E j \in Jobs : Ask(j) \/ Pick(j) \/ EndFolder(j) \/ Fail(j) \/ Answer(j)
         \/ \E folders \in SUBSET Folders : Select(folders)
         \/ Stop
         \/ UNCHANGED faceVars
  PROVE  FaceTypeOK'
<1> USE DEF FaceTypeOK
<1>1. ASSUME NEW j \in Jobs, Ask(j) \/ Pick(j) \/ EndFolder(j) \/ Fail(j) \/ Answer(j)
      PROVE FaceTypeOK'
  BY <1>1 DEF Ask, Pick, EndFolder, Fail, Answer
<1>2. ASSUME NEW folders \in SUBSET Folders, Select(folders) PROVE FaceTypeOK'
  BY <1>2 DEF Select
<1>3. CASE Stop
  BY <1>3 DEF Stop
<1>4. CASE UNCHANGED faceVars
  BY <1>4 DEF faceVars
<1> QED
  BY <1>1, <1>2, <1>3, <1>4

LEMMA EndClickTypes == ASSUME PageTypeOK, NEW answered \in BOOLEAN, EndClick(answered) PROVE PageTypeOK'
<1>1. FaceTypeOK'
  BY FaceTypes DEF EndClick, PageTypeOK
<1>2. saves' \subseteq SaveCalls
  BY DEF EndClick, PageTypeOK, SaveCalls
<1> QED
  BY <1>1, <1>2 DEF EndClick, PageTypeOK, PollingAfter, listVars

LEMMA PageTypeInit == Init => PageTypeOK
BY PageAssumption DEF Init, FaceInit, PageTypeOK, FaceTypeOK

LEMMA PageTypeStep == PageTypeOK /\ [Next]_vars => PageTypeOK'
<1> SUFFICES ASSUME PageTypeOK, [Next]_vars PROVE PageTypeOK'
  OBVIOUS
<1> USE PageAssumption DEF PageTypeOK, listVars, clickVars
<1>1. CASE ListRemoteFolders \/ LoadFolders \/ LoadFoldersFails \/ TypeFilter
  <2>1. FaceTypeOK'
    BY <1>1, FaceTypes DEF ListRemoteFolders, LoadFolders, LoadFoldersFails, TypeFilter
  <2>2. CASE ListRemoteFolders
    BY <2>1, <2>2 DEF ListRemoteFolders, FaceTypeOK
  <2>3. CASE LoadFolders \/ LoadFoldersFails \/ TypeFilter
    BY <2>1, <2>3 DEF LoadFolders, LoadFoldersFails, TypeFilter, Rendered
  <2> QED
    BY <1>1, <2>2, <2>3
<1>2. ASSUME NEW f \in Folders, ToggleBox(f) PROVE PageTypeOK'
  BY <1>2, FaceTypes DEF ToggleBox
<1>3. CASE ClickSave
  BY <1>3, FaceTypes DEF ClickSave, Send, SaveCalls
<1>4. ASSUME NEW save \in saves, SaveSelectedFolders(save) PROVE PageTypeOK'
  <2>1. save.folders \in SUBSET Folders
    BY DEF SaveCalls
  <2> QED
    BY <1>4, <2>1, FaceTypes DEF SaveSelectedFolders
<1>5. ASSUME NEW save \in saves, SaveIsLost(save) PROVE PageTypeOK'
  BY <1>5, FaceTypes DEF SaveIsLost
<1>6. CASE ClickSync
  BY <1>6, FaceTypes DEF ClickSync, Send, SaveCalls, AfterSend
<1>7. CASE SyncAnswered \/ CallFails
  BY <1>7, EndClickTypes DEF SyncAnswered, CallFails
<1>8. ASSUME NEW j \in Jobs, RequestSync(j) PROVE PageTypeOK'
  BY <1>8, FaceTypes DEF RequestSync
<1>9. ASSUME NEW j \in Jobs, JobMoves(j) PROVE PageTypeOK'
  BY <1>9, FaceTypes DEF JobMoves
<1>10. CASE ServerStops
  BY <1>10, FaceTypes DEF ServerStops
<1>11. CASE UNCHANGED vars
  BY <1>11, FaceTypes DEF vars, pageVars
<1> QED
  BY <1>1, <1>2, <1>3, <1>4, <1>5, <1>6, <1>7, <1>8, <1>9, <1>10, <1>11, StepCases

\* Every state of the page and of the requests is of its types; a box that is
\* checked is one the page shows and lets the user check.
THEOREM PageTypes == Spec => []PageTypeOK
BY PageTypeInit, PageTypeStep, PTL DEF Spec

-----------------------------------------------------------------------------
(***************************************************************************)
(* Exposure.  A request writes back only what it has read, and a list      *)
(* brings only flags of the selection: neither adds a folder of its own.   *)
(***************************************************************************)

ExposureInv == ExposureIsTicked /\ \A j \in Jobs : picked[j] \subseteq chosen

LEMMA ExposureStep == PageTypeOK /\ ExposureInv /\ [Next]_vars => ExposureInv'
<1> SUFFICES ASSUME PageTypeOK, ExposureInv, [Next]_vars PROVE ExposureInv'
  OBVIOUS
<1> USE DEF ExposureInv, ExposureIsTicked, PageTypeOK, FaceTypeOK, faceVars, listVars, clickVars
<1>1. CASE ListRemoteFolders
  BY <1>1 DEF ListRemoteFolders
<1>2. CASE LoadFolders \/ LoadFoldersFails \/ TypeFilter
  BY <1>2 DEF LoadFolders, LoadFoldersFails, TypeFilter, Rendered
<1>3. ASSUME NEW f \in Folders, ToggleBox(f) PROVE ExposureInv'
  BY <1>3 DEF ToggleBox
<1>4. CASE ClickSave \/ ClickSync
  BY <1>4 DEF ClickSave, ClickSync, Send
<1>5. ASSUME NEW save \in saves, SaveSelectedFolders(save) PROVE ExposureInv'
  BY <1>5 DEF SaveSelectedFolders, Select
<1>6. ASSUME NEW save \in saves, SaveIsLost(save) PROVE ExposureInv'
  BY <1>6 DEF SaveIsLost
<1>7. CASE SyncAnswered \/ CallFails
  <2>1. /\ UNCHANGED <<selected, picked, flagged, ticked, listing, chosen>>
        /\ saves' = {IF s.by = "sync" THEN [s EXCEPT !.by = "other"] ELSE s : s \in saves}
    BY <1>7 DEF SyncAnswered, CallFails, EndClick
  <2>2. \A s \in saves' : s.folders \subseteq chosen
    BY <2>1 DEF SaveCalls
  <2> QED
    BY <2>1, <2>2
<1>8. ASSUME NEW j \in Jobs, RequestSync(j) PROVE ExposureInv'
  BY <1>8 DEF RequestSync, Ask
<1>9. ASSUME NEW j \in Jobs, JobMoves(j) PROVE ExposureInv'
  <2>1. CASE Pick(j)
    BY <1>9, <2>1 DEF JobMoves, Pick
  <2>2. CASE Fail(j) \/ Answer(j)
    BY <1>9, <2>2 DEF JobMoves, Fail, Answer
  <2>3. CASE EndFolder(j)
    BY <1>9, <2>3 DEF JobMoves, EndFolder
  <2> QED
    BY <1>9, <2>1, <2>2, <2>3 DEF JobMoves
<1>10. CASE ServerStops
  BY <1>10 DEF ServerStops, Stop
<1>11. CASE UNCHANGED vars
  BY <1>11 DEF vars, pageVars
<1> QED
  BY <1>1, <1>2, <1>3, <1>4, <1>5, <1>6, <1>7, <1>8, <1>9, <1>10, <1>11, StepCases

\* However lists, saves, clicks and synchronisations interleave, the page
\* selects no folder the user did not tick.
THEOREM PageExposesWhatIsTicked == Spec => []ExposureIsTicked
<1>1. Init => ExposureInv
  BY DEF Init, FaceInit, ExposureInv, ExposureIsTicked
<1>2. ExposureInv => ExposureIsTicked
  BY DEF ExposureInv
<1> QED
  BY <1>1, <1>2, ExposureStep, PageTypes, PTL DEF Spec

-----------------------------------------------------------------------------
(***************************************************************************)
(* A click on the sync button.  From the moment its save is carried out to *)
(* the moment its request reads the selection, the selection is what was   *)
(* ticked, or something else has changed it and the claim is given up.     *)
(***************************************************************************)

IsOfSync(s) == s.by = "sync"

ClickInv ==
  /\ \A s, t \in saves : IsOfSync(s) /\ IsOfSync(t) => s = t
  /\ \A s \in saves : IsOfSync(s) => at = "saving" /\ \A folders \in claim : s.folders = folders
  /\ at = "saved" => \A folders \in claim : selected = folders
  /\ at # "syncing" => call = {}
  /\ \A j \in call, folders \in claim : phase[j] = "asked" => selected = folders
  /\ RunTakesTheTicks

LEMMA SendKeepsClick ==
  ASSUME PageTypeOK, ClickInv, UNCHANGED <<faceVars, call, claim, at>>, Send("other")
  PROVE  ClickInv'
BY DEF PageTypeOK, ClickInv, RunTakesTheTicks, IsOfSync, Send, faceVars

LEMMA ClickStep == PageTypeOK /\ ClickInv /\ [Next]_vars => ClickInv'
<1> SUFFICES ASSUME PageTypeOK, ClickInv, [Next]_vars PROVE ClickInv'
  OBVIOUS
<1> USE DEF ClickInv, RunTakesTheTicks, IsOfSync, PageTypeOK, FaceTypeOK, faceVars, listVars, clickVars
<1>1. CASE UNCHANGED <<faceVars, saves, at, call, claim>>
  BY <1>1
<1>2. CASE ClickSave
  BY <1>2, SendKeepsClick DEF ClickSave
<1>3. CASE ClickSync
  <2>1. /\ at = "idle" /\ UNCHANGED <<selected, phase, picked, call>> /\ call = {}
        /\ \A s \in saves : s.by # "sync"
    BY <1>3 DEF ClickSync
  <2>2. CASE ticked # {}
    BY <1>3, <2>1, <2>2 DEF ClickSync, Send, AfterSend
  <2>3. CASE ticked = {}
    BY <1>3, <2>1, <2>3 DEF ClickSync
  <2> QED
    BY <2>2, <2>3
<1>4. ASSUME NEW save \in saves, SaveSelectedFolders(save) PROVE ClickInv'
  <2>1. /\ saves' = saves \ {save} /\ selected' = save.folders
        /\ UNCHANGED <<phase, picked, call>>
    BY <1>4 DEF SaveSelectedFolders, Select
  <2>2. CASE save.by = "sync"
    BY <1>4, <2>1, <2>2 DEF SaveSelectedFolders
  <2>3. CASE save.by # "sync"
    BY <1>4, <2>1, <2>3 DEF SaveSelectedFolders, Unpicked
  <2> QED
    BY <2>2, <2>3
<1>5. ASSUME NEW save \in saves, SaveIsLost(save) PROVE ClickInv'
  BY <1>5 DEF SaveIsLost
<1>6. CASE SyncAnswered \/ CallFails
  <2>1. /\ at' = "idle" /\ call' = {} /\ claim' = {}
        /\ saves' = {IF s.by = "sync" THEN [s EXCEPT !.by = "other"] ELSE s : s \in saves}
    BY <1>6 DEF SyncAnswered, CallFails, EndClick
  <2>2. \A s \in saves' : s.by # "sync"
    BY <2>1 DEF SaveCalls
  <2> QED
    BY <2>1, <2>2
<1>7. ASSUME NEW j \in Jobs, RequestSync(j) PROVE ClickInv'
  BY <1>7 DEF RequestSync, Ask
<1>8. ASSUME NEW j \in Jobs, JobMoves(j) PROVE ClickInv'
  <2>1. CASE Pick(j)
    BY <1>8, <2>1 DEF JobMoves, Pick, EndFolder
  <2>2. CASE Fail(j) \/ Answer(j)
    BY <1>8, <2>2 DEF JobMoves, Fail, Answer, EndFolder
  <2>3. CASE EndFolder(j)
    BY <1>8, <2>3 DEF JobMoves, EndFolder, Pick, Fail, Answer, Unpicked
  <2> QED
    BY <1>8, <2>1, <2>2, <2>3 DEF JobMoves
<1>9. CASE ServerStops
  BY <1>9 DEF ServerStops, Stop
<1> QED
  BY <1>1, <1>2, <1>3, <1>4, <1>5, <1>6, <1>7, <1>8, <1>9, StepCases
  DEF ListRemoteFolders, LoadFolders, LoadFoldersFails, TypeFilter, ToggleBox, vars, pageVars

\* Clicking "Sync now" synchronises what was ticked at the click, unless the
\* selection was changed in between by another save or by another request.
THEOREM SyncTakesTheTicks == Spec => []RunTakesTheTicks
<1>1. Init => ClickInv
  BY DEF Init, FaceInit, ClickInv, RunTakesTheTicks
<1>2. ClickInv => RunTakesTheTicks
  BY DEF ClickInv
<1> QED
  BY <1>1, <1>2, ClickStep, PageTypes, PTL DEF Spec
=============================================================================
