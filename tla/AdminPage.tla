----------------------------- MODULE AdminPage ------------------------------
(***************************************************************************)
(* The folder list and the sync button of the admin page: the script of    *)
(* admin.py in the browser and the handlers it calls, over SyncFace.  A    *)
(* call of the script is in flight until a handler takes it, its answer    *)
(* until the script goes on; calls overtake each other, and the browser    *)
(* may give one up that the server still carries out.                      *)
(***************************************************************************)
EXTENDS SyncFace, Naturals, FiniteSets

CONSTANTS
  Selectable,     \* the folders without \Noselect
  Filters,        \* what the filter field may leave of the list
  MaxInFlight     \* bound on the saves on their way

ASSUME PageAssumption ==
  /\ InitialSelections \subseteq SUBSET Folders
  /\ Selectable \subseteq Folders
  /\ Filters \subseteq SUBSET Folders
  /\ MaxInFlight \in Nat

VARIABLES
  loaded,     \* whether a list of folders has come
  flagged,    \* the folders of the last list that came with "selected"
  shown,      \* the folders the filter leaves
  ticked,     \* the boxes on the page that are checked
  listing,    \* the flags of the list that is on its way, if one is
  saves,      \* the saves on their way: who sent them, and their folders
  at,         \* where the handler of the sync button is
  call,       \* the request it awaits, if any
  polling,    \* progressTimer
  \* history, for the properties
  chosen,     \* all folders selected at the start or ever ticked
  claim       \* the selection the request of a click should pick, if any

listVars == <<loaded, flagged, shown, ticked, listing>>
clickVars == <<at, call, polling>>
pageVars == <<listVars, saves, clickVars, chosen, claim>>
vars == <<faceVars, pageVars>>

SaveCalls == [by : {"sync", "other"}, folders : SUBSET Folders]

PageTypeOK ==
  /\ FaceTypeOK
  /\ loaded \in BOOLEAN /\ flagged \subseteq Folders /\ shown \in Filters
  /\ ticked \subseteq shown \cap Selectable
  /\ listing \subseteq SUBSET Folders
  /\ saves \subseteq SaveCalls
  /\ at \in {"idle", "saving", "saved", "syncing"}
  /\ call \subseteq Jobs /\ polling \in BOOLEAN
  /\ chosen \subseteq Folders
  /\ claim \subseteq SUBSET Folders

Init ==
  /\ FaceInit
  /\ loaded = FALSE /\ flagged = {} /\ shown \in Filters /\ ticked = {} /\ listing = {}
  /\ saves = {}
  /\ at = "idle" /\ call = {} /\ polling = FALSE
  /\ chosen = selected /\ claim = {}

(***************************************************************************)
(* The list of folders.                                                    *)
(***************************************************************************)

\* renderFolders makes every box anew from the flags of the last list.
Rendered_AnyKind(flags, filter) == flags \cap filter
Rendered_All(flags, filter) == Selectable \cap filter
Rendered(flags, filter) == flags \cap filter \cap Selectable

\* list_remote_folders: the selection is read before the folders are listed.
\* The button is disabled until the answer is there.
ListRemoteFolders ==
  /\ listing = {}
  /\ listing' = {selected}
  /\ UNCHANGED <<faceVars, loaded, flagged, shown, ticked, saves, clickVars, chosen, claim>>

LoadFolders ==
  /\ \E flags \in listing :
       /\ loaded' = TRUE /\ flagged' = flags
       /\ ticked' = Rendered(flags, shown)
  /\ listing' = {}
  /\ UNCHANGED <<faceVars, shown, saves, clickVars, chosen, claim>>

LoadFoldersFails ==
  /\ listing # {}
  /\ listing' = {}
  /\ UNCHANGED <<faceVars, loaded, flagged, shown, ticked, saves, clickVars, chosen, claim>>

TypeFilter ==
  /\ shown' \in Filters \ {shown}
  /\ ticked' = Rendered(flagged, shown')
  /\ UNCHANGED <<faceVars, loaded, flagged, listing, saves, clickVars, chosen, claim>>

ToggleBox(f) ==
  /\ loaded /\ f \in shown \cap Selectable
  /\ IF f \in ticked
       THEN ticked' = ticked \ {f} /\ UNCHANGED chosen
       ELSE ticked' = ticked \cup {f} /\ chosen' = chosen \cup {f}
  /\ UNCHANGED <<faceVars, loaded, flagged, shown, listing, saves, clickVars, claim>>

(***************************************************************************)
(* Saving the selection.                                                   *)
(***************************************************************************)

Send(by) ==
  LET save == [by |-> by, folders |-> ticked] IN
  /\ Cardinality(saves \cup {save}) <= MaxInFlight
  /\ saves' = saves \cup {save}

\* The button is not disabled: it can be clicked again, and during a sync.
ClickSave ==
  /\ Send("other")
  /\ UNCHANGED <<faceVars, listVars, clickVars, chosen, claim>>

\* Another save, or the end of another request's folder, comes before the request
\* of the click has read the selection.
Unpicked == at # "syncing" \/ \E j \in call : phase[j] = "asked"

\* save_selected_folders: the list that was sent replaces the selection.
SaveSelectedFolders(save) ==
  /\ save \in saves
  /\ Select(save.folders)
  /\ saves' = saves \ {save}
  /\ at' = IF save.by = "sync" /\ at = "saving" THEN "saved" ELSE at
  /\ claim' = IF save.by # "sync" /\ Unpicked THEN {} ELSE claim
  /\ UNCHANGED <<listVars, call, polling, chosen>>

SaveIsLost(save) ==
  /\ save \in saves
  /\ saves' = saves \ {save}
  /\ UNCHANGED <<faceVars, listVars, clickVars, chosen, claim>>

(***************************************************************************)
(* The sync button, disabled from the click to the end of its handler.     *)
(***************************************************************************)

AfterSend_AtOnce == "saved"
AfterSend == "saving"

ClickSync ==
  /\ at = "idle"
  /\ IF ticked # {}
       THEN Send("sync") /\ at' = AfterSend /\ claim' = {ticked}
       ELSE UNCHANGED saves /\ at' = "saved" /\ claim' = {}
  /\ UNCHANGED <<faceVars, listVars, call, polling, chosen>>

\* startProgressPolling, and the request for the synchronisation.
RequestSync(j) ==
  /\ at = "saved"
  /\ Ask(j)
  /\ at' = "syncing" /\ call' = {j} /\ polling' = TRUE
  /\ UNCHANGED <<listVars, saves, chosen, claim>>

\* The finally block; a save it no longer waits for is like any other.
PollingAfter_Answered(answered) == polling /\ ~answered
PollingAfter(answered) == FALSE

EndClick(answered) ==
  /\ at' = "idle" /\ call' = {}
  /\ polling' = PollingAfter(answered)
  /\ claim' = {}
  /\ saves' = {IF s.by = "sync" THEN [s EXCEPT !.by = "other"] ELSE s : s \in saves}
  /\ UNCHANGED <<faceVars, listVars, chosen>>

SyncAnswered ==
  /\ at = "syncing"
  /\ \E j \in call : phase[j] = "none"
  /\ EndClick(TRUE)

\* A call that gets no answer, of either kind; what it asked for may go on.
CallFails ==
  /\ at \in {"saving", "saved", "syncing"}
  /\ EndClick(FALSE)

(***************************************************************************)
(* The requests, and the server.                                           *)
(***************************************************************************)

JobMoves(j) ==
  /\ \/ (Pick(j) \/ Fail(j) \/ Answer(j)) /\ UNCHANGED claim
     \/ EndFolder(j) /\ claim' = IF Unpicked THEN {} ELSE claim
  /\ UNCHANGED <<listVars, saves, clickVars, chosen>>

\* The server stops: what is on its way to it, or from it, is lost.
ServerStops ==
  /\ Stop
  /\ saves' = {} /\ listing' = {} /\ call' = {}
  /\ UNCHANGED <<loaded, flagged, shown, ticked, at, polling, chosen, claim>>

Next ==
  \/ ListRemoteFolders \/ LoadFolders \/ LoadFoldersFails \/ TypeFilter
  \/ \E f \in Folders : ToggleBox(f)
  \/ ClickSave
  \/ \E save \in saves : SaveSelectedFolders(save) \/ SaveIsLost(save)
  \/ ClickSync \/ SyncAnswered \/ CallFails
  \/ \E j \in Jobs : RequestSync(j) \/ JobMoves(j)
  \/ ServerStops

Spec == Init /\ [][Next]_vars

\* The handler awaits a call that is lost.
NoAnswer ==
  \/ at = "saving" /\ \A save \in saves : save.by # "sync"
  \/ at = "syncing" /\ call = {}

\* The server takes the calls that reach it and every synchronisation ends, as
\* SyncTerminates says of SyncSystem; the script goes on when an answer is
\* there, and the browser tells it of a call that can have none.
FairSpec ==
  /\ Spec
  /\ WF_vars(\E save \in saves : save.by = "sync" /\ SaveSelectedFolders(save))
  /\ WF_vars(\E j \in Jobs : RequestSync(j))
  /\ WF_vars(SyncAnswered)
  /\ WF_vars(CallFails /\ NoAnswer)
  /\ \A j \in Jobs : WF_vars(JobMoves(j) /\ (Pick(j) \/ Fail(j) \/ Answer(j)))

-----------------------------------------------------------------------------
\* The page brings no folder into the selection by itself: what is selected, on
\* its way to be, or shown as selected was so at the start or ticked by the
\* user.  (admin.py:83-104, 541, 617-628)
ExposureIsTicked ==
  /\ selected \cup flagged \cup ticked \subseteq chosen
  /\ \A flags \in listing : flags \subseteq chosen
  /\ \A s \in saves : s.folders \subseteq chosen

\* The synchronisation a click starts picks the boxes that were ticked at the
\* click, unless another save, or the end of a folder of another request, has
\* changed the selection in between.  (admin.py:625-635, sync_service.py:55)
RunTakesTheTicks ==
  \A j \in call, folders \in claim : phase[j] = "running" => picked[j] = folders

\* Whatever becomes of the calls of a click on the sync button, its handler
\* ends: the button works again and no timer polls on.  (admin.py:640-643)
SyncClickEnds == at # "idle" ~> at = "idle" /\ ~polling
=============================================================================
