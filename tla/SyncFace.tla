------------------------------ MODULE SyncFace ------------------------------
(***************************************************************************)
(* A synchronisation as the admin page meets it: a request that reads the  *)
(* selection at some moment, selects again each folder it has finished,    *)
(* and is answered at some time.  Nothing here is about mail: SyncSystem   *)
(* implements this module, and AdminPage is built on it.                   *)
(***************************************************************************)
CONSTANTS Jobs, Folders, InitialSelections

VARIABLES
  selected,   \* the folders selected in the store
  choice,     \* the selection that was saved last
  phase,      \* where each request is
  picked      \* the selection it has read, until it ends or fails

faceVars == <<selected, choice, phase, picked>>

FaceTypeOK ==
  /\ selected \in SUBSET Folders /\ choice \in SUBSET Folders
  /\ phase \in [Jobs -> {"none", "asked", "running", "failing"}]
  /\ picked \in [Jobs -> SUBSET Folders]

FaceInit ==
  /\ selected \in InitialSelections
  /\ choice = selected
  /\ phase = [j \in Jobs |-> "none"]
  /\ picked = [j \in Jobs |-> {}]

Ask(j) ==
  /\ phase[j] = "none"
  /\ phase' = [phase EXCEPT ![j] = "asked"]
  /\ UNCHANGED <<selected, choice, picked>>

Pick(j) ==
  /\ phase[j] = "asked"
  /\ phase' = [phase EXCEPT ![j] = "running"]
  /\ picked' = [picked EXCEPT ![j] = selected]
  /\ UNCHANGED <<selected, choice>>

EndFolder(j) ==
  /\ phase[j] = "running"
  /\ \E f \in picked[j] : selected' = selected \cup {f}
  /\ UNCHANGED <<choice, phase, picked>>

\* An exception outside of a folder, before the selection is read or after.
Fail(j) ==
  /\ phase[j] \in {"asked", "running"}
  /\ phase' = [phase EXCEPT ![j] = "failing"]
  /\ picked' = [picked EXCEPT ![j] = {}]
  /\ UNCHANGED <<selected, choice>>

\* What the answer may be is what SyncPromise is about.
Answer(j) ==
  /\ phase[j] \in {"running", "failing"}
  /\ phase' = [phase EXCEPT ![j] = "none"]
  /\ picked' = [picked EXCEPT ![j] = {}]
  /\ UNCHANGED <<selected, choice>>

Select(folders) ==
  /\ selected' = folders /\ choice' = folders
  /\ UNCHANGED <<phase, picked>>

Stop ==
  /\ phase' = [j \in Jobs |-> "none"]
  /\ picked' = [j \in Jobs |-> {}]
  /\ UNCHANGED <<selected, choice>>

FaceNext ==
  \/ \E j \in Jobs : Ask(j) \/ Pick(j) \/ EndFolder(j) \/ Fail(j) \/ Answer(j)
  \/ \E folders \in SUBSET Folders : Select(folders)
  \/ Stop

FaceSpec == FaceInit /\ [][FaceNext]_faceVars
=============================================================================
