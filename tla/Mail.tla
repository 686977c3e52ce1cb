-------------------------------- MODULE Mail --------------------------------
(***************************************************************************)
(* The vocabulary the other modules share: folders, message UIDs, the      *)
(* UIDVALIDITY values that name the lives of a mailbox, the key under      *)
(* which a message is stored, and the faults a run may meet.               *)
(***************************************************************************)
EXTENDS Integers, FiniteSets

CONSTANTS
  Folders,      \* mailbox names
  NoFolder,     \* "no mailbox"
  Jobs,         \* threads of the admin pool that can run a synchronisation
  MaxUid,       \* bound: UIDs the server can hand out in one life of a mailbox
  MaxEpoch,     \* bound: lives (UIDVALIDITY values) of one mailbox
  MaxChanges,   \* bound: changes of the server's mailboxes
  NoRow,        \* "no row", "nothing fetched"
  FaultKinds,   \* kinds of fault that may happen
  Recurring,    \* those of them that may happen any number of times
  MaxFaults     \* bound: how often the others may happen in all

ASSUME BoundsAssumption ==
  MaxUid \in Nat /\ MaxEpoch \in Nat \ {0} /\ MaxFaults \in Nat /\ MaxChanges \in Nat

ASSUME FolderAssumption == NoFolder \notin Folders

Uids == 1 .. MaxUid

\* A mailbox that is deleted and created again gets a greater UIDVALIDITY
\* (RFC 3501, 2.3.1.1); 0 is the value of a connection with no mailbox open.
UidValidities == 1 .. MaxEpoch

\* Where the content of a message really comes from: the mailbox, and the
\* life of that mailbox, the server read it from.
Origins == [folder : Folders, epoch : UidValidities]

\* PRIMARY KEY (account, folder, uidvalidity, uid), for the one account.
RowKeys == Folders \X UidValidities \X Uids

KeysOf(f, uv, uids) == {<<f, uv, u>> : u \in uids}

ASSUME NoRowAssumption ==
  /\ NoRow \notin Origins
  /\ NoRow \notin [origin : Origins, stale : BOOLEAN]

(***************************************************************************)
(* Faults.  Every action that models a failing call takes one of a kind    *)
(* the configuration allows:                                               *)
(*   "drop"        the connection is lost, times out or cannot be made     *)
(*   "refuse"      the server answers NO or BAD, or leaves a part out      *)
(*   "login"       the account cannot be logged in to                      *)
(*   "credential"  the credentials cannot be sent (a ValueError)           *)
(*   "locked"      SQLite answers "database is locked"                     *)
(*   "content"     a message cannot be parsed or its row cannot be built   *)
(*   "crash"       the server process stops and is started again           *)
(***************************************************************************)
VARIABLE faults    \* how many of the bounded faults have happened

Fault(kind) ==
  /\ kind \in FaultKinds
  /\ IF kind \in Recurring
       THEN UNCHANGED faults
       ELSE faults < MaxFaults /\ faults' = faults + 1

FaultsInit == faults = 0
FaultsTypeOK == faults \in 0 .. MaxFaults
=============================================================================
