------------------------------- MODULE MCSync -------------------------------
(***************************************************************************)
(* Values for the constants of SyncSystem that a .cfg cannot write down.   *)
(***************************************************************************)
EXTENDS SyncSystem, TLC

\* a is synchronised before b.
CONSTANTS a, b

MCRank == a :> 1 @@ b :> 2
MCRankOne == a :> 1
All == {Uids}
AllOrLater == {Uids, {u \in Uids : u > 1}}
BytesOfUid == [u \in Uids |-> u]

Whole == {Folders}
Nothing == {{}}
NoChoice == {}
OneByOne == {{f} : f \in Folders} \cup {Folders}

AllFaults == {"drop", "refuse", "login", "credential", "locked", "content", "crash"}
Losses == {"drop"}
MailFaults == {"drop", "refuse", "login", "content"}
=============================================================================
