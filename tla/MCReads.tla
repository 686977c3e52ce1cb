------------------------------- MODULE MCReads ------------------------------
(***************************************************************************)
(* Values for the constants of CachedReads: folder a is a matter, folder b *)
(* is the sent folder.                                                     *)
(***************************************************************************)
EXTENDS CachedReads, MCSync

MCFolderKey == a :> 1 @@ b :> 2
NoUids == {}
EveryUid == Uids
=============================================================================
