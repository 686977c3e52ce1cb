---------------------------- MODULE ImapSession -----------------------------
(***************************************************************************)
(* The IMAP server, which is not in src/, as imap_client.py uses it, and   *)
(* the one connection each synchronisation holds.  The server's mailboxes  *)
(* change while a synchronisation runs: mail arrives, mail is expunged,    *)
(* and a mailbox is deleted and created again with a new UIDVALIDITY.      *)
(***************************************************************************)
EXTENDS Mail

VARIABLES
  epoch,      \* the UIDVALIDITY of each mailbox
  mailbox,    \* the UIDs each mailbox holds
  uidnext,    \* the UID the next message of each mailbox gets
  changes,    \* how often the mailboxes have changed
  session     \* what each job's connection is, on both of its ends

serverVars == <<epoch, mailbox, uidnext, changes>>

\* The states of imaplib's connection: "closed" (ReadOnlyImapClient._imap is
\* None), "dead" (the socket failed: every command aborts), and NONAUTH, AUTH
\* and SELECTED.
Sessions ==
  [state : {"closed", "dead", "nonauth", "auth"}, folder : {NoFolder}, epoch : {0}]
    \cup [state : {"selected"}, folder : Folders, epoch : UidValidities]

NotOpen(state) == [state |-> state, folder |-> NoFolder, epoch |-> 0]
Examined(f) == [state |-> "selected", folder |-> f, epoch |-> epoch[f]]

\* EXAMINE is legal in AUTH and in SELECTED only: imaplib raises otherwise.
Usable(s) == s.state \in {"auth", "selected"}

ServerTypeOK ==
  /\ epoch \in [Folders -> UidValidities]
  /\ mailbox \in [Folders -> SUBSET Uids]
  /\ uidnext \in [Folders -> 1 .. MaxUid + 1]
  /\ changes \in 0 .. MaxChanges
  /\ session \in [Jobs -> Sessions]

ServerInit ==
  /\ epoch = [f \in Folders |-> 1]
  /\ \E held \in [Folders -> 0 .. MaxUid] :
       /\ mailbox = [f \in Folders |-> 1 .. held[f]]
       /\ uidnext = [f \in Folders |-> held[f] + 1]
  /\ changes = 0
  /\ session = [j \in Jobs |-> NotOpen("closed")]

Deliver(f) ==
  /\ uidnext[f] <= MaxUid
  /\ mailbox' = [mailbox EXCEPT ![f] = @ \cup {uidnext[f]}]
  /\ uidnext' = [uidnext EXCEPT ![f] = @ + 1]
  /\ UNCHANGED <<epoch, session>>

Expunge(f) ==
  /\ \E u \in mailbox[f] : mailbox' = [mailbox EXCEPT ![f] = @ \ {u}]
  /\ UNCHANGED <<epoch, uidnext, session>>

\* The mailbox is deleted and created again, or restored: its UIDs start
\* again, so the same UID names another message than before.
Recreate(f) ==
  /\ epoch[f] < MaxEpoch
  /\ epoch' = [epoch EXCEPT ![f] = @ + 1]
  /\ \E held \in 0 .. MaxUid :
       /\ mailbox' = [mailbox EXCEPT ![f] = 1 .. held]
       /\ uidnext' = [uidnext EXCEPT ![f] = held + 1]
  /\ UNCHANGED session

ServerStep ==
  /\ changes < MaxChanges /\ changes' = changes + 1
  /\ \E f \in Folders : Deliver(f) \/ Expunge(f) \/ Recreate(f)

(***************************************************************************)
(* The client's calls, as the ways they can end.                           *)
(***************************************************************************)

\* UID FETCH goes to whatever mailbox the connection has open, under the name
\* the server knew it by when it was opened.  A connection that outlives its
\* mailbox may still be served the old messages, or be told there are none.
Outdated(s) == s.epoch # epoch[s.folder]
ServesUid(s, u) == s.state = "selected" /\ (Outdated(s) \/ u \in mailbox[s.folder])
LacksUid(s, u) == s.state = "selected" /\ (Outdated(s) \/ u \notin mailbox[s.folder])
OriginOf(s) == [folder |-> s.folder, epoch |-> s.epoch]

\* examine_folder: EXAMINE is sent whatever mailbox is open already.
OpenMailbox_OnlyOnce(s, f) == IF s.state = "selected" THEN s ELSE Examined(f)
OpenMailbox(s, f) == Examined(f)

\* search_uids: EXAMINE, then UID SEARCH in the mailbox just opened, for the
\* messages in the window that SINCE leaves.
SearchResult(f, window) == mailbox[f] \cap window

\* A search that fails leaves the connection where the failing command did:
\* lost (dead), EXAMINE refused (auth), or the mailbox opened but UIDVALIDITY
\* not reported or SEARCH refused (selected).
FailedSearch(j, f) ==
  \/ /\ ~Usable(session[j])
     /\ UNCHANGED <<session, faults>>
  \/ /\ Usable(session[j])
     /\ Fault("drop")
     /\ session' = [session EXCEPT ![j] = NotOpen("dead")]
  \/ /\ Usable(session[j])
     /\ Fault("refuse")
     /\ \E s \in {NotOpen("auth"), Examined(f)} : session' = [session EXCEPT ![j] = s]

\* reconnect_folder: log out of the old connection, connect, log in, EXAMINE.
\* It fails before there is a socket (closed), at the login (nonauth), at the
\* EXAMINE (auth), for want of a UIDVALIDITY (selected), or by a second loss.
FailedReconnect(j, f) ==
  \/ /\ Fault("drop")
     /\ \E s \in {"closed", "dead"} : session' = [session EXCEPT ![j] = NotOpen(s)]
  \/ /\ Fault("login")
     /\ session' = [session EXCEPT ![j] = NotOpen("nonauth")]
  \/ /\ Fault("refuse")
     /\ \E s \in {NotOpen("auth"), Examined(f)} : session' = [session EXCEPT ![j] = s]
=============================================================================
