----------------------------- MODULE SyncStore ------------------------------
(***************************************************************************)
(* PlainSyncStore of cache.py.  Every method is one SQLite transaction on  *)
(* a connection of its own, so an operator here is one atomic change of    *)
(* the tables; a method that raises changes nothing.  The tables are kept  *)
(* for one account.  Of synced_folders only "selected" is kept: the other  *)
(* columns are what the folder list displays and no method reads them.     *)
(***************************************************************************)
EXTENDS ImapSession

VARIABLES
  messages,      \* synced_messages: its key -> origin of the content, stale flag
  attachments,   \* synced_attachments: key of the message -> origins of its rows
  selected,      \* the folders of synced_folders with selected = 1
  status         \* "state" of the sync_status entry of sync_state

rowVars == <<messages, attachments>>

Rows == [origin : Origins, stale : BOOLEAN]

Statuses == {"idle", "running", "completed", "completed_with_errors", "failed"}

StoreTypeOK ==
  /\ messages \in [RowKeys -> Rows \cup {NoRow}]
  /\ attachments \in [RowKeys -> SUBSET Origins]
  /\ selected \in SUBSET Folders
  /\ status \in Statuses

\* An empty database; get_sync_status reports "idle" where there is no entry.
StoreInit ==
  /\ messages = [k \in RowKeys |-> NoRow]
  /\ attachments = [k \in RowKeys |-> {}]
  /\ status = "idle"

Stored == {k \in RowKeys : messages[k] # NoRow}
Visible == {k \in Stored : ~messages[k].stale}

\* Names with an underscore are the definition after them with a bug in it:
\* with one in the other's place, a run finds the property it guards violated.
SelectedFolders_All == Folders
SelectedFolders == selected

MissingUids_All(f, uv, uids) == uids
MissingUids_NotStored(f, uv, uids) == {u \in uids : <<f, uv, u>> \notin Stored}
MissingUids(f, uv, uids) == {u \in uids : <<f, uv, u>> \notin Visible}

StaleRows_None(f, uv) == {}
StaleRows_OfFolder(f, uv) == {k \in Stored : k[1] = f}
StaleRows(f, uv) == {k \in Stored : k[1] = f /\ k[2] # uv}

MarkFolderStale(f, uv) ==
  messages' = [k \in RowKeys |->
                 IF k \in StaleRows(f, uv)
                   THEN [messages[k] EXCEPT !.stale = TRUE]
                   ELSE messages[k]]

SaveMessage_RowOnly(k, origin) ==
  /\ messages' = [messages EXCEPT ![k] = [origin |-> origin, stale |-> FALSE]]
  /\ UNCHANGED attachments

\* The message's row is replaced and is not stale any more.  An attachment row
\* is replaced only by an attachment in the same place of the new message: the
\* rows of an earlier content stay where the new one has nothing.
SaveMessage(k, origin) ==
  /\ messages' = [messages EXCEPT ![k] = [origin |-> origin, stale |-> FALSE]]
  /\ \E kept \in SUBSET attachments[k] :
       attachments' = [attachments EXCEPT ![k] = kept \cup {origin}]

SetSelectedFolders(chosen) == selected' = chosen

UpdateFolderSyncResult_All(f) == selected' = selected \cup Folders

\* The upsert of a folder's result sets selected = 1, whatever it was.
UpdateFolderSyncResult(f) == selected' = selected \cup {f}

SetSyncStatus(state) == status' = state
=============================================================================
