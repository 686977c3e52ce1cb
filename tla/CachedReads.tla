---------------------------- MODULE CachedReads -----------------------------
(***************************************************************************)
(* CaseMailService of service.py: the tools, which answer from the store   *)
(* alone, while jobs write it.  A tool is a few transactions of its own,   *)
(* and each of its SELECTs sees the store of its own moment.  The tools    *)
(* are plain functions, which FastMCP calls on the event loop: a tool runs *)
(* to its end before another request is looked at, so that only the        *)
(* threads of the jobs, and the server, get in between.                    *)
(***************************************************************************)
EXTENDS SyncSystem

CONSTANTS
  FolderKey,      \* _folder_key: the same for two spellings of one name
  CaseFolders,    \* folders CASE_FOLDER_ALLOWLIST_REGEX matches
  SentFolders,    \* folders SENT_FOLDER_ALLOWLIST_REGEX matches
  DefaultSent,    \* folders DEFAULT_SENT_FOLDERS names
  OwnUids,        \* UIDs of the messages the user sent
  NoKey,          \* "no message reference"
  ToolsAsked      \* bound: the tools that clients ask for

ASSUME ReadsAssumption ==
  /\ FolderKey \in [Folders -> Nat]
  /\ CaseFolders \subseteq Folders /\ SentFolders \subseteq Folders
  /\ DefaultSent \subseteq Folders
  /\ OwnUids \subseteq Uids
  /\ NoKey \notin RowKeys
  /\ ToolsAsked \subseteq {"scan", "thread", "related", "message", "attachment"}

VARIABLES
  tool,       \* the tool asked for last
  at,         \* its next transaction; "done" once it is answered
  asked,      \* case_folder, as the client spelled it
  ref,        \* the key in message_ref
  case,       \* case_folder, as the store spells it
  targets,    \* the folders to list
  found,      \* the answer: keys of the messages in it
  row,        \* of a message read in detail, the origin of its row,
  files       \*   and of its attachments' rows

readerVars == <<tool, at, asked, ref, case, targets, found, row, files>>
allVars == <<vars, readerVars>>

\* The transactions of each tool, in their order.  search_messages and
\* case_timeline make the same ones and are "scan".
Script ==
  [scan       |-> [start |-> "case", case |-> "sent", sent |-> "list", list |-> "done"],
   thread     |-> [start |-> "case", case |-> "ref", ref |-> "row", row |-> "files",
                   files |-> "sent", sent |-> "list", list |-> "done"],
   related    |-> [start |-> "case", case |-> "sent", sent |-> "rows", rows |-> "list",
                   list |-> "done"],
   message    |-> [start |-> "ref", ref |-> "row", row |-> "files", files |-> "done"],
   attachment |-> [start |-> "ref", ref |-> "file", file |-> "done"]]

Tools == DOMAIN Script
CaseTools == {"scan", "thread", "related"}
RefTools == {"thread", "message", "attachment"}

ReaderTypeOK ==
  /\ tool \in Tools
  /\ at \in {"case", "ref", "row", "files", "file", "sent", "rows", "list", "done"}
  /\ asked \in Folders \cup {NoFolder} /\ case \in Folders \cup {NoFolder}
  /\ ref \in RowKeys \cup {NoKey}
  /\ targets \in SUBSET Folders /\ found \in SUBSET RowKeys
  /\ row \in Origins \cup {NoRow} /\ files \in SUBSET Origins

NoAnswer == found' = {} /\ row' = NoRow /\ files' = {}

ReaderInit ==
  /\ tool = "scan" /\ at = "done"
  /\ asked = NoFolder /\ ref = NoKey /\ case = NoFolder /\ targets = {}
  /\ found = {} /\ row = NoRow /\ files = {}

LoopIsFree_Threaded == TRUE
LoopIsFree == at = "done"

Proceed == at' = Script[tool][at]

\* A reference is one an earlier answer gave: of a message that was stored.
Ask ==
  /\ at = "done"
  /\ \E t \in ToolsAsked :
       /\ tool' = t /\ at' = Script[t].start
       /\ asked' \in IF t \in CaseTools THEN Folders ELSE {NoFolder}
       /\ ref' \in IF t \in RefTools THEN Stored ELSE {NoKey}
  /\ case' = NoFolder /\ targets' = {}
  /\ NoAnswer

\* AccessDeniedError, NotSyncedError, or an error of SQLite.
Refuse ==
  /\ at' = "done"
  /\ case' = NoFolder /\ targets' = {}
  /\ NoAnswer
  /\ UNCHANGED <<tool, asked, ref>>

\* The first of the accessible folders that the requested name is spelled as.
ResolveFolderName(requested, accessible) ==
  LET same == {f \in accessible : FolderKey[f] = FolderKey[requested]}
  IN {f \in same : \A g \in same : Rank[f] <= Rank[g]}

EnsureSyncedCaseFolder ==
  /\ at = "case"
  /\ LET resolved == ResolveFolderName(asked, SelectedFolders) IN
       IF asked \in CaseFolders /\ resolved # {}
         THEN /\ case' \in resolved
              /\ Proceed
              /\ UNCHANGED <<tool, asked, ref, targets, found, row, files>>
         ELSE Refuse

ValidateMessageRef ==
  /\ at = "ref"
  /\ IF ref[1] \in SelectedFolders
       THEN Proceed /\ UNCHANGED <<tool, asked, ref, case, targets, found, row, files>>
       ELSE Refuse

\* What the sent_folders a client names, none or some, stand for.
ResolveSentFolders_AnyAccessible(requested, accessible) ==
  IF requested = {} THEN accessible
  ELSE UNION {ResolveFolderName(f, accessible) : f \in requested}

ResolveSentFolders(requested, accessible) ==
  LET sent == accessible \cap SentFolders
      defaults == {f \in sent : \E d \in DefaultSent : FolderKey[f] = FolderKey[d]}
  IN IF requested # {} THEN UNION {ResolveFolderName(f, sent) : f \in requested}
     ELSE IF defaults # {} THEN defaults ELSE sent

\* find_related_sent lists the sent folders alone, the other tools list them
\* besides the case folder if they are to be included.
ResolveTargets ==
  /\ at = "sent"
  /\ \E requested \in SUBSET Folders :
       LET sent == ResolveSentFolders(requested, SelectedFolders) IN
         targets' \in IF tool = "related" THEN {sent} ELSE {{case}, {case} \cup sent}
  /\ Proceed
  /\ UNCHANGED <<tool, asked, ref, case, found, row, files>>

ListMessageSummaries(folders) == {k \in Visible : k[1] \in folders}

\* What _filter_summaries may leave of some messages: the filters, by date,
\* text, correspondent and attachments, are a matter of their content.
FilterSummaries(keys) == SUBSET keys

\* The messages of the case folder that pass the filters.  Without one, no
\* sent message is linked to any: what is read after that is not shown.
ListCaseMessages ==
  /\ at = "rows"
  /\ \E kept \in FilterSummaries(ListMessageSummaries({case})) :
       IF kept = {} THEN at' = "done" ELSE Proceed
  /\ UNCHANGED <<tool, asked, ref, case, targets, found, row, files>>

\* list_message_summaries takes an empty list of folders for all selected.
ListSelected ==
  /\ at = "list" /\ targets = {} /\ SelectedFolders # {}
  /\ targets' = SelectedFolders
  /\ UNCHANGED <<tool, at, asked, ref, case, found, row, files>>

\* direction = "sent": of a sent folder, or sent by the user.
IsSent(k) == k[1] \in SentFolders \/ k[3] \in OwnUids

\* Of what passes the filters, the limit, the depth and the linkage may leave
\* less: any of these sets of messages too.
ListMessages ==
  /\ at = "list" /\ (targets # {} \/ SelectedFolders = {})
  /\ LET wanted == {k \in ListMessageSummaries(targets) : tool = "related" => IsSent(k)}
     IN found' \in FilterSummaries(wanted)
  /\ Proceed
  /\ UNCHANGED <<tool, asked, ref, case, targets, row, files>>

\* get_message_detail, its first SELECT and its second.
ReadRow ==
  /\ at = "row"
  /\ IF ref \in Visible
       THEN /\ row' = messages[ref].origin
            /\ Proceed
            /\ UNCHANGED <<tool, asked, ref, case, targets, found, files>>
       ELSE Refuse

ReadAttachmentRows ==
  /\ at = "files"
  /\ files' = attachments[ref]
  /\ found' = IF tool = "message" THEN {ref} ELSE {}
  /\ Proceed
  /\ UNCHANGED <<tool, asked, ref, case, targets, row>>

\* get_attachment: the attachment's row is there whether or not the message's
\* row is stale.
ReadAttachment ==
  /\ at = "file"
  /\ IF attachments[ref] # {}
       THEN /\ \E origin \in attachments[ref] : files' = {origin}
            /\ found' = {ref}
            /\ Proceed
            /\ UNCHANGED <<tool, asked, ref, case, targets, row>>
       ELSE Refuse

\* The store does not answer: "database is locked".
ReadFails ==
  /\ at # "done"
  /\ Fault("locked")
  /\ Refuse

ToolStep ==
  \/ EnsureSyncedCaseFolder \/ ValidateMessageRef \/ ResolveTargets
  \/ ListCaseMessages \/ ListSelected \/ ListMessages
  \/ ReadRow \/ ReadAttachmentRows \/ ReadAttachment

\* What goes on beside the event loop: the mail server, and a job up to the
\* handler that would report its failure.
Background ==
  \/ ServerStep /\ UNCHANGED <<storeVars, jobVars, userVars, faults>>
  \/ \E j \in Jobs : pc[j] # "report" /\ JobStep(j) /\ UNCHANGED userVars

\* The process stops in the middle of a tool.
CrashInTool == at # "done" /\ Crash /\ Refuse

ReadsInit == Init /\ ReaderInit

ReadsNext ==
  \/ LoopIsFree /\ Next /\ UNCHANGED readerVars
  \/ Background /\ UNCHANGED readerVars
  \/ Ask /\ UNCHANGED vars
  \/ ToolStep /\ UNCHANGED vars
  \/ ReadFails /\ UNCHANGED <<serverVars, session, storeVars, jobVars, userVars>>
  \/ CrashInTool

ReadsSpec == ReadsInit /\ [][ReadsNext]_allVars

-----------------------------------------------------------------------------
\* What a tool answers is of folders selected at the moment it answers,
\* although it read the selection some transactions before: a job can only add
\* to the selection, and the user cannot change it during a tool.
\* (service.py:279-290, cache.py:307-321)
AnswersAreOfSelected ==
  [][at # "done" /\ at' = "done" => \A k \in found' : k[1] \in selected']_allVars

\* Searches, timelines and threads show messages of the matter asked for, under
\* any spelling of its name, and of sent folders, whatever sent folders the
\* client names and however the selection grows meanwhile.
\* (service.py:62-64, 117-119, security.py:50-63)
AnswersAreOfTheMatter ==
  tool \in {"scan", "thread"} =>
    \A k \in found : FolderKey[k[1]] = FolderKey[asked] \/ k[1] \in SentFolders

\* A message read in detail comes with its own attachments and no others,
\* although they are read by two SELECTs and attachment rows are never removed,
\* while no two jobs are in one folder at the same time.  (cache.py:323-353, 274-304)
DetailIsWhole ==
  tool = "message" /\ found # {} => files = {row}

\* "search allowed sent folders for outgoing messages" (server.py:141): what
\* find_related_sent shows is of a sent folder.
RelatedAreOfSentFolders ==
  tool = "related" => \A k \in found : k[1] \in SentFolders
=============================================================================
