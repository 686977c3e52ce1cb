---------------------------- MODULE ConfigProofs ----------------------------
(***************************************************************************)
(* The safety properties of EnvConfig, for any accounts, secrets, tokens,  *)
(* jobs and bounds.  Each has an inductive invariant of its own, which     *)
(* says what a save in progress and a launcher that has read the file are  *)
(* about to do to it.                                                      *)
(***************************************************************************)
EXTENDS EnvConfig, TLAPS

LEMMA FileTypes ==
  /\ Empty \in Files
  /\ \A e \in Files : Load(e) \in Settings /\ JobSettings(e) \in Rows
  /\ NoJob \in Rows
BY DEF Empty, Files, Load, Settings, JobSettings, Rows, NoJob

LEMMA MergedTypes ==
  ASSUME env \in Files, NEW form \in Forms, NEW s \in Secrets
  PROVE  Merged(form, s) \in Files
BY DEF Files, Forms, Merged

LEMMA EditTypes == env \in Files /\ EditFile => env' \in Files
BY DEF Files, EditFile

\* What a stop leaves, whether or not it tears a write.
LEMMA StoppedTypes ==
  ASSUME TypeOK, Stopped, env' \in Files, kept' \in BOOLEAN, faults' \in 0 .. MaxFaults
  PROVE  TypeOK'
BY FileTypes DEF TypeOK, Stopped, launcherVars

LEMMA FailsType == ASSUME TypeOK, Fails PROVE faults' \in 0 .. MaxFaults
BY ConfigAssumption DEF TypeOK, Fails

\* The launcher leaves a token it has read and adds one otherwise.
LEMMA EnsureCases ==
  ASSUME EnsureAccessToken
  PROVE  \/ seen # NoValue /\ UNCHANGED <<env, answer>>
         \/ seen = NoValue /\ \E t \in Tokens :
              env' = [env EXCEPT !.token = t, !.required = TRUE] /\ answer' = "none"
BY DEF EnsureAccessToken

\* The steps of Next, one disjunct per action.
LEMMA StepCases ==
  ASSUME [Next]_vars
  PROVE  \/ Start \/ Stop \/ OpenPage
         \/ (\E form \in Forms : PostConfig(form))
         \/ WriteEnv \/ WriteRefused \/ TornWrite
         \/ LoadSaved \/ LoadInvalid \/ LoadStoreFails
         \/ (\E j \in Jobs : SyncSelected(j)) \/ (\E j \in Jobs : StoreMessage(j))
         \/ (\E j \in Jobs : EndSync(j))
         \/ EditByHand
         \/ LauncherReads \/ EnsureAccessToken \/ StartServerIfNeeded
         \/ UNCHANGED vars
BY DEF Next, Save, Launch

-----------------------------------------------------------------------------

LEMMA TypeInit == Init => TypeOK
<1> SUFFICES ASSUME Init PROVE TypeOK
  OBVIOUS
<1>1. env \in Files /\ values \in Files /\ live \in Settings
  BY EnvAssumption, FileTypes DEF Init
<1>2. job \in [Jobs -> Rows]
  BY FileTypes DEF Init
<1>3. edits \in 0 .. MaxEdits /\ faults \in 0 .. MaxFaults
  BY ConfigAssumption DEF Init
<1> QED
  BY <1>1, <1>2, <1>3 DEF Init, TypeOK

LEMMA TypeStep == TypeOK /\ [Next]_vars => TypeOK'
<1> SUFFICES ASSUME TypeOK, [Next]_vars PROVE TypeOK'
  OBVIOUS
<1> USE FileTypes, FailsType DEF serverVars, saveVars, launcherVars, jobVars, boundVars
<1>1. CASE Start
  BY <1>1 DEF Start, CreateApp, TakeOver, TypeOK, Settings
<1>2. CASE Stop
  BY <1>2, StoppedTypes DEF Stop, TypeOK
<1>3. CASE OpenPage
  BY <1>3 DEF OpenPage, TypeOK, Files
<1>4. ASSUME NEW form \in Forms, PostConfig(form) PROVE TypeOK'
  BY <1>4, MergedTypes DEF PostConfig, TypeOK
<1>5. CASE WriteEnv
  BY <1>5 DEF WriteEnv, TypeOK
<1>6. CASE WriteRefused
  BY <1>6 DEF WriteRefused, Answer, TypeOK
<1>7. CASE TornWrite
  BY <1>7, StoppedTypes DEF TornWrite, TypeOK
<1>8. CASE LoadSaved \/ LoadInvalid \/ LoadStoreFails
  BY <1>8 DEF LoadSaved, LoadInvalid, LoadStoreFails, Reload, TakeOver, Answer, TypeOK, Settings
<1>9. ASSUME NEW j \in Jobs, SyncSelected(j) PROVE TypeOK'
  BY <1>9 DEF SyncSelected, TypeOK
<1>10. ASSUME NEW j \in Jobs, StoreMessage(j) PROVE TypeOK'
  BY <1>10 DEF StoreMessage, TypeOK
<1>11. ASSUME NEW j \in Jobs, EndSync(j) PROVE TypeOK'
  BY <1>11 DEF EndSync, TypeOK
<1>12. CASE EditByHand
  BY <1>12, EditTypes, ConfigAssumption DEF EditByHand, TypeOK
<1>13. CASE LauncherReads
  BY <1>13 DEF LauncherReads, TypeOK, Files
<1>14. CASE EnsureAccessToken
  <2>1. env' \in Files /\ answer' \in {answer, "none"}
    <3>1. CASE UNCHANGED <<env, answer>>
      BY <3>1 DEF TypeOK
    <3>2. CASE \E t \in Tokens :
                 env' = [env EXCEPT !.token = t, !.required = TRUE] /\ answer' = "none"
      BY <3>2 DEF TypeOK, Files
    <3> QED
      BY <1>14, <3>1, <3>2, EnsureCases
  <2> QED
    BY <1>14, <2>1 DEF EnsureAccessToken, TypeOK
<1>15. CASE StartServerIfNeeded
  BY <1>15 DEF StartServerIfNeeded, CreateApp, TakeOver, TypeOK, Settings
<1>16. CASE UNCHANGED vars
  BY <1>16 DEF vars, TypeOK
<1> QED
  BY <1>1, <1>2, <1>3, <1>4, <1>5, <1>6, <1>7, <1>8, <1>9, <1>10, <1>11, <1>12, <1>13, <1>14,
     <1>15, <1>16, StepCases

\* Every state of the settings, the file, the handler and the jobs is of its
\* types, whoever writes the file and whenever the server stops.
THEOREM ConfigTypes == Spec => []TypeOK
BY TypeInit, TypeStep, PTL DEF Spec

-----------------------------------------------------------------------------
(***************************************************************************)
(* A job has the account it reads from one reading of the file, and its    *)
(* store with it.                                                          *)
(***************************************************************************)

AccountInv ==
  /\ \A j \in Jobs : job[j].account = job[j].from
  /\ RowsAreOfTheirAccount

LEMMA AccountInvStep == TypeOK /\ AccountInv /\ [Next]_vars => AccountInv'
<1> SUFFICES ASSUME TypeOK, AccountInv, [Next]_vars PROVE AccountInv'
  OBVIOUS
<1> USE DEF AccountInv, RowsAreOfTheirAccount, TypeOK
<1>1. ASSUME NEW j \in Jobs, SyncSelected(j) PROVE AccountInv'
  BY <1>1 DEF SyncSelected, JobSettings
<1>2. ASSUME NEW j \in Jobs, StoreMessage(j) PROVE AccountInv'
  BY <1>2 DEF StoreMessage
<1>3. ASSUME NEW j \in Jobs, EndSync(j) PROVE AccountInv'
  BY <1>3 DEF EndSync, NoJob
<1>4. CASE Stop \/ TornWrite
  BY <1>4 DEF Stop, TornWrite, Stopped, NoJob
<1>5. CASE UNCHANGED jobVars
  BY <1>5 DEF jobVars
<1>6. UNCHANGED jobVars \/ Stop \/ TornWrite \/ \E j \in Jobs : SyncSelected(j) \/ StoreMessage(j) \/ EndSync(j)
  BY StepCases DEF vars, Start, OpenPage, PostConfig, WriteEnv, WriteRefused, LoadSaved, LoadInvalid,
     LoadStoreFails, Answer, EditByHand, LauncherReads, EnsureAccessToken, StartServerIfNeeded, jobVars
<1> QED
  BY <1>1, <1>2, <1>3, <1>4, <1>5, <1>6

\* No change of the settings, from the page or by hand, ever files a message of
\* one account's mailbox under another account.
THEOREM AccountsAreKeptApart == Spec => []RowsAreOfTheirAccount
<1>1. Init => AccountInv
  BY DEF Init, AccountInv, RowsAreOfTheirAccount, NoJob
<1>2. AccountInv => RowsAreOfTheirAccount
  BY DEF AccountInv
<1> QED
  BY <1>1, <1>2, AccountInvStep, ConfigTypes, PTL DEF Spec

-----------------------------------------------------------------------------
(***************************************************************************)
(* References.  A secret in use is one that something was signed with or   *)
(* that the tools have; the default, which stands for none, is not.  While *)
(* no secret has been taken out of the file, the only one in use is the    *)
(* file's: a save keeps the one it has read, and makes one only where the  *)
(* file had none, and then none is in use.  What it has made is the tools' *)
(* before a job can sign with it, unless the file that was written is not  *)
(* valid, and then no job starts.                                          *)
(***************************************************************************)

InUse(s) ==
  /\ s # DefaultSecret
  /\ \/ live.secret = s
     \/ \E j \in Jobs : job[j].secret = s
     \/ \E r \in rows : r.secret = s

SecretInv ==
  /\ step # "none" => up
  /\ step = "write" => values.secret \in Secrets
  /\ kept =>
       /\ \A s : InUse(s) => s = env.secret
       /\ step = "write" => values.secret = env.secret \/ ~InUse(env.secret)
       /\ up /\ ~edited =>
            \/ env.secret \in {NoValue, live.secret}
            \/ ~InUse(env.secret) /\ (step = "load" \/ ~Valid(env))

LEMMA SecretTypes ==
  ASSUME TypeOK
  PROVE  /\ NoValue \notin Secrets /\ DefaultSecret \notin Secrets /\ DefaultSecret # NoValue
         /\ ~InUse(NoValue)
         /\ env.secret \in Secrets \cup {NoValue}
         /\ Load(env).secret = IF env.secret = NoValue THEN DefaultSecret ELSE env.secret
BY ConfigAssumption DEF TypeOK, Files, Settings, Rows, Load, InUse

LEMMA NoSecret == NoJob.secret = DefaultSecret /\ Load(Empty).secret = DefaultSecret
BY DEF NoJob, Load, Empty

LEMMA SecretInit == Init => SecretInv
BY NoSecret DEF Init, SecretInv, InUse

\* The tools take over the file.
LEMMA SecretTakeOver ==
  ASSUME TypeOK, SecretInv, TakeOver, UNCHANGED <<env, job, rows, kept>>, step' = "none"
  PROVE  SecretInv'
<1>1. live'.secret = IF env.secret = NoValue THEN DefaultSecret ELSE env.secret
  BY SecretTypes DEF TakeOver
<1>2. ASSUME NEW s, InUse(s)' PROVE InUse(s) \/ s = env.secret
  BY <1>1, <1>2 DEF InUse
<1>3. env.secret \in {NoValue, live'.secret}
  BY <1>1
<1> QED
  BY <1>2, <1>3 DEF SecretInv

\* A step that takes no secret out of the file and into no use.
LEMMA SecretLess ==
  ASSUME TypeOK, SecretInv, \A s : InUse(s)' => InUse(s),
         kept' => kept /\ env.secret \in {NoValue, env'.secret},
         step' = "write" => step = "write" /\ values' = values,
         step' # "none" => up',
         up' /\ ~edited' => /\ up /\ ~edited /\ live' = live /\ env' = env
                            /\ step' = step \/ step # "load" \/ ~Valid(env)
  PROVE  SecretInv'
<1>1. ASSUME kept', NEW s, InUse(s)' PROVE s = env'.secret
  BY <1>1, SecretTypes DEF SecretInv
<1>2. ASSUME kept', step' = "write" PROVE values'.secret = env'.secret \/ ~InUse(env.secret)'
  BY <1>2, SecretTypes DEF SecretInv
<1> QED
  BY <1>1, <1>2 DEF SecretInv

LEMMA SecretStep == TypeOK /\ SecretInv /\ [Next]_vars => SecretInv'
<1> SUFFICES ASSUME TypeOK, SecretInv, [Next]_vars PROVE SecretInv'
  OBVIOUS
<1> USE DEF serverVars, saveVars, launcherVars, jobVars, boundVars
<1>1. CASE Start \/ StartServerIfNeeded
  <2>1. CASE CreateApp /\ ~up /\ UNCHANGED <<env, step, values, job, rows, kept>>
    BY <2>1, SecretTakeOver DEF CreateApp, SecretInv
  <2>2. CASE UNCHANGED <<env, up, live, step, values, job, rows, kept, edited>>
    BY <2>2 DEF SecretInv, InUse
  <2> QED
    BY <1>1, <2>1, <2>2 DEF Start, StartServerIfNeeded
<1>2. CASE Stop \/ TornWrite
  <2>1. ~up' /\ step' = "none" /\ rows' = rows /\ live' = Load(Empty) /\ job' = [j \in Jobs |-> NoJob]
    BY <1>2 DEF Stop, TornWrite, Stopped
  <2>2. ASSUME NEW s, InUse(s)' PROVE InUse(s)
    BY <2>1, <2>2, NoSecret DEF InUse
  <2>3. kept' => kept /\ env.secret \in {NoValue, env'.secret}
    BY <1>2 DEF Stop, TornWrite, TypeOK
  <2> QED
    BY <2>1, <2>2, <2>3, SecretLess
<1>3. ASSUME NEW form \in Forms, PostConfig(form) PROVE SecretInv'
  <2>1. PICK s \in Secrets : SecretFor(s) /\ values' = Merged(form, s)
    BY <1>3 DEF PostConfig
  <2>2. values'.secret = s
    BY <2>1 DEF Merged, TypeOK, Files
  <2>3. kept => s = env.secret \/ ~InUse(env.secret)
    BY <2>1, SecretTypes DEF SecretFor
  <2>4. up /\ step = "none" /\ step' = "write" /\ UNCHANGED <<env, up, live, job, rows, kept, edited>>
    BY <1>3 DEF PostConfig, Calls
  <2> QED
    BY <2>2, <2>3, <2>4 DEF SecretInv, InUse
<1>4. CASE WriteEnv
  <2>1. env' = values /\ step = "write" /\ step' = "load" /\ UNCHANGED <<up, live, job, rows, kept, edited>>
    BY <1>4 DEF WriteEnv
  <2>2. ASSUME NEW s PROVE InUse(s)' <=> InUse(s)
    BY <2>1 DEF InUse
  <2>3. ASSUME kept, env'.secret # env.secret PROVE \A s : ~InUse(s)
    BY <2>1, <2>3 DEF SecretInv
  <2>4. ASSUME kept, up, ~edited PROVE env'.secret = live'.secret \/ ~InUse(env.secret)'
    BY <2>1, <2>2, <2>3, <2>4, SecretTypes DEF SecretInv
  <2> QED
    BY <2>1, <2>2, <2>3, <2>4 DEF SecretInv
<1>5. CASE LoadSaved \/ LoadStoreFails
  BY <1>5, SecretTakeOver DEF LoadSaved, LoadStoreFails, Reload, Answer
<1>6. CASE LoadInvalid
  BY <1>6 DEF LoadInvalid, Answer, SecretInv, InUse
<1>7. CASE WriteRefused
  BY <1>7 DEF WriteRefused, Answer, SecretInv, InUse
<1>8. ASSUME NEW j \in Jobs, SyncSelected(j) PROVE SecretInv'
  <2>1. Valid(env) /\ step = "none" /\ UNCHANGED <<env, up, live, step, values, rows, kept, edited>>
    BY <1>8 DEF SyncSelected, Calls
  <2>2. job' = [job EXCEPT ![j] = JobSettings(env)] /\ job \in [Jobs -> Rows]
    BY <1>8 DEF SyncSelected, TypeOK
  <2>3. JobSettings(env).secret \in {DefaultSecret, env.secret}
    BY DEF JobSettings, Load
  <2>4. ASSUME NEW s, InUse(s)' PROVE InUse(s) \/ s = env.secret
    BY <2>1, <2>2, <2>3, <2>4 DEF InUse
  <2>5. kept /\ up /\ ~edited => env.secret \in {NoValue, live.secret}
    BY <2>1 DEF SecretInv
  <2> QED
    BY <2>1, <2>4, <2>5 DEF SecretInv
<1>9. ASSUME NEW j \in Jobs, StoreMessage(j) \/ EndSync(j) PROVE SecretInv'
  <2>1. UNCHANGED <<env, up, live, step, values, kept, edited>>
    BY <1>9 DEF StoreMessage, EndSync
  <2>2. ASSUME NEW s, InUse(s)' PROVE InUse(s)
    <3>1. CASE StoreMessage(j)
      BY <2>2, <3>1 DEF StoreMessage, InUse
    <3>2. CASE EndSync(j)
      BY <2>2, <3>2, NoSecret DEF EndSync, InUse, TypeOK
    <3> QED
      BY <1>9, <3>1, <3>2
  <2> QED
    BY <2>1, <2>2 DEF SecretInv
<1>10. CASE EditByHand
  BY <1>10, SecretLess DEF EditByHand, InUse, SecretInv, TypeOK
<1>11. CASE EnsureAccessToken
  <2>1. env'.secret = env.secret /\ (Valid(env) <=> Valid(env)')
    BY <1>11 DEF EnsureAccessToken, TypeOK, Files, Valid
  <2>2. UNCHANGED <<up, live, step, values, job, rows, kept, edited>>
    BY <1>11 DEF EnsureAccessToken
  <2> QED
    BY <2>1, <2>2 DEF SecretInv, InUse
<1>12. CASE UNCHANGED <<env, up, step, values, live, job, rows, kept, edited>>
  BY <1>12 DEF SecretInv, InUse
<1> QED
  BY <1>1, <1>2, <1>3, <1>4, <1>5, <1>6, <1>7, <1>8, <1>9, <1>10, <1>11, <1>12, StepCases
  DEF OpenPage, LauncherReads, vars

\* Every reference signed with a secret of the file is accepted by the tools of
\* its account, for any interleaving of saves, torn or refused ones, jobs, restarts
\* and the launcher, as long as no torn write and no user has taken a secret out of
\* the file and what a user edited has been read again.
THEOREM ReferencesStayValid == Spec => []ReferencesCanBeRead
<1>1. TypeOK /\ SecretInv => ReferencesCanBeRead
  <2> SUFFICES ASSUME TypeOK, SecretInv, up /\ kept /\ ~edited,
                      NEW r \in rows, r.secret # DefaultSecret
               PROVE  r.secret = live.secret
    BY DEF ReferencesCanBeRead
  <2>1. InUse(r.secret)
    BY DEF InUse
  <2> QED
    BY <2>1, SecretTypes DEF SecretInv
<1> QED
  BY <1>1, SecretInit, SecretStep, ConfigTypes, PTL DEF Spec

-----------------------------------------------------------------------------
(***************************************************************************)
(* What is in force.  An answer stands for the file it was given about:    *)
(* whoever writes the file next takes it back, and a save does so before   *)
(* it writes.                                                              *)
(***************************************************************************)

AnswerInv ==
  /\ step # "none" => answer = "none" /\ up
  /\ ~up => answer = "none"
  /\ SavedIsInForce

LEMMA AnswerStep == TypeOK /\ AnswerInv /\ [Next]_vars => AnswerInv'
<1> SUFFICES ASSUME TypeOK, AnswerInv, [Next]_vars PROVE AnswerInv'
  OBVIOUS
<1> USE DEF AnswerInv, SavedIsInForce, serverVars, saveVars
<1>1. CASE Start \/ StartServerIfNeeded
  BY <1>1 DEF Start, StartServerIfNeeded, CreateApp, TakeOver
<1>2. CASE Stop \/ TornWrite
  BY <1>2 DEF Stop, TornWrite, Stopped
<1>3. ASSUME NEW form \in Forms, PostConfig(form) PROVE AnswerInv'
  BY <1>3 DEF PostConfig, Calls
<1>4. CASE WriteEnv
  BY <1>4 DEF WriteEnv
<1>5. CASE LoadSaved
  BY <1>5 DEF LoadSaved, Reload, TakeOver, Answer, Load
<1>6. CASE LoadInvalid \/ LoadStoreFails \/ WriteRefused
  BY <1>6 DEF LoadInvalid, LoadStoreFails, WriteRefused, Answer
<1>7. CASE EditByHand \/ EnsureAccessToken
  BY <1>7 DEF EditByHand, EnsureAccessToken
<1>8. CASE UNCHANGED <<env, up, live, storeOf, step, answer>>
  BY <1>8
<1> QED
  BY <1>1, <1>2, <1>3, <1>4, <1>5, <1>6, <1>7, <1>8, StepCases
  DEF OpenPage, LauncherReads, SyncSelected, StoreMessage, EndSync, vars

\* After "Config saved" the tools run on the settings of the file, and so will
\* the next start of the server, until the file is written by somebody else.
THEOREM SavedSettingsApply == Spec => []SavedIsInForce
<1>1. Init => AnswerInv
  BY DEF Init, AnswerInv, SavedIsInForce
<1>2. AnswerInv => SavedIsInForce
  BY DEF AnswerInv
<1> QED
  BY <1>1, <1>2, AnswerStep, ConfigTypes, PTL DEF Spec

-----------------------------------------------------------------------------
(***************************************************************************)
(* The access token.  The launcher adds one where it has read none, while  *)
(* a save may be about to write the file as it was before: the token it    *)
(* added is lost then, but it is not yet in force.  What a user does to    *)
(* the token by hand shows in edited until the server has read the file,   *)
(* and no launcher is about to add to what it read before.                 *)
(***************************************************************************)

TokenInv ==
  /\ FileKeyOpens
  /\ step # "none" => up
  /\ ~edited =>
       /\ launcher = "ensure" /\ seen = NoValue => env.token = NoValue
       /\ step = "write" =>
            /\ values.token \in {NoValue, env.token}
            /\ values.token # env.token => live.token = NoValue

LEMMA TokenTypes ==
  ASSUME TypeOK
  PROVE  /\ Load(env).token = env.token /\ Load(env).required = env.required
         /\ NoValue \notin Tokens
BY ConfigAssumption DEF TypeOK, Load

LEMMA TokenStep == TypeOK /\ TokenInv /\ [Next]_vars => TokenInv'
<1> SUFFICES ASSUME TypeOK, TokenInv, [Next]_vars PROVE TokenInv'
  OBVIOUS
<1> USE TokenTypes DEF TokenInv, FileKeyOpens, Admitted, serverVars, saveVars, launcherVars, boundVars
<1>1. CASE Start \/ StartServerIfNeeded
  BY <1>1 DEF Start, StartServerIfNeeded, CreateApp, TakeOver, TypeOK
<1>2. CASE Stop \/ TornWrite
  BY <1>2 DEF Stop, TornWrite, Stopped, Empty
<1>3. ASSUME NEW form \in Forms, PostConfig(form) PROVE TokenInv'
  <2>1. values'.token = env.token
    BY <1>3 DEF PostConfig, Merged, TypeOK, Files
  <2> QED
    BY <1>3, <2>1 DEF PostConfig, Calls
<1>4. CASE WriteEnv
  BY <1>4 DEF WriteEnv
<1>5. CASE LoadSaved \/ LoadStoreFails
  BY <1>5 DEF LoadSaved, LoadStoreFails, Reload, TakeOver, Answer, TypeOK
<1>6. CASE LoadInvalid \/ WriteRefused
  BY <1>6 DEF LoadInvalid, WriteRefused, Answer
<1>7. CASE EditByHand
  BY <1>7 DEF EditByHand
<1>8. CASE LauncherReads
  BY <1>8 DEF LauncherReads
<1>9. CASE EnsureAccessToken
  BY <1>9, EnsureCases DEF EnsureAccessToken, TypeOK, Files
<1>10. CASE UNCHANGED <<env, up, live, step, values, launcher, seen, edited>>
  BY <1>10
<1> QED
  BY <1>1, <1>2, <1>3, <1>4, <1>5, <1>6, <1>7, <1>8, <1>9, <1>10, StepCases
  DEF OpenPage, SyncSelected, StoreMessage, EndSync, vars

\* The token in the file is the one that opens the page, for any interleaving of
\* saves, the launcher's additions, edits by hand and restarts, once what was edited
\* has been read; where a token is required and none was given, nothing opens it.
THEOREM TheFileHasTheKey == Spec => []FileKeyOpens
<1>1. Init => TokenInv
  BY DEF Init, TokenInv, FileKeyOpens
<1>2. TokenInv => FileKeyOpens
  BY DEF TokenInv
<1> QED
  BY <1>1, <1>2, TokenStep, ConfigTypes, PTL DEF Spec
=============================================================================
