--------------------------- MODULE ThreadLinkage ----------------------------
(***************************************************************************)
(* build_thread of threading_utils.py: which of the candidate messages     *)
(* belong to the thread of a seed message, and on what basis.  The         *)
(* candidates are passed over once, in the order the store returns them,   *)
(* while the set of known header keys grows.                               *)
(***************************************************************************)
EXTENDS Naturals, Sequences, FiniteSets

CONSTANTS
  Messages,         \* message references
  HeaderKeys,       \* values of Message-ID, In-Reply-To and References
  NoSubject,        \* the empty normalized subject
  NoDate,           \* neither a Date header nor an internal date
  ParticipantDays,  \* 14 in the code
  WindowDays,       \* date_window_days
  Headers,          \* the headers that messages may have
  CandidateSets,    \* what the store may return
  Depths            \* the depths a client may ask for

ASSUME LinkageAssumption ==
  /\ \A h \in Headers : h.keys \subseteq HeaderKeys /\ h.date \in Nat \cup {NoDate}
  /\ NoDate \notin Nat
  /\ ParticipantDays \in Nat /\ WindowDays \in Nat
  /\ CandidateSets \subseteq SUBSET Messages
  /\ Depths \subseteq Nat

VARIABLES
  mail,      \* the headers of each message: keys, subject, people, date
  seed,      \* the message whose thread is asked for
  depth,     \* how many messages to show
  rest,      \* candidates not looked at yet
  scanned,   \* candidates looked at, in their order
  known,     \* known_keys
  basis,     \* what links a message; "none" if nothing does
  shown      \* the answer; the order it is shown in is left out

linkVars == <<mail, seed, depth, rest, scanned, known, basis, shown>>

LinkageBases == {"headers", "subject", "participant_heuristic", "date_window"}

LinkageTypeOK ==
  /\ mail \in [Messages -> Headers]
  /\ seed \in Messages /\ depth \in Depths
  /\ rest \in SUBSET Messages
  /\ scanned \in Seq(Messages)
  /\ known \in SUBSET HeaderKeys
  /\ basis \in [Messages -> LinkageBases \cup {"none"}]
  /\ shown \in SUBSET Messages

Linked == {m \in Messages : basis[m] # "none"}

Init ==
  /\ mail \in [Messages -> Headers]
  /\ seed \in Messages
  /\ depth \in Depths
  /\ rest \in CandidateSets
  /\ scanned = <<>>
  /\ known = mail[seed].keys
  /\ basis = [m \in Messages |-> "none"]
  /\ shown = {}

WithinDays(m, n, days) ==
  /\ mail[m].date # NoDate /\ mail[n].date # NoDate
  /\ mail[m].date <= mail[n].date + days
  /\ mail[n].date <= mail[m].date + days

\* What links a message that shares no known header key.
Resemblance(m) ==
  LET sameSubject == mail[m].subject = mail[seed].subject
      sharePeople == mail[m].people \cap mail[seed].people # {}
  IN IF sameSubject /\ mail[m].subject # NoSubject /\ sharePeople THEN "subject"
     ELSE IF sharePeople /\ WithinDays(seed, m, ParticipantDays) THEN "participant_heuristic"
     ELSE IF sameSubject /\ WithinDays(seed, m, WindowDays) THEN "date_window"
     ELSE "none"

ClassifyLinkage(m, keys) ==
  IF m = seed \/ mail[m].keys \cap keys # {} THEN "headers" ELSE Resemblance(m)

Older(m, n) ==
  mail[m].date # NoDate /\ mail[n].date # NoDate /\ mail[m].date < mail[n].date

\* The store returns the newest first; a message without a date comes anywhere,
\* because the time it was stored takes the date's place.
ComesFirst_Oldest(m, n) == Older(m, n)
ComesFirst(m, n) == Older(n, m)

KnownKeys_OfAll(m, linkage) == known \cup mail[m].keys
KnownKeys_OfSeed(m, linkage) == known
KnownKeys(m, linkage) == IF linkage = "none" THEN known ELSE known \cup mail[m].keys

LinkCandidate(m) ==
  /\ m \in rest
  /\ \A n \in rest : ~ComesFirst(n, m)
  /\ LET linkage == ClassifyLinkage(m, known) IN
       /\ basis' = [basis EXCEPT ![m] = linkage]
       /\ known' = KnownKeys(m, linkage)
  /\ scanned' = Append(scanned, m)
  /\ rest' = rest \ {m}
  /\ UNCHANGED <<mail, seed, depth, shown>>

\* The linked messages sorted by date, those without one first, and cut off
\* after the depth asked for.
Earlier(m, n) ==
  \/ mail[m].date = NoDate /\ mail[n].date # NoDate
  \/ Older(m, n)
  \/ /\ mail[m].date = mail[n].date
     /\ \E i, j \in 1..Len(scanned) : i < j /\ scanned[i] = m /\ scanned[j] = n

Show ==
  /\ rest = {} /\ shown = {}
  /\ shown' = {m \in Linked : Cardinality({n \in Linked : Earlier(n, m)}) < depth}
  /\ UNCHANGED <<mail, seed, depth, rest, scanned, known, basis>>

Next == Show \/ \E m \in Messages : LinkCandidate(m)

Spec == Init /\ [][Next]_linkVars

-----------------------------------------------------------------------------
ShareKeys(m, n) == mail[m].keys \cap mail[n].keys # {}

\* A set of messages that no header leads out of.
ClosedUnderKeys(C) == \A m \in C : \A n \in Messages : ShareKeys(m, n) => n \in C

\* A thread has nothing that is not related to its seed: whatever set of
\* messages has the seed and what resembles it, and is closed under the header
\* keys, has the thread.  (threading_utils.py:72-77: a candidate that is not
\* linked adds no key)
ThreadIsOfTheConversation ==
  \A C \in SUBSET Messages :
    /\ seed \in C
    /\ \A m \in Messages : Resemblance(m) # "none" => m \in C
    /\ ClosedUnderKeys(C)
    => Linked \subseteq C

\* The pass follows the headers of all it has linked: a candidate is linked by
\* headers exactly when it is the seed, or shares a key with it or with one
\* linked earlier in the pass, whatever that one was linked by.
\* (threading_utils.py:69-77)
PassFollowsHeaders ==
  \A j \in 1..Len(scanned) :
    basis[scanned[j]] = "headers" <=>
      \/ scanned[j] = seed \/ ShareKeys(scanned[j], seed)
      \/ \E i \in 1..(j - 1) : basis[scanned[i]] # "none" /\ ShareKeys(scanned[i], scanned[j])

\* Because the store returns the newest first, a thread has all that is older
\* than one of its messages and shares a header with it: the chain from a late
\* message back to the first is never broken.  (cache.py:317)
AncestorsAreLinked ==
  \A i, j \in 1..Len(scanned) :
    /\ basis[scanned[i]] # "none"
    /\ Older(scanned[j], scanned[i]) /\ ShareKeys(scanned[i], scanned[j])
    => basis[scanned[j]] # "none"
=============================================================================
