---------------------------- MODULE ThreadProofs ----------------------------
(***************************************************************************)
(* What build_thread links, for every set of messages and every order the  *)
(* store may return them in.                                               *)
(***************************************************************************)
EXTENDS ThreadLinkage, TLAPS

Places == 1..Len(scanned)

\* Each candidate is looked at once, and what is linked has been looked at.
ScanInv ==
  /\ \A j \in Places : scanned[j] \notin rest
  /\ \A i, j \in Places : i # j => scanned[i] # scanned[j]
  /\ \A m \in Linked : \E j \in Places : scanned[j] = m

\* The order of the store is that of the pass.
OrderInv ==
  /\ \A j \in Places : \A m \in rest : ~ComesFirst(m, scanned[j])
  /\ \A i, j \in Places : i < j => ~ComesFirst(scanned[j], scanned[i])

\* What PassFollowsHeaders says of one place in the pass.
FollowedAt(j) ==
  basis[scanned[j]] = "headers" <=>
    \/ scanned[j] = seed \/ ShareKeys(scanned[j], seed)
    \/ \E i \in 1..(j - 1) : basis[scanned[i]] # "none" /\ ShareKeys(scanned[i], scanned[j])

\* known_keys has the keys of the seed and of what is linked.
KnownInv == known = mail[seed].keys \cup UNION {mail[m].keys : m \in Linked}

LinkInv ==
  /\ LinkageTypeOK
  /\ ScanInv /\ OrderInv /\ KnownInv
  /\ PassFollowsHeaders
  /\ ThreadIsOfTheConversation

LEMMA InitLinkInv == Init => LinkInv
<1> SUFFICES ASSUME Init PROVE LinkInv
  OBVIOUS
<1>1. LinkageTypeOK
  BY LinkageAssumption DEF Init, LinkageTypeOK
<1>2. Linked = {} /\ Places = {}
  BY DEF Init, Linked, Places
<1>3. ScanInv /\ OrderInv /\ KnownInv
  BY <1>2 DEF Init, ScanInv, OrderInv, KnownInv
<1>4. PassFollowsHeaders /\ ThreadIsOfTheConversation
  BY <1>2 DEF PassFollowsHeaders, ThreadIsOfTheConversation, Places
<1> QED
  BY <1>1, <1>3, <1>4 DEF LinkInv

LEMMA BasesOfLinkage ==
  ASSUME NEW m, NEW keys
  PROVE  /\ ClassifyLinkage(m, keys) \in LinkageBases \cup {"none"}
         /\ Resemblance(m) # "headers"
BY DEF ClassifyLinkage, Resemblance, LinkageBases

\* What a step of the pass does to the candidates looked at.
LEMMA Scanned ==
  ASSUME LinkageTypeOK, ScanInv, NEW m \in Messages, LinkCandidate(m)
  PROVE  /\ Len(scanned') = Len(scanned) + 1
         /\ scanned'[Len(scanned) + 1] = m
         /\ \A j \in Places : scanned'[j] = scanned[j] /\ scanned[j] # m
         /\ Places' = Places \cup {Len(scanned) + 1}
         /\ Len(scanned) \in Nat
         /\ \A n \in Messages \ {m} : basis'[n] = basis[n]
         /\ basis'[m] = ClassifyLinkage(m, known)
         /\ m \notin Linked
         /\ Linked' = IF ClassifyLinkage(m, known) = "none" THEN Linked ELSE Linked \cup {m}
<1>1. scanned \in Seq(Messages) /\ scanned' = Append(scanned, m) /\ m \in rest
  BY DEF LinkageTypeOK, LinkCandidate
<1>2. /\ Len(scanned) \in Nat /\ Len(scanned') = Len(scanned) + 1
      /\ scanned'[Len(scanned) + 1] = m
      /\ \A j \in 1..Len(scanned) : scanned'[j] = scanned[j]
  BY <1>1
<1>3. Places' = Places \cup {Len(scanned) + 1}
  BY <1>2 DEF Places
<1>4. \A j \in Places : scanned[j] # m
  BY <1>1 DEF ScanInv
<1>5. /\ \A n \in Messages \ {m} : basis'[n] = basis[n]
      /\ basis'[m] = ClassifyLinkage(m, known)
  BY DEF LinkageTypeOK, LinkCandidate
<1>6. m \notin Linked
  BY <1>4 DEF ScanInv
<1> QED
  BY <1>2, <1>3, <1>4, <1>5, <1>6 DEF Linked, Places

LEMMA LinkCandidateKeepsLinkInv ==
  ASSUME LinkInv, NEW m \in Messages, LinkCandidate(m)
  PROVE  LinkInv'
<1> DEFINE linkage == ClassifyLinkage(m, known)
<1> USE DEF LinkInv
<1>1. UNCHANGED <<mail, seed, depth, shown>> /\ rest' = rest \ {m} /\ m \in rest
  BY DEF LinkCandidate
<1>2. known' = IF linkage = "none" THEN known ELSE known \cup mail[m].keys
  BY DEF LinkCandidate, KnownKeys
<1>3. LinkageTypeOK'
  <2>1. mail[m].keys \subseteq HeaderKeys
    BY LinkageAssumption DEF LinkageTypeOK
  <2>2. basis' \in [Messages -> LinkageBases \cup {"none"}]
    BY BasesOfLinkage DEF LinkageTypeOK, LinkCandidate
  <2> QED
    BY <1>1, <1>2, <2>1, <2>2 DEF LinkageTypeOK, LinkCandidate
<1>4. ScanInv'
  BY <1>1, Scanned DEF ScanInv, Places
<1>5. OrderInv'
  <2>1. \A n \in rest : ~ComesFirst(n, m)
    BY DEF LinkCandidate
  <2>2. \A j \in Places : ~ComesFirst(m, scanned[j])
    BY <1>1 DEF OrderInv
  <2>3. \A n, o : ComesFirst(n, o)' <=> ComesFirst(n, o)
    BY <1>1 DEF ComesFirst, Older
  <2> QED
    BY <1>1, <2>1, <2>2, <2>3, Scanned DEF OrderInv, Places
<1>6. KnownInv'
  BY <1>1, <1>2, Scanned DEF KnownInv
<1>7. PassFollowsHeaders'
  <2>1. \A n, o : ShareKeys(n, o)' <=> ShareKeys(n, o)
    BY <1>1 DEF ShareKeys
  <2>2. linkage = "headers" <=>
          m = seed \/ ShareKeys(m, seed) \/ \E n \in Linked : ShareKeys(n, m)
    BY BasesOfLinkage DEF ClassifyLinkage, KnownInv, ShareKeys
  <2>3. \A n \in Messages : n \in Linked <=> \E i \in Places : scanned[i] = n /\ basis[n] # "none"
    BY DEF ScanInv, Linked
  <2>4. (\E n \in Linked : ShareKeys(n, m)) <=>
          \E i \in Places : basis[scanned[i]] # "none" /\ ShareKeys(scanned[i], m)
    BY <2>3 DEF Linked, LinkageTypeOK, Places
  <2>5. \A i \in Places : scanned[i] \in Messages \ {m} /\ basis'[scanned[i]] = basis[scanned[i]]
    BY Scanned DEF LinkageTypeOK, Places
  <2>6. ASSUME NEW j, j = Len(scanned) + 1 PROVE FollowedAt(j)'
    <3>1. 1..(j - 1) = Places /\ scanned'[j] = m /\ basis'[m] = linkage
      BY <2>6, Scanned DEF Places
    <3>2. \A i \in Places : scanned'[i] = scanned[i] /\ basis'[scanned'[i]] = basis[scanned[i]]
      BY <2>5, Scanned
    <3> QED
      BY <1>1, <2>1, <2>2, <2>4, <3>1, <3>2 DEF FollowedAt
  <2>7. ASSUME NEW j \in Places PROVE FollowedAt(j)'
    <3>1. \A i \in 1..(j - 1) : i \in Places
      BY Scanned DEF Places
    <3>2. FollowedAt(j)
      BY DEF PassFollowsHeaders, FollowedAt, Places
    <3>3. /\ scanned'[j] = scanned[j] /\ basis'[scanned'[j]] = basis[scanned[j]]
          /\ \A i \in 1..(j - 1) :
               scanned'[i] = scanned[i] /\ basis'[scanned'[i]] = basis[scanned[i]]
      BY <2>5, <3>1, Scanned
    <3> QED
      BY <1>1, <2>1, <3>2, <3>3 DEF FollowedAt
  <2>8. \A j \in Places' : FollowedAt(j)'
    BY <2>6, <2>7, Scanned
  <2> QED
    BY <2>8 DEF PassFollowsHeaders, FollowedAt, Places
<1>8. ThreadIsOfTheConversation'
  <2>0. /\ \A C : ClosedUnderKeys(C)' <=> ClosedUnderKeys(C)
        /\ \A n : Resemblance(n)' = Resemblance(n)
    BY <1>1 DEF ClosedUnderKeys, ShareKeys, Resemblance, WithinDays
  <2> SUFFICES ASSUME NEW C \in SUBSET Messages, seed \in C, ClosedUnderKeys(C),
                      \A n \in Messages : Resemblance(n) # "none" => n \in C,
                      linkage # "none"
               PROVE  m \in C
    BY <1>1, <2>0, Scanned DEF ThreadIsOfTheConversation
  <2>1. Linked \subseteq C
    BY DEF ThreadIsOfTheConversation
  <2>2. CASE mail[m].keys \cap known # {}
    <3>1. PICK n \in {seed} \cup Linked : mail[m].keys \cap mail[n].keys # {}
      BY <2>2 DEF KnownInv
    <3> QED
      BY <2>1, <3>1 DEF ClosedUnderKeys, ShareKeys
  <2> QED
    BY <2>2 DEF ClassifyLinkage
<1> QED
  BY <1>3, <1>4, <1>5, <1>6, <1>7, <1>8

LEMMA LinkInvStep == LinkInv /\ [Next]_linkVars => LinkInv'
<1> SUFFICES ASSUME LinkInv, [Next]_linkVars PROVE LinkInv'
  OBVIOUS
<1>1. ASSUME UNCHANGED <<mail, seed, depth, rest, scanned, known, basis>>, shown' \in SUBSET Messages
      PROVE  LinkInv'
  BY <1>1 DEF LinkInv, LinkageTypeOK, ScanInv, OrderInv, KnownInv, PassFollowsHeaders,
     ThreadIsOfTheConversation, ClosedUnderKeys, ShareKeys, Resemblance, WithinDays, ComesFirst, Older,
     Linked, Places
<1>2. CASE Show \/ UNCHANGED linkVars
  BY <1>1, <1>2 DEF Show, Linked, linkVars, LinkInv, LinkageTypeOK
<1> QED
  BY <1>2, LinkCandidateKeepsLinkInv DEF Next

THEOREM LinkInvHolds == Spec => []LinkInv
BY InitLinkInv, LinkInvStep, PTL DEF Spec

\* A thread has nothing that is not related to its seed, through headers of
\* what is related to it or by resemblance, for any messages and any order.
\* (threading_utils.py:72-77)
THEOREM ThreadsAreSound == Spec => []ThreadIsOfTheConversation
<1>1. LinkInv => ThreadIsOfTheConversation
  BY DEF LinkInv
<1> QED
  BY <1>1, LinkInvHolds, PTL

\* The pass follows the headers of all it has linked, and no others.
\* (threading_utils.py:69-77)
THEOREM HeadersAreFollowed == Spec => []PassFollowsHeaders
<1>1. LinkInv => PassFollowsHeaders
  BY DEF LinkInv
<1> QED
  BY <1>1, LinkInvHolds, PTL

\* The chain of headers from a linked message to older ones is never broken,
\* because the pass goes from the newest to the oldest.  (cache.py:317)
THEOREM AncestorsAreNotLost == Spec => []AncestorsAreLinked
<1>1. ASSUME LinkInv PROVE AncestorsAreLinked
  <2> SUFFICES ASSUME NEW i \in Places, NEW j \in Places, basis[scanned[i]] # "none",
                      Older(scanned[j], scanned[i]), ShareKeys(scanned[i], scanned[j])
               PROVE  basis[scanned[j]] # "none"
    BY DEF AncestorsAreLinked, Places
  <2>1. i \in Nat /\ j \in Nat
    BY DEF Places
  <2>2. i # j
    <3>1. scanned[i] \in Messages
      BY <1>1 DEF LinkInv, LinkageTypeOK, Places
    <3>2. mail[scanned[i]].date \in Nat \cup {NoDate}
      BY <1>1, <3>1, LinkageAssumption DEF LinkInv, LinkageTypeOK
    <3> QED
      BY <3>2 DEF Older
  <2>3. ~(j < i)
    BY <1>1 DEF LinkInv, OrderInv, ComesFirst
  <2>4. i \in 1..(j - 1)
    BY <2>1, <2>2, <2>3 DEF Places
  <2> QED
    BY <1>1, <2>4 DEF LinkInv, PassFollowsHeaders, Places
<1> QED
  BY <1>1, LinkInvHolds, PTL
=============================================================================
