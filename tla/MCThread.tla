------------------------------ MODULE MCThread ------------------------------
(***************************************************************************)
(* Values for the constants of ThreadLinkage: one correspondent and one    *)
(* subject, either of which a message may lack, and two header keys.       *)
(***************************************************************************)
EXTENDS ThreadLinkage

CONSTANTS m1, m2, m3, k1, k2, someone, someSubject

MCHeaders ==
  [keys : {{k1}, {k2}, {k1, k2}},
   subject : {someSubject}, people : {{someone}}, date : 0..2 \cup {NoDate}]
  \cup [keys : {{k1}, {k2}, {k1, k2}},
        subject : {NoSubject}, people : {{}, {someone}}, date : {0, 2}]

MCCandidateSets == {{m1, m2, m3}, {m2, m3}}
=============================================================================
