---------------------------- MODULE SyncPromise -----------------------------
(***************************************************************************)
(* What a synchronisation promises whoever asked for it, with nothing of   *)
(* how it is done: the store only ever gains messages, and a request is    *)
(* answered "completed" only if every message it learned of is held.  Any  *)
(* other answer promises nothing, and neither does a process that stops.   *)
(***************************************************************************)
CONSTANTS Jobs, Keys, Answers

VARIABLES
  held,      \* the messages the store has
  owed,      \* what each request under way has learned of
  answer     \* "busy", or the last answer

promiseVars == <<held, owed, answer>>

Busy(j) == answer[j] = "busy"

PromiseInit ==
  /\ held = {}
  /\ owed = [j \in Jobs |-> {}]
  /\ answer = [j \in Jobs |-> "none"]

Ask(j) ==
  /\ ~Busy(j)
  /\ answer' = [answer EXCEPT ![j] = "busy"]
  /\ UNCHANGED <<held, owed>>

Learn(j) ==
  /\ Busy(j)
  /\ \E K \in SUBSET Keys : owed' = [owed EXCEPT ![j] = @ \cup K]
  /\ UNCHANGED <<held, answer>>

Hold ==
  /\ \E k \in Keys : held' = held \cup {k}
  /\ UNCHANGED <<owed, answer>>

Answer(j) ==
  /\ Busy(j)
  /\ \E a \in Answers :
       /\ a = "completed" => owed[j] \subseteq held
       /\ answer' = [answer EXCEPT ![j] = a]
  /\ owed' = [owed EXCEPT ![j] = {}]
  /\ UNCHANGED held

Stop ==
  /\ owed' = [j \in Jobs |-> {}]
  /\ answer' = [j \in Jobs |-> "none"]
  /\ UNCHANGED held

PromiseNext == Hold \/ Stop \/ \E j \in Jobs : Ask(j) \/ Learn(j) \/ Answer(j)

PromiseSpec == PromiseInit /\ [][PromiseNext]_promiseVars
=============================================================================
