----------------------------- MODULE MCLongXact -----------------------------
(***************************************************************************)
(* Small scenarios for model checking LongXact.  A run names some; each    *)
(* has calls, tokens and bounds of its own.                                *)
(***************************************************************************)
EXTENDS LongXact, TLC

CONSTANT Scenarios

VARIABLE scenario      \* [name, tokens]: the one that is played, and its tokens

\* contend: two sessions lock, unlock and relock, and support is switched on and off.
\* work: support is on; the holder of a lock works on the row, others change it.
\* save: the same, with savepoints.
\* add: tokens are added.
Play ==
  [contend |-> [calls |-> {"LockRow", "UnlockRows", "EnableLongTransactions", "CheckAuth",
                           "DisableLongTransactions"},
                tokens |-> 2, on |-> FALSE, xid |-> 3, clock |-> 2],
   work |-> [calls |-> {"LockRow", "AddAuth", "Change", "Fetch"},
             tokens |-> 1, on |-> TRUE, xid |-> 3, clock |-> 1],
   save |-> [calls |-> {"LockRow", "AddAuth", "Change", "Fetch", "Savepoint"},
             tokens |-> 1, on |-> TRUE, xid |-> 3, clock |-> 0],
   add |-> [calls |-> {"AddAuth"}, tokens |-> 1, on |-> TRUE, xid |-> 3, clock |-> 0]]

Symmetry == Permutations(Sessions) \cup Permutations(Tokens)

MCInit ==
  /\ \E name \in Scenarios : \E T \in SUBSET Tokens :
       /\ Cardinality(T) = Play[name].tokens
       /\ scenario = [name |-> name, tokens |-> T]
       /\ enabled = Play[name].on /\ guarded = Play[name].on
  /\ clock = 0 /\ xid = 0
  /\ locks = {}
  /\ row = [r \in Rows |-> [ver |-> 0, tokens |-> {}]]
  /\ temp = [s \in Sessions |-> NoTable]
  /\ tx = [s \in Sessions |-> Idle]
  /\ done = {} /\ fetched = {}

Does(call) == call \in Play[scenario.name].calls /\ UNCHANGED scenario
Always == UNCHANGED scenario
LastTime == Play[scenario.name].clock

MCNext ==
  \/ Always /\ \E s \in Sessions : Begin(s)
  \/ Always /\ \E s \in Sessions : Commit(s)
  \/ Always /\ \E s \in Sessions : Rollback(s)
  \/ Does("Savepoint") /\ \E s \in Sessions : Savepoint(s)
  \/ Does("Savepoint") /\ \E s \in Sessions : ReleaseSavepoint(s)
  \/ Does("Savepoint") /\ \E s \in Sessions : RollbackToSavepoint(s)
  \/ Does("LockRow")
     /\ \E s \in Sessions, r \in Rows, a \in scenario.tokens, expires \in clock .. LastTime :
          LockRow(s, r, a, expires)
  \/ Does("UnlockRows") /\ \E s \in Sessions, a \in scenario.tokens : UnlockRows(s, a)
  \/ Does("AddAuth") /\ \E s \in Sessions, a \in scenario.tokens : AddAuth(s, a)
  \/ Does("Change") /\ \E s \in Sessions, r \in Rows : Change(s, r)
  \/ Does("Fetch") /\ \E s \in Sessions, r \in Rows : Fetch(s, r)
  \/ Always /\ \E s \in Sessions : Disconnect(s)
  \/ Does("EnableLongTransactions") /\ EnableLongTransactions
  \/ Does("CheckAuth") /\ CheckAuth
  \/ Does("DisableLongTransactions") /\ DisableLongTransactions
  \/ Always /\ Tick

\* The bounds of the scenario on the transactions begun and the time
WithinBounds == xid <= Play[scenario.name].xid /\ clock <= LastTime

MCSpec == MCInit /\ [][MCNext]_<<vars, scenario>>
=============================================================================
