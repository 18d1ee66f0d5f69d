------------------------------ MODULE LongXact ------------------------------
(***************************************************************************)
(* Long transaction support: the row locks of postgis/long_xact.sql.in and *)
(* the trigger of postgis/long_xact.c, as used by concurrent sessions on   *)
(* one table.  A lock is a row of authorization_table; it outlives the     *)
(* transaction that takes it, until it is unlocked or expires.  A session  *)
(* may change a locked row in a transaction to which it added the token of *)
(* the lock (AddAuth).                                                     *)
(*                                                                         *)
(* PostgreSQL is modelled as far as the functions rely on it: snapshots,   *)
(* waits on uncommitted row changes, and the serializable level's refusal  *)
(* of dangerous structures of read-write dependencies.  An error aborts    *)
(* the transaction, or what was done since its savepoint.  A wait is a     *)
(* disabled action; Rollback stands for what ends it (deadlock detection,  *)
(* statement timeout, the client).                                         *)
(***************************************************************************)
EXTENDS Integers, FiniteSets

CONSTANTS Sessions, Rows,
          Tokens,         \* the authorization tokens the clients use
          Serializable,   \* the isolation level: serializable, else read committed
          MaxXid,         \* bound on the transactions begun
          MaxClock        \* bound on the time

ASSUME IsolationLevel == Serializable \in BOOLEAN
ASSUME RowsAreNotTheTable == "locks" \notin Rows
ASSUME TimeBounds == MaxXid \in Nat /\ MaxClock \in Nat

VARIABLES clock,
          xid,      \* the last transaction id given out
          locks,    \* authorization_table: [rid, authid, expires, by], by the inserting xid
          row,      \* rid -> [ver, tokens]: the last writer of the row, and the tokens it had
          temp,     \* session -> its temp_lock_have_table: [made, rows]
          enabled,  \* the metadata tables exist
          guarded,  \* trigger check_auth is on the table
          tx,       \* session -> its open transaction, or Idle
          done,     \* the committed transactions, for the serializable level
          fetched   \* [lock, ver, reader]: a version read by the holder of a lock of its row

vars == <<clock, xid, locks, row, temp, enabled, guarded, tx, done, fetched>>

Idle == [xid |-> 0]
NoTable == [made |-> FALSE, rows |-> {}]
Open(s) == tx[s].xid # 0
Others(s) == {o \in Sessions \ {s} : Open(o)}

-----------------------------------------------------------------------------
(* What a statement of session s sees: its snapshot and its own changes.   *)

TempTables == {s \in Sessions : temp[s].made}
Own(s) == {o \in {s} : temp[s].made}

LocksSeen(s) ==
  ((IF Serializable THEN tx[s].locks ELSE locks) \ tx[s].del) \cup tx[s].ins
VersionSeen(s, r) ==
  IF r \in tx[s].wrote THEN tx[s].xid
  ELSE IF Serializable THEN tx[s].row[r].ver ELSE row[r].ver

\* SELECT * FROM pg_class WHERE relname = 'temp_lock_have_table': pg_class lists the
\* temporary tables of every session, created by committed transactions or its own
TempTablesSeen(s) ==
  Own(s) \cup (IF Serializable THEN tx[s].temps
               ELSE {o \in TempTables : Open(o) => tx[o].temp.made})

Live(l, now) == l.expires >= now

\* Faulty: a lock ends at its expiry, not after it
HeldOnToTheEnd(s, r) ==
  {l \in LocksSeen(s) : l.rid = r /\ l.expires > tx[s].now}

\* The locks in force on row r: those LockRow and the trigger find
HeldOn(s, r) == {l \in LocksSeen(s) : l.rid = r /\ Live(l, tx[s].now)}

\* GetCurrentTransactionId: after a savepoint, the id of the subtransaction
CurrentXid(s) == IF tx[s].sub # 0 THEN tx[s].sub ELSE tx[s].xid

TokensOf(s) == {t \in Tokens : [transid |-> CurrentXid(s), lockcode |-> t] \in temp[s].rows}

\* The tokens added in the transaction, before or after a savepoint
TokensAdded(s) == {e.lockcode : e \in {x \in temp[s].rows : x.transid \in tx[s].ids}}

-----------------------------------------------------------------------------
(* Transactions.                                                           *)

Begin(s) ==
  /\ ~Open(s) /\ xid < MaxXid
  /\ xid' = xid + 1
  /\ tx' = [tx EXCEPT ![s] =
       [xid |-> xid + 1, ids |-> {xid + 1}, sub |-> 0, saved |-> {},
        now |-> clock, start |-> Cardinality(done),
        locks |-> locks, row |-> row, temp |-> temp[s],
        temps |-> {o \in TempTables : Open(o) => tx[o].temp.made},
        ins |-> {}, del |-> {}, wrote |-> {}, reads |-> {}, seen |-> {}]]
  /\ UNCHANGED <<clock, locks, row, temp, enabled, guarded, done, fetched>>

\* Of the committed transactions, those that still matter to an open one
Kept(s, ended) == IF Others(s) = {} THEN {} ELSE ended

Abort(s) ==
  /\ tx' = [tx EXCEPT ![s] = Idle]
  /\ temp' = [temp EXCEPT ![s] = tx[s].temp]
  /\ done' = Kept(s, done)
  /\ UNCHANGED <<clock, xid, locks, row, enabled, guarded, fetched>>

Rollback(s) == Open(s) /\ Abort(s)

\* x read something in its snapshot that y, which ran beside it, replaced
Depends(x, y) ==
  /\ x.reads \cap y.writes # {}
  /\ y.commit > x.start /\ x.commit > y.start

\* in depends on pivot, pivot on out, and out was the first to commit; if in wrote
\* nothing, out matters only when in saw it
Dangerous(T) ==
  \E in, pivot, out \in T :
    /\ in # pivot /\ pivot # out
    /\ Depends(in, pivot) /\ Depends(pivot, out)
    /\ out.commit < pivot.commit /\ out.commit <= in.commit
    /\ in.writes = {} => out.commit <= in.start

Commit(s) ==
  LET t == tx[s]
      changesLocks == t.ins # {} \/ t.del # {}
      ended == [start |-> t.start, commit |-> Cardinality(done) + 1, reads |-> t.reads,
                writes |-> t.wrote \cup (IF changesLocks THEN {"locks"} ELSE {})]
  IN  /\ Open(s)
      /\ IF Serializable /\ Dangerous(done \cup {ended})
         THEN Abort(s)
         ELSE /\ locks' = (locks \ t.del) \cup t.ins
              /\ row' = [r \in Rows |-> IF r \in t.wrote
                                        THEN [ver |-> t.xid, tokens |-> TokensAdded(s)]
                                        ELSE row[r]]
              /\ done' = Kept(s, done \cup {ended})
              /\ fetched' = {f \in fetched \cup t.seen : f.lock \in locks'}
              /\ tx' = [tx EXCEPT ![s] = Idle]
              /\ UNCHANGED <<clock, xid, temp, enabled, guarded>>

\* SAVEPOINT: what ROLLBACK TO goes back to.  It begins a subtransaction, with its own id
Savepoint(s) ==
  /\ Open(s) /\ tx[s].sub = 0 /\ xid < MaxXid
  /\ xid' = xid + 1
  /\ tx' = [tx EXCEPT ![s].sub = xid + 1, ![s].ids = @ \cup {xid + 1},
                       ![s].saved = {[ins |-> tx[s].ins, del |-> tx[s].del,
                                      wrote |-> tx[s].wrote, seen |-> tx[s].seen,
                                      temp |-> temp[s]]}]
  /\ UNCHANGED <<clock, locks, row, temp, enabled, guarded, done, fetched>>

ReleaseSavepoint(s) ==
  /\ Open(s) /\ tx[s].sub # 0
  /\ tx' = [tx EXCEPT ![s].sub = 0, ![s].saved = {}]
  /\ UNCHANGED <<clock, xid, locks, row, temp, enabled, guarded, done, fetched>>

\* ROLLBACK TO the savepoint, and its release.  The client forgets what it fetched since,
\* the serializable level does not
RollbackToSavepoint(s) ==
  /\ Open(s)
  /\ \E p \in tx[s].saved :
       /\ tx' = [tx EXCEPT ![s].sub = 0, ![s].saved = {}, ![s].ins = p.ins, ![s].del = p.del,
                            ![s].wrote = p.wrote, ![s].seen = p.seen]
       /\ temp' = [temp EXCEPT ![s] = p.temp]
  /\ UNCHANGED <<clock, xid, locks, row, enabled, guarded, done, fetched>>

\* Statement of s: t is what it makes of the transaction
Statement(s, t) ==
  /\ tx' = [tx EXCEPT ![s] = t]
  /\ UNCHANGED <<clock, xid, locks, row, enabled, guarded, done, fetched>>

\* DELETE of the locks D, then a statement that leaves transaction t.  It waits for
\* another transaction that deletes one of them; a serializable one fails if that commits
DeleteLocks(s, D, t) ==
  /\ \A o \in Others(s) : tx[o].del \cap D = {}
  /\ IF D \subseteq locks \cup tx[s].ins
     THEN Statement(s, t) /\ UNCHANGED temp
     ELSE Abort(s)

-----------------------------------------------------------------------------
(* The functions of long_xact.sql.in.  An exception ends the transaction.  *)

LockRow(s, r, a, expires) ==
  LET expired == {l \in LocksSeen(s) : ~Live(l, tx[s].now)}
      t == [tx[s] EXCEPT !.del = @ \cup (expired \ tx[s].ins), !.ins = @ \ expired,
                         !.reads = @ \cup {"locks"}]
      new == [rid |-> r, authid |-> a, expires |-> expires, by |-> tx[s].xid]
  IN  /\ Open(s)
      /\ IF enabled
         THEN DeleteLocks(s, expired, IF HeldOn(s, r) # {} THEN t   \* returns 0, or 1 if it is a's
                                      ELSE [t EXCEPT !.ins = @ \cup {new}])
         ELSE Abort(s)

UnlockRows(s, a) ==
  LET held == {l \in LocksSeen(s) : l.authid = a}
  IN  /\ Open(s)
      /\ IF enabled
         THEN DeleteLocks(s, held, [tx[s] EXCEPT !.del = @ \cup (held \ tx[s].ins),
                                                 !.ins = @ \ held, !.reads = @ \cup {"locks"}])
         ELSE Abort(s)

\* The name temp_lock_have_table resolves in the session's own temporary schema only
AddAuth(s, a) ==
  LET mine == temp[s].made \/ TempTablesSeen(s) = {}
      entry == [transid |-> CurrentXid(s), lockcode |-> a]
  IN  /\ Open(s)
      /\ IF mine
         THEN /\ temp' = [temp EXCEPT ![s] = [made |-> TRUE, rows |-> @.rows \cup {entry}]]
              /\ Statement(s, tx[s])
         ELSE Abort(s)

\* EnableLongTransactions, CheckAuth and DisableLongTransactions lock the tables against
\* every transaction that used them; here they run only when none is open, which is stricter
Quiet == \A s \in Sessions : ~Open(s)

EnableLongTransactions ==
  /\ Quiet
  /\ enabled' = TRUE
  /\ UNCHANGED <<clock, xid, locks, row, temp, guarded, tx, done, fetched>>

CheckAuth ==
  /\ Quiet /\ enabled /\ ~guarded
  /\ guarded' = TRUE
  /\ UNCHANGED <<clock, xid, locks, row, temp, enabled, tx, done, fetched>>

\* Faulty: the triggers stay
DisableKeepingTriggers ==
  /\ Quiet
  /\ enabled' = FALSE /\ locks' = {}
  /\ UNCHANGED <<clock, xid, row, temp, guarded, tx, done, fetched>>

DisableLongTransactions ==
  /\ Quiet
  /\ enabled' = FALSE /\ guarded' = FALSE /\ locks' = {}
  /\ UNCHANGED <<clock, xid, row, temp, tx, done, fetched>>

-----------------------------------------------------------------------------
(* check_authorization, the trigger: the first live lock of the row says   *)
(* which token the transaction must have added.                            *)

\* Faulty: the token of an earlier transaction counts
AuthorizedForGood(s, r) ==
  IF HeldOn(s, r) = {} THEN {TRUE}
  ELSE {\E e \in temp[s].rows : e.lockcode = l.authid : l \in HeldOn(s, r)}

Authorized(s, r) ==
  IF HeldOn(s, r) = {} THEN {TRUE}
  ELSE {temp[s].made /\ l.authid \in TokensOf(s) : l \in HeldOn(s, r)}

\* UPDATE or DELETE of row r, fires the trigger once it has the row
Change(s, r) ==
  LET t == [tx[s] EXCEPT !.wrote = @ \cup {r},
                         !.reads = @ \cup {r} \cup (IF guarded THEN {"locks"} ELSE {})]
      stale == Serializable /\ r \notin tx[s].wrote /\ tx[s].row[r] # row[r]
  IN  /\ Open(s)
      /\ \A o \in Others(s) : r \notin tx[o].wrote
      /\ \/ stale /\ Abort(s)
         \/ /\ ~stale /\ guarded /\ FALSE \in Authorized(s, r)
            /\ Abort(s)
         \/ /\ ~stale /\ (guarded => TRUE \in Authorized(s, r))
            /\ Statement(s, t) /\ UNCHANGED temp

-----------------------------------------------------------------------------
(* The clients.                                                            *)

\* The holder of a lock on row r reads it, to work on it until it unlocks
Fetch(s, r) ==
  /\ Open(s) /\ guarded
  /\ \E l \in HeldOn(s, r) :
       Statement(s, [tx[s] EXCEPT !.reads = @ \cup {r},
                                  !.seen = @ \cup {[lock |-> l, ver |-> VersionSeen(s, r),
                                                    reader |-> tx[s].xid]}])
  /\ UNCHANGED temp

\* The session ends, and its temporary table with it
Disconnect(s) ==
  /\ ~Open(s) /\ temp[s].made
  /\ temp' = [temp EXCEPT ![s] = NoTable]
  /\ UNCHANGED <<clock, xid, locks, row, enabled, guarded, tx, done, fetched>>

Tick ==
  /\ clock < MaxClock
  /\ clock' = clock + 1
  /\ UNCHANGED <<xid, locks, row, temp, enabled, guarded, tx, done, fetched>>

-----------------------------------------------------------------------------
Init ==
  /\ clock = 0 /\ xid = 0
  /\ locks = {}
  /\ row = [r \in Rows |-> [ver |-> 0, tokens |-> {}]]
  /\ temp = [s \in Sessions |-> NoTable]
  /\ enabled = FALSE /\ guarded = FALSE
  /\ tx = [s \in Sessions |-> Idle]
  /\ done = {} /\ fetched = {}

Next ==
  \/ \E s \in Sessions : Begin(s)
  \/ \E s \in Sessions : Commit(s)
  \/ \E s \in Sessions : Rollback(s)
  \/ \E s \in Sessions : Savepoint(s)
  \/ \E s \in Sessions : ReleaseSavepoint(s)
  \/ \E s \in Sessions : RollbackToSavepoint(s)
  \/ \E s \in Sessions, r \in Rows, a \in Tokens, expires \in clock .. MaxClock :
       LockRow(s, r, a, expires)
  \/ \E s \in Sessions, a \in Tokens : UnlockRows(s, a)
  \/ \E s \in Sessions, a \in Tokens : AddAuth(s, a)
  \/ \E s \in Sessions, r \in Rows : Change(s, r)
  \/ \E s \in Sessions, r \in Rows : Fetch(s, r)
  \/ \E s \in Sessions : Disconnect(s)
  \/ EnableLongTransactions
  \/ CheckAuth
  \/ DisableLongTransactions
  \/ Tick

Spec == Init /\ [][Next]_vars

-----------------------------------------------------------------------------
\* Times, ids and tokens are of their types; no lock and no trigger without the tables
TypeOK ==
  /\ clock \in 0 .. MaxClock /\ xid \in 0 .. MaxXid
  /\ locks \subseteq [rid : Rows, authid : Tokens, expires : 0 .. MaxClock, by : 1 .. MaxXid]
  /\ row \in [Rows -> [ver : 0 .. MaxXid, tokens : SUBSET Tokens]]
  /\ enabled \in BOOLEAN /\ guarded \in BOOLEAN
  /\ ~enabled => locks = {} /\ ~guarded
  /\ fetched \subseteq [lock : [rid : Rows, authid : Tokens, expires : 0 .. MaxClock,
                                by : 1 .. MaxXid],
                      ver : 0 .. MaxXid, reader : 1 .. MaxXid]

\* Two sessions that lock a row at once never both get it: its live locks have one token
OneHolder ==
  \A k, l \in locks :
    k.rid = l.rid /\ Live(k, clock) /\ Live(l, clock) => k.authid = l.authid

\* What the holder of a lock read of the row stays current while the lock lives, unless a
\* transaction with the token of the lock changes it: a change that began before the lock
\* was taken does not land behind the holder's back
HolderReadsStayCurrent ==
  \A f \in fetched :
    f.lock \in locks /\ Live(f.lock, clock) =>
      \/ row[f.lock.rid].ver \in {f.ver, f.reader}
      \/ f.lock.authid \in row[f.lock.rid].tokens

\* A transaction that has added the token of every lock in force on a row may change it
AddedTokensAuthorize ==
  \A s \in Sessions, r \in Rows :
    Open(s) /\ {l.authid : l \in HeldOn(s, r)} \subseteq TokensAdded(s)
      => FALSE \notin Authorized(s, r)

\* A transaction can add its token, whichever sessions added theirs before
TokensAreAccepted ==
  \A s \in Sessions : Open(s) => temp[s].made \/ TempTablesSeen(s) = {}
=============================================================================
