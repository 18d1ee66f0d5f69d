---------------------------- MODULE LongXactProof ----------------------------
(***************************************************************************)
(* For any sessions, rows and tokens: the live locks of a row have one     *)
(* token when transactions are serializable, although LockRow looks for a  *)
(* lock and inserts one in two statements.                                 *)
(*                                                                         *)
(* And what the holder of a lock reads of the row stays current while the  *)
(* lock lives.  A change that does not know of the lock, and lands after   *)
(* it, is the pivot of a dangerous structure: the holder read what it      *)
(* replaces, and it read locks to which the lock was added.                *)
(***************************************************************************)
EXTENDS LongXact, FiniteSetTheorems, TLAPS

-----------------------------------------------------------------------------
(* The inductive invariant.                                                *)

Lock == [rid : Rows, authid : Tokens, expires : 0 .. MaxClock, by : 1 .. MaxXid]
Table == [made : BOOLEAN, rows : SUBSET [transid : 1 .. MaxXid, lockcode : Tokens]]
Reading == [lock : Lock, ver : 0 .. MaxXid, reader : 1 .. MaxXid]
Version == [ver : 0 .. MaxXid, tokens : SUBSET Tokens]
Object == Rows \cup {"locks"}

\* What a savepoint keeps
Point == [ins : SUBSET Lock, del : SUBSET Lock, wrote : SUBSET Rows, seen : SUBSET Reading,
          temp : Table]

Transaction ==
  [xid : 1 .. MaxXid, ids : SUBSET (1 .. MaxXid), sub : 0 .. MaxXid, saved : SUBSET Point,
   now : 0 .. MaxClock, start : Nat, locks : SUBSET Lock, row : [Rows -> Version],
   temp : Table, temps : SUBSET Sessions, ins : SUBSET Lock, del : SUBSET Lock,
   wrote : SUBSET Rows, reads : SUBSET Object, seen : SUBSET Reading]

Ended == [start : Nat, commit : Nat, reads : SUBSET Object, writes : SUBSET Object]

Types ==
  /\ clock \in 0 .. MaxClock /\ xid \in 0 .. MaxXid
  /\ locks \in SUBSET Lock
  /\ row \in [Rows -> Version]
  /\ temp \in [Sessions -> Table]
  /\ enabled \in BOOLEAN /\ guarded \in BOOLEAN
  /\ tx \in [Sessions -> Transaction \cup {Idle}]
  /\ done \in SUBSET Ended /\ IsFiniteSet(done)
  /\ fetched \in SUBSET Reading

\* What session s has made of its transaction so far, and what it can go back to
Now(s) == [ins |-> tx[s].ins, del |-> tx[s].del, wrote |-> tx[s].wrote, seen |-> tx[s].seen,
           temp |-> temp[s]]
Points(s) == {Now(s)} \cup tx[s].saved

\* The locks a transaction leaves if it ends at point p
After(t, p) == (t.locks \ p.del) \cup p.ins

OneToken(L, now) ==
  \A k, l \in L : k.rid = l.rid /\ Live(k, now) /\ Live(l, now) => k.authid = l.authid

\* What changed locks has read them, and left one token
PointOK(t, p) ==
  /\ p.ins # {} \/ p.del # {} => "locks" \in t.reads
  /\ OneToken(After(t, p), t.now)

PointsOK == \A s \in Sessions : Open(s) => \A p \in Points(s) : PointOK(tx[s], p)

\* Commits are counted while a transaction is open
DoneOK ==
  /\ \A d \in done : /\ d.start < d.commit /\ d.commit <= Cardinality(done)
                     /\ "locks" \in d.writes => "locks" \in d.reads
  /\ \A s \in Sessions : Open(s) => tx[s].start <= Cardinality(done)

\* A transaction sees the locks there are, or another has changed them beside it
SnapshotsOK ==
  \A s \in Sessions : Open(s) =>
    /\ tx[s].now <= clock
    /\ tx[s].locks = locks \/ \E d \in done : "locks" \in d.writes /\ tx[s].start < d.commit

\* No lock and no trigger without the tables, nor in a transaction
TablesOK ==
  ~enabled => /\ locks = {} /\ ~guarded
              /\ \A s \in Sessions : Open(s) => \A p \in Points(s) : p.ins = {}

LockInv == Types /\ PointsOK /\ DoneOK /\ SnapshotsOK /\ TablesOK /\ OneHolder
-----------------------------------------------------------------------------
(* Statements within a transaction.                                        *)

\* s goes on in its transaction: what it has read and its ids remain, and of what it can go
\* back to at most the present point is new
GoesOn(s) ==
  /\ Open(s) /\ Open(s)'
  /\ \A o \in Sessions \ {s} : tx'[o] = tx[o] /\ temp'[o] = temp[o]
  /\ tx'[s].xid = tx[s].xid /\ tx'[s].now = tx[s].now /\ tx'[s].start = tx[s].start
  /\ tx'[s].locks = tx[s].locks /\ tx'[s].row = tx[s].row
  /\ tx[s].reads \subseteq tx'[s].reads /\ tx[s].ids \subseteq tx'[s].ids
  /\ Points(s)' \subseteq Points(s) \cup {Now(s)'}
  /\ UNCHANGED <<clock, locks, row, enabled, guarded, done, fetched>>

\* The present point is one of those before
Rewinds(s) == Now(s)' \in Points(s)

\* A function is changed at one place
LEMMA AtOne ==
  ASSUME NEW S, NEW V, NEW f \in [S -> V], NEW s \in S, NEW v \in V, NEW g,
         g = [f EXCEPT ![s] = v]
  PROVE  g \in [S -> V] /\ g[s] = v /\ \A o \in S \ {s} : g[o] = f[o]
OBVIOUS

\* The transaction of an open session, and its present point, are of their types
LEMMA OpenTypes ==
  ASSUME Types, NEW s \in Sessions, Open(s)
  PROVE  /\ tx \in [Sessions -> Transaction \cup {Idle}] /\ tx[s] \in Transaction
         /\ temp \in [Sessions -> Table] /\ temp[s] \in Table
         /\ Now(s) \in Point /\ Points(s) \subseteq Point
<1>1. /\ tx \in [Sessions -> Transaction \cup {Idle}] /\ tx[s] \in Transaction
      /\ temp \in [Sessions -> Table] /\ temp[s] \in Table
  BY DEF Types, Open, Idle
<1>2. /\ tx[s].ins \in SUBSET Lock /\ tx[s].del \in SUBSET Lock /\ tx[s].wrote \in SUBSET Rows
      /\ tx[s].seen \in SUBSET Reading /\ tx[s].saved \in SUBSET Point
  BY <1>1 DEF Transaction
<1>3. Now(s) \in Point
  BY <1>1, <1>2 DEF Now, Point
<1>4. QED
  BY <1>1, <1>2, <1>3 DEF Points

\* What a statement makes of the transaction is of its type, and the rest stays
LEMMA StatementTypes ==
  ASSUME Types, NEW s \in Sessions, NEW t \in Transaction, Statement(s, t),
         temp' \in [Sessions -> Table]
  PROVE  Types' /\ tx'[s] = t /\ \A o \in Sessions \ {s} : tx'[o] = tx[o]
<1>1. tx \in [Sessions -> Transaction \cup {Idle}] /\ tx' = [tx EXCEPT ![s] = t]
  BY DEF Types, Statement
<1>2. /\ tx' \in [Sessions -> Transaction \cup {Idle}] /\ tx'[s] = t
      /\ \A o \in Sessions \ {s} : tx'[o] = tx[o]
  BY <1>1, AtOne
<1>3. QED
  BY <1>2 DEF Types, Statement

\* A savepoint takes a new id for what follows it
LEMMA SavepointGoesOn ==
  ASSUME Types, NEW s \in Sessions, Savepoint(s)
  PROVE  /\ Types' /\ GoesOn(s) /\ Rewinds(s) /\ xid' = xid + 1 /\ tx'[s].sub = xid + 1
         /\ tx'[s].sub \in tx'[s].ids
<1>1. Open(s) /\ tx \in [Sessions -> Transaction \cup {Idle}] /\ tx[s] \in Transaction
      /\ Now(s) \in Point /\ xid + 1 \in 1 .. MaxXid /\ xid + 1 \in 0 .. MaxXid
  BY OpenTypes, TimeBounds DEF Savepoint, Types
<1> DEFINE t == [tx[s] EXCEPT !.sub = xid + 1, !.ids = @ \cup {xid + 1}, !.saved = {Now(s)}]
<1>2. /\ tx' = [tx EXCEPT ![s] = t]
      /\ xid' = xid + 1
      /\ UNCHANGED <<clock, locks, row, temp, enabled, guarded, done, fetched>>
  <2>1. tx' = [tx EXCEPT ![s].sub = xid + 1, ![s].ids = @ \cup {xid + 1}, ![s].saved = {Now(s)}]
    BY DEF Savepoint, Now
  <2>2. QED
    BY <1>1, <2>1 DEF Savepoint
<1>3. /\ t \in Transaction
      /\ t.xid = tx[s].xid /\ t.ids = tx[s].ids \cup {xid + 1} /\ t.sub = xid + 1
      /\ t.saved = {Now(s)} /\ t.now = tx[s].now /\ t.start = tx[s].start
      /\ t.locks = tx[s].locks /\ t.row = tx[s].row /\ t.ins = tx[s].ins /\ t.del = tx[s].del
      /\ t.wrote = tx[s].wrote /\ t.reads = tx[s].reads /\ t.seen = tx[s].seen
  BY <1>1 DEF Transaction
<1> HIDE DEF t
<1>4. tx' \in [Sessions -> Transaction \cup {Idle}] /\ tx'[s] = t
      /\ \A o \in Sessions \ {s} : tx'[o] = tx[o]
  BY <1>1, <1>2, <1>3, AtOne
<1>5. Types'
  BY <1>1, <1>2, <1>4 DEF Types
<1>6. Now(s)' = Now(s)
  BY <1>2, <1>3, <1>4 DEF Now
<1>7. Points(s)' \subseteq Points(s) /\ Rewinds(s)
  BY <1>3, <1>4, <1>6 DEF Points, Rewinds
<1>8. QED
  BY <1>1, <1>2, <1>3, <1>4, <1>5, <1>7 DEF GoesOn, Open

\* A savepoint that is released leaves its work to the transaction
LEMMA ReleaseGoesOn ==
  ASSUME Types, NEW s \in Sessions, ReleaseSavepoint(s)
  PROVE  Types' /\ GoesOn(s) /\ Rewinds(s) /\ xid' = xid /\ tx'[s].sub = 0
<1>1. Open(s) /\ tx \in [Sessions -> Transaction \cup {Idle}] /\ tx[s] \in Transaction
      /\ 0 \in 0 .. MaxXid
  BY OpenTypes, TimeBounds DEF ReleaseSavepoint
<1> DEFINE t == [tx[s] EXCEPT !.sub = 0, !.saved = {}]
<1>2. /\ tx' = [tx EXCEPT ![s] = t]
      /\ UNCHANGED <<clock, xid, locks, row, temp, enabled, guarded, done, fetched>>
  <2>1. tx' = [tx EXCEPT ![s].sub = 0, ![s].saved = {}]
    BY DEF ReleaseSavepoint
  <2>2. QED
    BY <1>1, <2>1 DEF ReleaseSavepoint
<1>3. /\ t \in Transaction
      /\ t.xid = tx[s].xid /\ t.ids = tx[s].ids /\ t.sub = 0
      /\ t.saved = {} /\ t.now = tx[s].now /\ t.start = tx[s].start
      /\ t.locks = tx[s].locks /\ t.row = tx[s].row /\ t.ins = tx[s].ins /\ t.del = tx[s].del
      /\ t.wrote = tx[s].wrote /\ t.reads = tx[s].reads /\ t.seen = tx[s].seen
  BY <1>1 DEF Transaction
<1> HIDE DEF t
<1>4. tx' \in [Sessions -> Transaction \cup {Idle}] /\ tx'[s] = t
      /\ \A o \in Sessions \ {s} : tx'[o] = tx[o]
  BY <1>1, <1>2, <1>3, AtOne
<1>5. Types'
  BY <1>1, <1>2, <1>4 DEF Types
<1>6. Now(s)' = Now(s)
  BY <1>2, <1>3, <1>4 DEF Now
<1>7. Points(s)' \subseteq Points(s) /\ Rewinds(s)
  BY <1>3, <1>4, <1>6 DEF Points, Rewinds
<1>8. QED
  BY <1>1, <1>2, <1>3, <1>4, <1>5, <1>7 DEF GoesOn, Open

\* What is rolled back to a savepoint leaves the work that was there before it
LEMMA RollbackToGoesOn ==
  ASSUME Types, NEW s \in Sessions, RollbackToSavepoint(s)
  PROVE  Types' /\ GoesOn(s) /\ Rewinds(s) /\ xid' = xid /\ tx'[s].sub = 0
<1>1. Open(s) /\ tx \in [Sessions -> Transaction \cup {Idle}] /\ tx[s] \in Transaction
      /\ temp \in [Sessions -> Table] /\ Points(s) \subseteq Point /\ 0 \in 0 .. MaxXid
  BY OpenTypes, TimeBounds DEF RollbackToSavepoint
<1>2. PICK p \in tx[s].saved :
        /\ tx' = [tx EXCEPT ![s].sub = 0, ![s].saved = {}, ![s].ins = p.ins, ![s].del = p.del,
                             ![s].wrote = p.wrote, ![s].seen = p.seen]
        /\ temp' = [temp EXCEPT ![s] = p.temp]
  BY DEF RollbackToSavepoint
<1>3. UNCHANGED <<clock, xid, locks, row, enabled, guarded, done, fetched>>
  BY DEF RollbackToSavepoint
<1>4. /\ p \in Points(s) /\ p \in Point
      /\ p.ins \in SUBSET Lock /\ p.del \in SUBSET Lock /\ p.wrote \in SUBSET Rows
      /\ p.seen \in SUBSET Reading /\ p.temp \in Table
  BY <1>1 DEF Points, Point
<1> DEFINE t1 == [tx[s] EXCEPT !.sub = 0, !.saved = {}]
           t2 == [t1 EXCEPT !.ins = p.ins, !.del = p.del]
           t3 == [t2 EXCEPT !.wrote = p.wrote, !.seen = p.seen]
<1>5. tx' = [tx EXCEPT ![s] = t3]
  BY <1>1, <1>2
<1>6. /\ t1 \in Transaction
      /\ t1.xid = tx[s].xid /\ t1.ids = tx[s].ids /\ t1.sub = 0
      /\ t1.saved = {} /\ t1.now = tx[s].now /\ t1.start = tx[s].start
      /\ t1.locks = tx[s].locks /\ t1.row = tx[s].row /\ t1.reads = tx[s].reads
  BY <1>1 DEF Transaction
<1> HIDE DEF t1
<1>7. /\ t2 \in Transaction
      /\ t2.xid = t1.xid /\ t2.ids = t1.ids /\ t2.sub = t1.sub
      /\ t2.saved = t1.saved /\ t2.now = t1.now /\ t2.start = t1.start
      /\ t2.locks = t1.locks /\ t2.row = t1.row /\ t2.reads = t1.reads
      /\ t2.ins = p.ins /\ t2.del = p.del
  BY <1>4, <1>6 DEF Transaction
<1> HIDE DEF t2
<1>8. /\ t3 \in Transaction
      /\ t3.xid = t2.xid /\ t3.ids = t2.ids /\ t3.sub = t2.sub
      /\ t3.saved = t2.saved /\ t3.now = t2.now /\ t3.start = t2.start
      /\ t3.locks = t2.locks /\ t3.row = t2.row /\ t3.reads = t2.reads
      /\ t3.ins = t2.ins /\ t3.del = t2.del /\ t3.wrote = p.wrote /\ t3.seen = p.seen
  BY <1>4, <1>7 DEF Transaction
<1> HIDE DEF t3
<1>9. tx' \in [Sessions -> Transaction \cup {Idle}] /\ tx'[s] = t3
      /\ \A o \in Sessions \ {s} : tx'[o] = tx[o]
  BY <1>1, <1>5, <1>8, AtOne
<1>10. temp' \in [Sessions -> Table] /\ temp'[s] = p.temp
       /\ \A o \in Sessions \ {s} : temp'[o] = temp[o]
  BY <1>1, <1>2, <1>4, AtOne
<1>11. Types'
  BY <1>3, <1>9, <1>10 DEF Types
<1>12. Now(s)' = p
  BY <1>4, <1>7, <1>8, <1>9, <1>10 DEF Now, Point
<1>13. Points(s)' \subseteq Points(s) /\ Rewinds(s)
  BY <1>4, <1>6, <1>7, <1>8, <1>9, <1>12 DEF Points, Rewinds
<1>14. QED
  BY <1>1, <1>3, <1>6, <1>7, <1>8, <1>9, <1>10, <1>11, <1>13 DEF GoesOn, Open
\* t goes on from the transaction of s, without a savepoint
Continues(s, t) ==
  /\ t.xid = tx[s].xid /\ t.ids = tx[s].ids /\ t.sub = tx[s].sub /\ t.saved = tx[s].saved
  /\ t.now = tx[s].now /\ t.start = tx[s].start /\ t.locks = tx[s].locks /\ t.row = tx[s].row
  /\ tx[s].reads \subseteq t.reads

\* A statement changes the work of its own session only
LEMMA StatementGoesOn ==
  ASSUME Types, NEW s \in Sessions, Open(s), NEW t \in Transaction, Continues(s, t),
         Statement(s, t), temp' \in [Sessions -> Table],
         \A o \in Sessions \ {s} : temp'[o] = temp[o]
  PROVE  /\ Types' /\ GoesOn(s) /\ tx'[s] = t /\ xid' = xid
         /\ Now(s)' = [ins |-> t.ins, del |-> t.del, wrote |-> t.wrote, seen |-> t.seen,
                       temp |-> temp'[s]]
<1>1. Types' /\ tx'[s] = t /\ \A o \in Sessions \ {s} : tx'[o] = tx[o]
  BY StatementTypes
<1>2. Now(s)' = [ins |-> t.ins, del |-> t.del, wrote |-> t.wrote, seen |-> t.seen,
                 temp |-> temp'[s]]
  BY <1>1 DEF Now
<1>3. Points(s)' \subseteq Points(s) \cup {Now(s)'}
  BY <1>1 DEF Points, Continues
<1>4. UNCHANGED <<clock, xid, locks, row, enabled, guarded, done, fetched>>
  BY DEF Statement
<1>5. QED
  BY <1>1, <1>2, <1>3, <1>4 DEF GoesOn, Continues, Open

\* What LockRow and UnlockRows do to a transaction before they insert
LEMMA DeletedFields ==
  ASSUME Types, NEW s \in Sessions, Open(s), NEW D \in SUBSET LocksSeen(s)
  PROVE  LET t == [tx[s] EXCEPT !.del = @ \cup (D \ tx[s].ins), !.ins = @ \ D,
                                !.reads = @ \cup {"locks"}]
         IN  /\ t \in Transaction /\ Continues(s, t)
             /\ t.del = tx[s].del \cup (D \ tx[s].ins) /\ t.ins = tx[s].ins \ D
             /\ t.reads = tx[s].reads \cup {"locks"}
             /\ t.wrote = tx[s].wrote /\ t.seen = tx[s].seen
             /\ (Serializable => D \ tx[s].ins \subseteq tx[s].locks)
<1>1. tx[s] \in Transaction
  BY OpenTypes
<1>2. tx[s].locks \in SUBSET Lock /\ locks \in SUBSET Lock
  BY <1>1 DEF Transaction, Types
<1>3. /\ D \ tx[s].ins \in SUBSET Lock
      /\ (Serializable => D \ tx[s].ins \subseteq tx[s].locks)
  BY <1>2 DEF LocksSeen
<1>4. QED
  BY <1>1, <1>3 DEF Transaction, Continues, Object

\* One more lock
LEMMA InsertedFields ==
  ASSUME NEW t \in Transaction, NEW l \in Lock
  PROVE  LET u == [t EXCEPT !.ins = @ \cup {l}]
         IN  /\ u \in Transaction
             /\ u.xid = t.xid /\ u.ids = t.ids /\ u.sub = t.sub /\ u.saved = t.saved
             /\ u.now = t.now /\ u.start = t.start /\ u.locks = t.locks /\ u.row = t.row
             /\ u.ins = t.ins \cup {l} /\ u.del = t.del
             /\ u.wrote = t.wrote /\ u.reads = t.reads /\ u.seen = t.seen
BY DEF Transaction

\* LockRow fails, or deletes the expired locks and takes the row if nobody holds it
LEMMA LockRowCases ==
  ASSUME Types, NEW s \in Sessions, NEW r \in Rows, NEW a \in Tokens,
         NEW expires \in clock .. MaxClock, LockRow(s, r, a, expires)
  PROVE  \/ Open(s) /\ Abort(s)
         \/ /\ Types' /\ GoesOn(s) /\ xid' = xid /\ enabled
            /\ tx'[s].ids = tx[s].ids /\ tx'[s].sub = tx[s].sub
            /\ \E D \in SUBSET LocksSeen(s), I \in SUBSET Lock :
                 /\ \A l \in I : l.rid = r /\ l.by = tx[s].xid
                 /\ \A k, l \in I : k = l
                 /\ I # {} => HeldOn(s, r) = {}
                 /\ tx'[s].reads = tx[s].reads \cup {"locks"}
                 /\ Now(s)' = [ins |-> (tx[s].ins \ D) \cup I, del |-> tx[s].del \cup (D \ tx[s].ins),
                               wrote |-> tx[s].wrote, seen |-> tx[s].seen, temp |-> temp[s]]
                 /\ (Serializable => D \ tx[s].ins \subseteq tx[s].locks)
<1> DEFINE D == {l \in LocksSeen(s) : ~Live(l, tx[s].now)}
           t == [tx[s] EXCEPT !.del = @ \cup (D \ tx[s].ins), !.ins = @ \ D,
                              !.reads = @ \cup {"locks"}]
           new == [rid |-> r, authid |-> a, expires |-> expires, by |-> tx[s].xid]
           u == [t EXCEPT !.ins = @ \cup {new}]
           free == HeldOn(s, r) = {}
           Taken(X, I) ==
             /\ \A l \in I : l.rid = r /\ l.by = tx[s].xid
             /\ \A k, l \in I : k = l
             /\ I # {} => HeldOn(s, r) = {}
             /\ tx'[s].reads = tx[s].reads \cup {"locks"}
             /\ Now(s)' = [ins |-> (tx[s].ins \ X) \cup I, del |-> tx[s].del \cup (X \ tx[s].ins),
                           wrote |-> tx[s].wrote, seen |-> tx[s].seen, temp |-> temp[s]]
             /\ (Serializable => X \ tx[s].ins \subseteq tx[s].locks)
<1>1. /\ Open(s)
      /\ \/ Abort(s)
         \/ enabled /\ Statement(s, IF ~free THEN t ELSE u) /\ UNCHANGED temp
  BY DEF LockRow, DeleteLocks
<1>2. tx[s] \in Transaction /\ temp \in [Sessions -> Table]
  BY <1>1, OpenTypes
<1>3. D \in SUBSET LocksSeen(s)
  OBVIOUS
<1>4. new \in Lock
  BY <1>2, TimeBounds DEF Lock, Transaction, Types
<1> HIDE DEF D, new
<1>5. /\ t \in Transaction /\ Continues(s, t)
      /\ t.del = tx[s].del \cup (D \ tx[s].ins) /\ t.ins = tx[s].ins \ D
      /\ t.reads = tx[s].reads \cup {"locks"}
      /\ t.wrote = tx[s].wrote /\ t.seen = tx[s].seen
      /\ (Serializable => D \ tx[s].ins \subseteq tx[s].locks)
  BY <1>1, <1>3, DeletedFields
<1> HIDE DEF t
<1>6. /\ u \in Transaction /\ Continues(s, u)
      /\ u.del = t.del /\ u.ins = t.ins \cup {new} /\ u.reads = t.reads
      /\ u.wrote = t.wrote /\ u.seen = t.seen
  BY <1>4, <1>5, InsertedFields DEF Continues
<1> HIDE DEF u
<1>7. CASE Abort(s)
  BY <1>1, <1>7
<1>8. CASE enabled /\ Statement(s, t) /\ UNCHANGED temp
  <2>1. /\ Types' /\ GoesOn(s) /\ tx'[s] = t /\ xid' = xid
        /\ Now(s)' = [ins |-> t.ins, del |-> t.del, wrote |-> t.wrote, seen |-> t.seen,
                      temp |-> temp[s]]
    BY <1>1, <1>2, <1>5, <1>8, StatementGoesOn
  <2>2. Taken(D, {})
    <3>1. t.ins = (tx[s].ins \ D) \cup {}
      BY <1>5
    <3>2. QED
      BY <1>5, <2>1, <3>1
  <2>3. {} \in SUBSET Lock
    OBVIOUS
  <2> HIDE DEF Taken
  <2>4. \E I \in SUBSET Lock : Taken(D, I)
    BY <2>2, <2>3
  <2>5. QED
    BY <1>3, <1>5, <1>8, <2>1, <2>4 DEF Continues, Taken
<1>9. CASE enabled /\ free /\ Statement(s, u) /\ UNCHANGED temp
  <2>1. /\ Types' /\ GoesOn(s) /\ tx'[s] = u /\ xid' = xid
        /\ Now(s)' = [ins |-> u.ins, del |-> u.del, wrote |-> u.wrote, seen |-> u.seen,
                      temp |-> temp[s]]
    BY <1>1, <1>2, <1>6, <1>9, StatementGoesOn
  <2>2. u.ins = (tx[s].ins \ D) \cup {new}
    BY <1>5, <1>6
  <2>3. new.rid = r /\ new.by = tx[s].xid /\ {new} \in SUBSET Lock
    BY <1>4 DEF new
  <2>4. Taken(D, {new})
    BY <1>5, <1>6, <1>9, <2>1, <2>2, <2>3
  <2> HIDE DEF Taken
  <2>5. \E I \in SUBSET Lock : Taken(D, I)
    BY <2>3, <2>4
  <2>6. QED
    BY <1>3, <1>5, <1>6, <1>9, <2>1, <2>5 DEF Continues, Taken
<1>10. QED
  BY <1>1, <1>7, <1>8, <1>9

\* UnlockRows fails, or deletes the locks of a token
LEMMA UnlockRowsCases ==
  ASSUME Types, NEW s \in Sessions, NEW a \in Tokens, UnlockRows(s, a)
  PROVE  \/ Open(s) /\ Abort(s)
         \/ /\ Types' /\ GoesOn(s) /\ xid' = xid /\ enabled
            /\ tx'[s].ids = tx[s].ids /\ tx'[s].sub = tx[s].sub
            /\ \E D \in SUBSET LocksSeen(s) :
                 /\ tx'[s].reads = tx[s].reads \cup {"locks"}
                 /\ Now(s)' = [ins |-> tx[s].ins \ D, del |-> tx[s].del \cup (D \ tx[s].ins),
                               wrote |-> tx[s].wrote, seen |-> tx[s].seen, temp |-> temp[s]]
                 /\ (Serializable => D \ tx[s].ins \subseteq tx[s].locks)
<1> DEFINE D == {l \in LocksSeen(s) : l.authid = a}
           t == [tx[s] EXCEPT !.del = @ \cup (D \ tx[s].ins), !.ins = @ \ D,
                              !.reads = @ \cup {"locks"}]
<1>1. /\ Open(s)
      /\ Abort(s) \/ (enabled /\ Statement(s, t) /\ UNCHANGED temp)
  BY DEF UnlockRows, DeleteLocks
<1>2. tx[s] \in Transaction /\ temp \in [Sessions -> Table]
  BY <1>1, OpenTypes
<1>3. D \in SUBSET LocksSeen(s)
  OBVIOUS
<1> HIDE DEF D
<1>4. /\ t \in Transaction /\ Continues(s, t)
      /\ t.del = tx[s].del \cup (D \ tx[s].ins) /\ t.ins = tx[s].ins \ D
      /\ t.reads = tx[s].reads \cup {"locks"}
      /\ t.wrote = tx[s].wrote /\ t.seen = tx[s].seen
      /\ (Serializable => D \ tx[s].ins \subseteq tx[s].locks)
  BY <1>1, <1>3, DeletedFields
<1> HIDE DEF t
<1>5. CASE enabled /\ Statement(s, t) /\ UNCHANGED temp
  <2>1. /\ Types' /\ GoesOn(s) /\ tx'[s] = t /\ xid' = xid
        /\ Now(s)' = [ins |-> t.ins, del |-> t.del, wrote |-> t.wrote, seen |-> t.seen,
                      temp |-> temp[s]]
    BY <1>1, <1>2, <1>4, <1>5, StatementGoesOn
  <2>2. QED
    BY <1>3, <1>4, <1>5, <2>1 DEF Continues
<1>6. QED
  BY <1>1, <1>5

\* AddAuth fails, or adds the token to the temporary table of its session
LEMMA AddAuthCases ==
  ASSUME Types, NEW s \in Sessions, NEW a \in Tokens, AddAuth(s, a), CurrentXid(s) \in 1 .. MaxXid
  PROVE  \/ Open(s) /\ Abort(s)
         \/ /\ Types' /\ GoesOn(s) /\ xid' = xid /\ tx'[s] = tx[s]
            /\ temp[s].rows \subseteq temp'[s].rows
            /\ Now(s)' = [Now(s) EXCEPT !.temp = temp'[s]]
<1> DEFINE entry == [transid |-> CurrentXid(s), lockcode |-> a]
           table == [made |-> TRUE, rows |-> temp[s].rows \cup {entry}]
<1>1. /\ Open(s)
      /\ \/ Abort(s)
         \/ Statement(s, tx[s]) /\ temp' = [temp EXCEPT ![s] = table]
  BY DEF AddAuth
<1>2. tx[s] \in Transaction /\ temp \in [Sessions -> Table] /\ temp[s] \in Table /\ Now(s) \in Point
  BY <1>1, OpenTypes
<1>3. table \in Table /\ temp[s].rows \subseteq table.rows
  BY <1>2 DEF Table
<1> HIDE DEF table
<1>4. CASE Statement(s, tx[s]) /\ temp' = [temp EXCEPT ![s] = table]
  <2>1. /\ temp' \in [Sessions -> Table] /\ temp'[s] = table
        /\ \A o \in Sessions \ {s} : temp'[o] = temp[o]
    BY <1>2, <1>3, <1>4, AtOne
  <2>2. Continues(s, tx[s])
    BY DEF Continues
  <2>3. /\ Types' /\ GoesOn(s) /\ tx'[s] = tx[s] /\ xid' = xid
        /\ Now(s)' = [ins |-> tx[s].ins, del |-> tx[s].del, wrote |-> tx[s].wrote,
                      seen |-> tx[s].seen, temp |-> temp'[s]]
    BY <1>1, <1>2, <1>4, <2>1, <2>2, StatementGoesOn
  <2>4. Now(s)' = [Now(s) EXCEPT !.temp = temp'[s]]
    BY <2>3 DEF Now
  <2>5. QED
    BY <1>3, <2>1, <2>3, <2>4
<1>5. QED
  BY <1>1, <1>4

\* Change fails, or changes the row under the tokens of the transaction
LEMMA ChangeCases ==
  ASSUME Types, NEW s \in Sessions, NEW r \in Rows, Change(s, r)
  PROVE  \/ Open(s) /\ Abort(s)
         \/ /\ Types' /\ GoesOn(s) /\ xid' = xid
            /\ tx'[s].ids = tx[s].ids /\ tx'[s].sub = tx[s].sub
            /\ guarded => TRUE \in Authorized(s, r) /\ "locks" \in tx'[s].reads
            /\ Now(s)' = [ins |-> tx[s].ins, del |-> tx[s].del, wrote |-> tx[s].wrote \cup {r},
                          seen |-> tx[s].seen, temp |-> temp[s]]
<1> DEFINE R == {r} \cup (IF guarded THEN {"locks"} ELSE {})
           t == [tx[s] EXCEPT !.wrote = @ \cup {r}, !.reads = @ \cup R]
           t0 == [tx[s] EXCEPT !.wrote = @ \cup {r},
                               !.reads = @ \cup {r} \cup (IF guarded THEN {"locks"} ELSE {})]
<1>1. /\ Open(s)
      /\ \/ Abort(s)
         \/ (guarded => TRUE \in Authorized(s, r)) /\ Statement(s, t0) /\ UNCHANGED temp
  BY DEF Change
<1>2. tx[s] \in Transaction /\ temp \in [Sessions -> Table]
  BY <1>1, OpenTypes
<1>3. t0 = t
  <2>1. \A A : A \cup {r} \cup (IF guarded THEN {"locks"} ELSE {}) = A \cup R
    OBVIOUS
  <2> HIDE DEF R
  <2>2. QED
    BY <2>1
<1>4. R \in SUBSET Object /\ (guarded => "locks" \in R)
  BY DEF Object
<1> HIDE DEF R, t0
<1>5. /\ t \in Transaction /\ Continues(s, t)
      /\ t.wrote = tx[s].wrote \cup {r} /\ t.reads = tx[s].reads \cup R
      /\ t.ins = tx[s].ins /\ t.del = tx[s].del /\ t.seen = tx[s].seen
  BY <1>2, <1>4 DEF Transaction, Continues
<1> HIDE DEF t
<1>6. CASE (guarded => TRUE \in Authorized(s, r)) /\ Statement(s, t0) /\ UNCHANGED temp
  <2>1. /\ Types' /\ GoesOn(s) /\ tx'[s] = t /\ xid' = xid
        /\ Now(s)' = [ins |-> t.ins, del |-> t.del, wrote |-> t.wrote, seen |-> t.seen,
                      temp |-> temp[s]]
    BY <1>1, <1>2, <1>3, <1>5, <1>6, StatementGoesOn
  <2>2. QED
    BY <1>4, <1>5, <1>6, <2>1 DEF Continues
<1>7. QED
  BY <1>1, <1>6

\* Fetch reads the row under a lock in force
LEMMA FetchCases ==
  ASSUME Types, NEW s \in Sessions, NEW r \in Rows, Fetch(s, r)
  PROVE  /\ Types' /\ GoesOn(s) /\ xid' = xid /\ guarded
         /\ tx'[s].ids = tx[s].ids /\ tx'[s].sub = tx[s].sub /\ r \in tx'[s].reads
         /\ \E l \in HeldOn(s, r) :
              Now(s)' = [ins |-> tx[s].ins, del |-> tx[s].del, wrote |-> tx[s].wrote,
                         seen |-> tx[s].seen \cup {[lock |-> l, ver |-> VersionSeen(s, r),
                                                    reader |-> tx[s].xid]},
                         temp |-> temp[s]]
<1>1. Open(s) /\ guarded /\ UNCHANGED temp
  BY DEF Fetch
<1>2. tx[s] \in Transaction /\ temp \in [Sessions -> Table]
  BY <1>1, OpenTypes
<1>3. PICK l \in HeldOn(s, r) :
        Statement(s, [tx[s] EXCEPT !.reads = @ \cup {r},
                                   !.seen = @ \cup {[lock |-> l, ver |-> VersionSeen(s, r),
                                                     reader |-> tx[s].xid]}])
  BY DEF Fetch
<1> DEFINE f == [lock |-> l, ver |-> VersionSeen(s, r), reader |-> tx[s].xid]
           t == [tx[s] EXCEPT !.reads = @ \cup {r}, !.seen = @ \cup {f}]
<1>4. f \in Reading
  <2>1. l \in Lock
    BY <1>2, <1>3 DEF HeldOn, LocksSeen, Transaction, Types
  <2>2. VersionSeen(s, r) \in 0 .. MaxXid /\ tx[s].xid \in 1 .. MaxXid
    <3>1. tx[s].xid \in 1 .. MaxXid /\ tx[s].row \in [Rows -> Version] /\ row \in [Rows -> Version]
      BY <1>2 DEF Transaction, Types
    <3>2. tx[s].row[r].ver \in 0 .. MaxXid /\ row[r].ver \in 0 .. MaxXid
      BY <3>1 DEF Version
    <3>3. QED
      BY <3>1, <3>2, TimeBounds DEF VersionSeen
  <2>3. QED
    BY <2>1, <2>2 DEF Reading
<1> HIDE DEF f
<1>5. /\ t \in Transaction /\ Continues(s, t)
      /\ t.wrote = tx[s].wrote /\ t.reads = tx[s].reads \cup {r}
      /\ t.ins = tx[s].ins /\ t.del = tx[s].del /\ t.seen = tx[s].seen \cup {f}
  BY <1>2, <1>4 DEF Transaction, Continues, Object
<1>6. Statement(s, t)
  BY <1>3 DEF f
<1> HIDE DEF t
<1>7. /\ Types' /\ GoesOn(s) /\ tx'[s] = t /\ xid' = xid
      /\ Now(s)' = [ins |-> t.ins, del |-> t.del, wrote |-> t.wrote, seen |-> t.seen,
                    temp |-> temp[s]]
  BY <1>1, <1>2, <1>5, <1>6, StatementGoesOn
<1>8. QED
  BY <1>1, <1>5, <1>7 DEF Continues, f
-----------------------------------------------------------------------------
(* The invariant.                                                          *)

\* What stays of a session that another leaves alone
LEMMA Untouched ==
  ASSUME NEW o, tx'[o] = tx[o], temp'[o] = temp[o]
  PROVE  (Open(o)' <=> Open(o)) /\ Now(o)' = Now(o) /\ Points(o)' = Points(o)
BY DEF Open, Now, Points

\* Within a transaction only the present point is to be looked at
LEMMA GoesOnKeeps ==
  ASSUME LockInv, NEW s \in Sessions, GoesOn(s), Types',
         PointOK(tx'[s], Now(s)'), ~enabled => Now(s)'.ins = {}
  PROVE  LockInv'
<1>1. /\ \A o \in Sessions \ {s} : /\ tx'[o] = tx[o] /\ (Open(o)' <=> Open(o))
                                   /\ Points(o)' = Points(o)
      /\ Open(s) /\ Open(s)'
  BY Untouched DEF GoesOn
<1>2. UNCHANGED <<clock, locks, row, enabled, guarded, done, fetched>>
  BY DEF GoesOn
<1>3. ASSUME NEW o \in Sessions, Open(o)', NEW p \in Points(o)'
      PROVE  PointOK(tx'[o], p) /\ (~enabled => p.ins = {})
  <2>1. CASE o # s
    BY <1>1, <1>3, <2>1 DEF LockInv, PointsOK, TablesOK
  <2>2. CASE o = s /\ p = Now(s)'
    BY <2>2
  <2>3. CASE o = s /\ p \in Points(s)
    <3>1. PointOK(tx[s], p) /\ (~enabled => p.ins = {})
      BY <1>1, <2>3 DEF LockInv, PointsOK, TablesOK
    <3>2. PointOK(tx'[s], p)
      BY <3>1 DEF PointOK, After, GoesOn
    <3>3. QED
      BY <2>3, <3>1, <3>2
  <2>4. QED
    BY <1>3, <2>1, <2>2, <2>3 DEF GoesOn
<1>4. PointsOK' /\ TablesOK'
  BY <1>2, <1>3 DEF PointsOK, TablesOK, LockInv
<1>5. \A o \in Sessions : Open(o)' => /\ Open(o) /\ tx'[o].start = tx[o].start
                                      /\ tx'[o].now = tx[o].now /\ tx'[o].locks = tx[o].locks
  BY <1>1 DEF GoesOn
<1>6. DoneOK' /\ SnapshotsOK'
  BY <1>2, <1>5 DEF DoneOK, SnapshotsOK, LockInv
<1>7. OneHolder'
  BY <1>2 DEF OneHolder, LockInv
<1>8. QED
  BY <1>4, <1>6, <1>7 DEF LockInv

\* A transaction that fails leaves no more than its session's table
LEMMA AbortFields ==
  ASSUME Types, NEW s \in Sessions, Open(s), Abort(s)
  PROVE  /\ Types' /\ ~Open(s)' /\ \A o \in Sessions \ {s} : tx'[o] = tx[o] /\ temp'[o] = temp[o]
         /\ UNCHANGED <<clock, xid, locks, row, enabled, guarded, fetched>>
         /\ done' = done \/ (done' = {} /\ \A o \in Sessions : ~Open(o)')
<1>1. /\ tx \in [Sessions -> Transaction \cup {Idle}] /\ tx[s] \in Transaction
      /\ temp \in [Sessions -> Table]
  BY OpenTypes
<1>2. tx[s].temp \in Table /\ Idle \in Transaction \cup {Idle}
  BY <1>1 DEF Transaction
<1>3. /\ tx' \in [Sessions -> Transaction \cup {Idle}] /\ tx'[s] = Idle
      /\ \A o \in Sessions \ {s} : tx'[o] = tx[o]
  <2>1. tx' = [tx EXCEPT ![s] = Idle]
    BY DEF Abort
  <2>2. QED
    BY <1>1, <1>2, <2>1, AtOne
<1>4. /\ temp' \in [Sessions -> Table] /\ \A o \in Sessions \ {s} : temp'[o] = temp[o]
  <2>1. temp' = [temp EXCEPT ![s] = tx[s].temp]
    BY DEF Abort
  <2>2. QED
    BY <1>1, <1>2, <2>1, AtOne
<1>5. ~Open(s)'
  BY <1>3 DEF Open, Idle
<1>6. done' = done \/ (done' = {} /\ \A o \in Sessions : ~Open(o)')
  <2>1. \A o \in Sessions \ {s} : Open(o)' <=> Open(o)
    BY <1>3 DEF Open
  <2>2. done' = IF Others(s) = {} THEN {} ELSE done
    BY DEF Abort, Kept
  <2>3. QED
    BY <1>5, <2>1, <2>2 DEF Others
<1>7. UNCHANGED <<clock, xid, locks, row, enabled, guarded, fetched>>
  BY DEF Abort
<1>8. done' \in SUBSET Ended /\ IsFiniteSet(done')
  BY <1>6, FS_EmptySet DEF Types
<1>9. Types'
  BY <1>3, <1>4, <1>7, <1>8 DEF Types
<1>10. QED
  BY <1>3, <1>4, <1>5, <1>6, <1>7, <1>9

\* What is rolled back leaves the locks as they were
LEMMA AbortKeeps ==
  ASSUME LockInv, NEW s \in Sessions, Open(s), Abort(s)
  PROVE  LockInv'
<1>1. /\ Types' /\ ~Open(s)' /\ \A o \in Sessions \ {s} : tx'[o] = tx[o] /\ temp'[o] = temp[o]
      /\ UNCHANGED <<clock, xid, locks, row, enabled, guarded, fetched>>
      /\ done' = done \/ (done' = {} /\ \A o \in Sessions : ~Open(o)')
  BY AbortFields DEF LockInv
<1>2. \A o \in Sessions : Open(o)' => /\ o # s /\ Open(o) /\ tx'[o] = tx[o]
                                      /\ Points(o)' = Points(o) /\ done' = done
  BY <1>1, Untouched
<1>3. PointsOK' /\ TablesOK'
  BY <1>1, <1>2 DEF PointsOK, TablesOK, LockInv
<1>4. DoneOK' /\ SnapshotsOK'
  <2>1. \A d \in done' : /\ d.start < d.commit /\ d.commit <= Cardinality(done')
                         /\ "locks" \in d.writes => "locks" \in d.reads
    BY <1>1 DEF DoneOK, LockInv
  <2>2. QED
    BY <1>1, <1>2, <2>1 DEF DoneOK, SnapshotsOK, LockInv
<1>5. OneHolder'
  BY <1>1 DEF OneHolder, LockInv
<1>6. QED
  BY <1>1, <1>3, <1>4, <1>5 DEF LockInv

\* A transaction begins with what is committed
LEMMA BeginFields ==
  ASSUME Types, NEW s \in Sessions, Begin(s)
  PROVE  /\ Types' /\ ~Open(s) /\ Open(s)' /\ xid' = xid + 1
         /\ \A o \in Sessions \ {s} : tx'[o] = tx[o] /\ temp'[o] = temp[o]
         /\ UNCHANGED <<clock, locks, row, temp, enabled, guarded, done, fetched>>
         /\ tx'[s].xid = xid + 1 /\ tx'[s].ids = {xid + 1} /\ tx'[s].sub = 0
         /\ tx'[s].now = clock /\ tx'[s].start = Cardinality(done)
         /\ tx'[s].locks = locks /\ tx'[s].row = row /\ tx'[s].reads = {}
         /\ Points(s)' = {[ins |-> {}, del |-> {}, wrote |-> {}, seen |-> {}, temp |-> temp[s]]}
<1> DEFINE t == [xid |-> xid + 1, ids |-> {xid + 1}, sub |-> 0, saved |-> {},
                 now |-> clock, start |-> Cardinality(done),
                 locks |-> locks, row |-> row, temp |-> temp[s],
                 temps |-> {o \in TempTables : Open(o) => tx[o].temp.made},
                 ins |-> {}, del |-> {}, wrote |-> {}, reads |-> {}, seen |-> {}]
<1>1. /\ ~Open(s) /\ xid' = xid + 1 /\ tx' = [tx EXCEPT ![s] = t]
      /\ UNCHANGED <<clock, locks, row, temp, enabled, guarded, done, fetched>>
      /\ xid + 1 \in 1 .. MaxXid /\ xid + 1 \in 0 .. MaxXid /\ xid + 1 # 0 /\ 0 \in 0 .. MaxXid
  BY TimeBounds DEF Begin, Types
<1>2. tx \in [Sessions -> Transaction \cup {Idle}] /\ temp \in [Sessions -> Table]
  BY DEF Types
<1>3. t \in Transaction
  <2>1. Cardinality(done) \in Nat
    BY FS_CardinalityType DEF Types
  <2>2. {o \in TempTables : Open(o) => tx[o].temp.made} \in SUBSET Sessions
    BY DEF TempTables
  <2>3. locks \in SUBSET Lock /\ row \in [Rows -> Version] /\ clock \in 0 .. MaxClock
    BY DEF Types
  <2>4. QED
    BY <1>1, <1>2, <2>1, <2>2, <2>3 DEF Transaction
<1>4. /\ tx' \in [Sessions -> Transaction \cup {Idle}] /\ tx'[s] = t
      /\ \A o \in Sessions \ {s} : tx'[o] = tx[o]
  <2> HIDE DEF t
  <2>1. QED
    BY <1>1, <1>2, <1>3, AtOne
<1>5. Types'
  BY <1>1, <1>4 DEF Types
<1>6. Open(s)'
  BY <1>1, <1>4 DEF Open
<1>7. Points(s)' = {[ins |-> {}, del |-> {}, wrote |-> {}, seen |-> {}, temp |-> temp[s]]}
  BY <1>1, <1>4 DEF Points, Now
<1>8. QED
  BY <1>1, <1>4, <1>5, <1>6, <1>7

\* A transaction begins with the locks that are committed
LEMMA BeginKeeps ==
  ASSUME LockInv, NEW s \in Sessions, Begin(s)
  PROVE  LockInv'
<1>1. /\ Types' /\ Open(s)'
      /\ \A o \in Sessions \ {s} : tx'[o] = tx[o] /\ temp'[o] = temp[o]
      /\ UNCHANGED <<clock, locks, row, temp, enabled, guarded, done, fetched>>
      /\ tx'[s].now = clock /\ tx'[s].start = Cardinality(done)
      /\ tx'[s].locks = locks
      /\ Points(s)' = {[ins |-> {}, del |-> {}, wrote |-> {}, seen |-> {}, temp |-> temp[s]]}
  BY BeginFields DEF LockInv
<1>2. \A o \in Sessions \ {s} : (Open(o)' <=> Open(o)) /\ Points(o)' = Points(o)
  BY <1>1, Untouched
<1>3. Cardinality(done) \in Nat /\ clock \in Nat
  BY FS_CardinalityType, TimeBounds DEF Types, LockInv
<1>4. ASSUME NEW p \in Points(s)' PROVE PointOK(tx'[s], p) /\ p.ins = {}
  <2>1. p.ins = {} /\ p.del = {}
    BY <1>1, <1>4
  <2>2. After(tx'[s], p) = locks
    BY <1>1, <2>1 DEF After
  <2>3. OneToken(locks, clock)
    BY DEF OneToken, OneHolder, LockInv
  <2>4. QED
    BY <1>1, <2>1, <2>2, <2>3 DEF PointOK
<1>5. PointsOK'
  BY <1>1, <1>2, <1>4 DEF PointsOK, LockInv
<1>6. TablesOK'
  BY <1>1, <1>2, <1>4 DEF TablesOK, LockInv
<1>7. DoneOK' /\ SnapshotsOK'
  BY <1>1, <1>2, <1>3 DEF DoneOK, SnapshotsOK, LockInv
<1>8. OneHolder'
  BY <1>1 DEF OneHolder, LockInv
<1>9. QED
  BY <1>1, <1>5, <1>6, <1>7, <1>8 DEF LockInv
\* What is remembered of a transaction that commits
EndedBy(s) ==
  [start |-> tx[s].start, commit |-> Cardinality(done) + 1, reads |-> tx[s].reads,
   writes |-> tx[s].wrote \cup (IF tx[s].ins # {} \/ tx[s].del # {} THEN {"locks"} ELSE {})]

Commits(s) ==
  /\ Open(s) /\ (Serializable => ~Dangerous(done \cup {EndedBy(s)}))
  /\ locks' = (locks \ tx[s].del) \cup tx[s].ins
  /\ row' = [r \in Rows |-> IF r \in tx[s].wrote
                            THEN [ver |-> tx[s].xid, tokens |-> TokensAdded(s)]
                            ELSE row[r]]
  /\ done' = done \cup {EndedBy(s)} \/ (done' = {} /\ \A o \in Sessions : ~Open(o)')
  /\ fetched' = {f \in fetched \cup tx[s].seen : f.lock \in locks'}
  /\ UNCHANGED <<clock, xid, temp, enabled, guarded>>
  /\ Types' /\ ~Open(s)' /\ \A o \in Sessions \ {s} : tx'[o] = tx[o] /\ temp'[o] = temp[o]

\* A transaction commits, or, if it is serializable, fails and leaves nothing
LEMMA CommitCases ==
  ASSUME Types, NEW s \in Sessions, Commit(s)
  PROVE  Open(s) /\ (Abort(s) \/ Commits(s))
<1>1. /\ Open(s)
      /\ \/ Abort(s)
         \/ /\ Serializable => ~Dangerous(done \cup {EndedBy(s)})
            /\ locks' = (locks \ tx[s].del) \cup tx[s].ins
            /\ row' = [r \in Rows |-> IF r \in tx[s].wrote
                                      THEN [ver |-> tx[s].xid, tokens |-> TokensAdded(s)]
                                      ELSE row[r]]
            /\ done' = Kept(s, done \cup {EndedBy(s)})
            /\ fetched' = {f \in fetched \cup tx[s].seen : f.lock \in locks'}
            /\ tx' = [tx EXCEPT ![s] = Idle]
            /\ UNCHANGED <<clock, xid, temp, enabled, guarded>>
  BY DEF Commit, EndedBy
<1>2. SUFFICES ASSUME ~Abort(s) PROVE Commits(s)
  BY <1>1
<1>3. /\ tx \in [Sessions -> Transaction \cup {Idle}] /\ tx[s] \in Transaction
      /\ temp \in [Sessions -> Table]
  BY <1>1, OpenTypes
<1>4. /\ tx[s].ins \in SUBSET Lock /\ tx[s].wrote \in SUBSET Rows /\ tx[s].seen \in SUBSET Reading
      /\ tx[s].reads \in SUBSET Object /\ tx[s].start \in Nat /\ tx[s].xid \in 0 .. MaxXid
  BY <1>3, TimeBounds DEF Transaction
<1>5. /\ tx' \in [Sessions -> Transaction \cup {Idle}] /\ tx'[s] = Idle
      /\ \A o \in Sessions \ {s} : tx'[o] = tx[o]
  BY <1>1, <1>2, <1>3, AtOne
<1>6. ~Open(s)' /\ \A o \in Sessions \ {s} : Open(o)' <=> Open(o)
  BY <1>5 DEF Open, Idle
<1>7. done' = done \cup {EndedBy(s)} \/ (done' = {} /\ \A o \in Sessions : ~Open(o)')
  BY <1>1, <1>2, <1>6 DEF Kept, Others
<1>8. Cardinality(done) \in Nat /\ IsFiniteSet(done \cup {EndedBy(s)})
  BY FS_CardinalityType, FS_AddElement DEF Types
<1>9. EndedBy(s) \in Ended
  BY <1>4, <1>8 DEF EndedBy, Ended, Object
<1>10. done' \in SUBSET Ended /\ IsFiniteSet(done')
  BY <1>7, <1>8, <1>9, FS_EmptySet DEF Types
<1>11. row' \in [Rows -> Version]
  <2>1. TokensAdded(s) \in SUBSET Tokens
    BY <1>3 DEF TokensAdded, Table
  <2>2. [ver |-> tx[s].xid, tokens |-> TokensAdded(s)] \in Version
    BY <1>4, <2>1 DEF Version
  <2>3. QED
    BY <1>1, <1>2, <2>2 DEF Types
<1>12. locks' \in SUBSET Lock /\ fetched' \in SUBSET Reading
  BY <1>1, <1>2, <1>4 DEF Types
<1>13. Types'
  BY <1>1, <1>2, <1>5, <1>10, <1>11, <1>12 DEF Types
<1>14. QED
  BY <1>1, <1>2, <1>5, <1>6, <1>7, <1>13 DEF Commits

\* A transaction that has changed locks is refused if another has changed them beside it
LEMMA ChangersSawAll ==
  ASSUME LockInv, Serializable, NEW s \in Sessions, Commits(s), tx[s].ins # {} \/ tx[s].del # {}
  PROVE  tx[s].locks = locks
<1> DEFINE e == EndedBy(s)
<1>1. SUFFICES ASSUME NEW d \in done, "locks" \in d.writes, tx[s].start < d.commit
               PROVE  Dangerous(done \cup {e})
  BY DEF Commits, LockInv, SnapshotsOK
<1>2. "locks" \in tx[s].reads
  <2>1. Open(s) /\ Now(s) \in Points(s) /\ Now(s).ins = tx[s].ins /\ Now(s).del = tx[s].del
    BY DEF Commits, Points, Now
  <2>2. PointOK(tx[s], Now(s))
    BY <2>1 DEF LockInv, PointsOK
  <2>3. QED
    BY <2>1, <2>2 DEF PointOK
<1>3. /\ e.start = tx[s].start /\ e.commit = Cardinality(done) + 1
      /\ "locks" \in e.reads /\ "locks" \in e.writes
  BY <1>2 DEF EndedBy
<1>4. /\ d.start \in Nat /\ d.commit \in Nat /\ Cardinality(done) \in Nat /\ tx[s].start \in Nat
      /\ d.start < d.commit /\ d.commit <= Cardinality(done) /\ "locks" \in d.reads
      /\ tx[s].start <= Cardinality(done)
  <2>1. d \in Ended /\ tx[s] \in Transaction /\ Cardinality(done) \in Nat
    BY OpenTypes, FS_CardinalityType DEF LockInv, Commits, Types
  <2>2. QED
    BY <1>1, <2>1 DEF LockInv, DoneOK, Commits, Ended, Transaction
<1> HIDE DEF e
<1>5. Depends(d, e) /\ Depends(e, d)
  BY <1>1, <1>3, <1>4 DEF Depends
<1>6. d.commit < e.commit /\ d.commit <= d.commit /\ d # e /\ e # d
  BY <1>3, <1>4
<1>7. QED
  <2>1. /\ d # e /\ e # d /\ Depends(d, e) /\ Depends(e, d)
        /\ d.commit < e.commit /\ d.commit <= d.commit
        /\ d.writes = {} => d.commit <= d.start
    BY <1>1, <1>5, <1>6
  <2>2. QED
    BY <2>1 DEF Dangerous

\* Commits are numbered in their order
LEMMA CommitCounts ==
  ASSUME LockInv, NEW s \in Sessions, Commits(s)
  PROVE  /\ Cardinality(done) \in Nat /\ tx[s].start \in Nat /\ tx[s].start <= Cardinality(done)
         /\ \A d \in done : /\ d.start \in Nat /\ d.commit \in Nat
                            /\ d.start < d.commit /\ d.commit <= Cardinality(done)
         /\ EndedBy(s).commit = Cardinality(done) + 1 /\ EndedBy(s) \notin done
         /\ IsFiniteSet(done) /\ Cardinality(done \cup {EndedBy(s)}) = Cardinality(done) + 1
<1>1. done \in SUBSET Ended /\ IsFiniteSet(done) /\ tx[s] \in Transaction
  BY OpenTypes DEF LockInv, Commits, Types
<1>2. Cardinality(done) \in Nat /\ tx[s].start \in Nat
  BY <1>1, FS_CardinalityType DEF Transaction
<1>3. \A d \in done : /\ d.start \in Nat /\ d.commit \in Nat
                      /\ d.start < d.commit /\ d.commit <= Cardinality(done)
  BY <1>1 DEF Ended, LockInv, DoneOK
<1>4. EndedBy(s).commit = Cardinality(done) + 1
  BY DEF EndedBy
<1>5. EndedBy(s) \notin done
  BY <1>2, <1>3, <1>4
<1>6. Cardinality(done \cup {EndedBy(s)}) = Cardinality(done) + 1
  BY <1>1, <1>5, FS_AddElement
<1>7. QED
  BY <1>1, <1>2, <1>3, <1>4, <1>5, <1>6 DEF LockInv, DoneOK, Commits

\* What commits keeps the locks sound
LEMMA CommitKeeps ==
  ASSUME LockInv, Serializable, NEW s \in Sessions, Commits(s)
  PROVE  LockInv'
<1> DEFINE e == EndedBy(s)
           changes == tx[s].ins # {} \/ tx[s].del # {}
<1>1. /\ Types' /\ ~Open(s)' /\ Open(s)
      /\ \A o \in Sessions \ {s} : tx'[o] = tx[o] /\ temp'[o] = temp[o]
      /\ UNCHANGED <<clock, enabled, guarded>>
      /\ locks' = (locks \ tx[s].del) \cup tx[s].ins
      /\ done' = done \cup {e} \/ (done' = {} /\ \A o \in Sessions : ~Open(o)')
  BY DEF Commits
<1>2. \A o \in Sessions : Open(o)' => /\ o # s /\ Open(o) /\ tx'[o] = tx[o]
                                      /\ Points(o)' = Points(o) /\ done' = done \cup {e}
  BY <1>1, Untouched
<1>3. Now(s) \in Points(s) /\ Now(s).ins = tx[s].ins /\ Now(s).del = tx[s].del
  BY DEF Points, Now
<1>4. /\ Cardinality(done) \in Nat
      /\ \A d \in done : /\ d.start \in Nat /\ d.commit \in Nat
                         /\ d.start < d.commit /\ d.commit <= Cardinality(done)
      /\ e.commit = Cardinality(done) + 1
      /\ Cardinality(done \cup {e}) = Cardinality(done) + 1
      /\ e.start = tx[s].start /\ tx[s].start \in Nat /\ tx[s].start <= Cardinality(done)
  BY CommitCounts DEF EndedBy
<1>5. changes => "locks" \in e.writes /\ "locks" \in e.reads
  BY <1>3 DEF EndedBy, LockInv, PointsOK, PointOK, Commits
<1>6. "locks" \in e.writes => changes
  <2>1. tx[s].wrote \subseteq Rows
    BY <1>1, OpenTypes DEF LockInv, Transaction
  <2>2. QED
    BY <2>1, RowsAreNotTheTable DEF EndedBy
<1>7. OneHolder'
  <2>1. CASE changes
    <3>1. locks' = After(tx[s], Now(s))
      BY <1>1, <1>3, <2>1, ChangersSawAll DEF After
    <3>2. OneToken(After(tx[s], Now(s)), tx[s].now)
      BY <1>1, <1>3 DEF LockInv, PointsOK, PointOK
    <3>3. \A l \in locks' : Live(l, clock) => Live(l, tx[s].now)
      <4>1. tx[s].now \in Nat /\ clock \in Nat /\ tx[s].now <= clock
        BY <1>1, OpenTypes, TimeBounds DEF LockInv, SnapshotsOK, Types, Transaction
      <4>2. \A l \in locks' : l.expires \in Nat
        BY <1>1, TimeBounds DEF Types, Lock
      <4>3. QED
        BY <4>1, <4>2 DEF Live
    <3>4. QED
      BY <1>1, <3>1, <3>2, <3>3 DEF OneHolder, OneToken
  <2>2. CASE ~changes
    <3>1. locks' = locks
      BY <1>1, <2>2
    <3>2. QED
      BY <1>1, <3>1 DEF OneHolder, LockInv
  <2>3. QED
    BY <2>1, <2>2
<1> HIDE DEF e
<1>8. DoneOK'
  <2>1. CASE done' = done \cup {e}
    <3>1. \A d \in done' : /\ d.start < d.commit /\ d.commit <= Cardinality(done')
                           /\ "locks" \in d.writes => "locks" \in d.reads
      BY <1>4, <1>5, <1>6, <2>1 DEF LockInv, DoneOK
    <3>2. \A o \in Sessions : Open(o)' => tx'[o].start <= Cardinality(done')
      <4>1. \A o \in Sessions : Open(o) => tx[o].start \in Nat /\ tx[o].start <= Cardinality(done)
        BY OpenTypes DEF LockInv, DoneOK, Transaction
      <4>2. QED
        BY <1>2, <1>4, <2>1, <4>1
    <3>3. QED
      BY <3>1, <3>2 DEF DoneOK
  <2>2. CASE done' = {} /\ \A o \in Sessions : ~Open(o)'
    BY <2>2 DEF DoneOK
  <2>3. QED
    BY <1>1, <2>1, <2>2
<1>9. SnapshotsOK'
  <2>1. SUFFICES ASSUME NEW o \in Sessions, Open(o)'
                 PROVE  /\ tx'[o].now <= clock'
                        /\ \/ tx'[o].locks = locks'
                           \/ \E d \in done' : "locks" \in d.writes /\ tx'[o].start < d.commit
    BY DEF SnapshotsOK
  <2>2. Open(o) /\ tx'[o] = tx[o] /\ done' = done \cup {e}
    BY <1>2, <2>1
  <2>3. /\ tx[o].now <= clock
        /\ tx[o].locks = locks \/ \E d \in done : "locks" \in d.writes /\ tx[o].start < d.commit
    BY <2>2 DEF LockInv, SnapshotsOK
  <2>4. CASE ~changes
    <3>1. locks' = locks
      BY <1>1, <2>4
    <3>2. QED
      BY <1>1, <2>2, <2>3, <3>1
  <2>5. CASE changes
    <3>1. tx[o].start \in Nat /\ tx[o].start <= Cardinality(done)
      BY <2>2, OpenTypes DEF LockInv, DoneOK, Transaction
    <3>2. "locks" \in e.writes /\ tx[o].start < e.commit
      BY <1>4, <1>5, <2>5, <3>1
    <3>3. QED
      BY <1>1, <2>2, <2>3, <3>2
  <2>6. QED
    BY <2>4, <2>5
<1>10. PointsOK'
  BY <1>2 DEF PointsOK, LockInv
<1>11. TablesOK'
  BY <1>1, <1>2, <1>3 DEF TablesOK, LockInv
<1>12. QED
  BY <1>1, <1>7, <1>8, <1>9, <1>10, <1>11 DEF LockInv
-----------------------------------------------------------------------------
(* Every step.                                                             *)

\* The point after a statement that takes locks away, or leaves them, is good
LEMMA FewerLocks ==
  ASSUME LockInv, NEW s \in Sessions, GoesOn(s), Types',
         Now(s)'.ins \subseteq tx[s].ins,
         tx'[s].locks \ Now(s)'.del \subseteq LocksSeen(s), Serializable,
         Now(s)'.ins # {} \/ Now(s)'.del # {} => "locks" \in tx'[s].reads
  PROVE  LockInv'
<1>1. Open(s) /\ Now(s) \in Points(s) /\ Now(s).ins = tx[s].ins /\ Now(s).del = tx[s].del
  BY DEF GoesOn, Points, Now
<1>2. LocksSeen(s) = After(tx[s], Now(s))
  BY <1>1 DEF LocksSeen, After
<1>3. After(tx'[s], Now(s)') \subseteq After(tx[s], Now(s))
  BY <1>1, <1>2 DEF After
<1>4. OneToken(After(tx[s], Now(s)), tx[s].now)
  BY <1>1 DEF LockInv, PointsOK, PointOK
<1>5. PointOK(tx'[s], Now(s)')
  BY <1>3, <1>4 DEF PointOK, OneToken, GoesOn
<1>6. ~enabled => Now(s)'.ins = {}
  BY <1>1 DEF LockInv, TablesOK
<1>7. QED
  BY <1>5, <1>6, GoesOnKeeps

\* LockRow looks for a lock that is live, and takes the row only when there is none
LEMMA LockRowKeeps ==
  ASSUME LockInv, Serializable, NEW s \in Sessions, NEW r \in Rows, NEW a \in Tokens,
         NEW expires \in clock .. MaxClock, LockRow(s, r, a, expires)
  PROVE  LockInv'
<1>1. CASE Open(s) /\ Abort(s)
  BY <1>1, AbortKeeps
<1>2. CASE ~(Open(s) /\ Abort(s))
  <2>1. /\ Types' /\ GoesOn(s) /\ enabled
        /\ \E D \in SUBSET LocksSeen(s), I \in SUBSET Lock :
             /\ \A l \in I : l.rid = r /\ l.by = tx[s].xid
             /\ \A k, l \in I : k = l
             /\ I # {} => HeldOn(s, r) = {}
             /\ tx'[s].reads = tx[s].reads \cup {"locks"}
             /\ Now(s)' = [ins |-> (tx[s].ins \ D) \cup I, del |-> tx[s].del \cup (D \ tx[s].ins),
                           wrote |-> tx[s].wrote, seen |-> tx[s].seen, temp |-> temp[s]]
             /\ (Serializable => D \ tx[s].ins \subseteq tx[s].locks)
    <3>1. Types
      BY DEF LockInv
    <3>2. QED
      BY <1>2, <3>1, LockRowCases
  <2>2. PICK D \in SUBSET LocksSeen(s), I \in SUBSET Lock :
             /\ \A l \in I : l.rid = r
             /\ \A k, l \in I : k = l
             /\ I # {} => HeldOn(s, r) = {}
             /\ tx'[s].reads = tx[s].reads \cup {"locks"}
             /\ Now(s)' = [ins |-> (tx[s].ins \ D) \cup I, del |-> tx[s].del \cup (D \ tx[s].ins),
                           wrote |-> tx[s].wrote, seen |-> tx[s].seen, temp |-> temp[s]]
    BY <2>1
  <2>3. /\ Open(s) /\ Now(s) \in Points(s) /\ LocksSeen(s) = After(tx[s], Now(s))
        /\ Now(s)'.ins = (tx[s].ins \ D) \cup I /\ Now(s)'.del = tx[s].del \cup (D \ tx[s].ins)
        /\ tx'[s].locks = tx[s].locks /\ tx'[s].now = tx[s].now
    BY <2>1, <2>2 DEF GoesOn, Points, Now, LocksSeen, After
  <2>4. OneToken(LocksSeen(s), tx[s].now)
    BY <2>3 DEF LockInv, PointsOK, PointOK
  <2>5. After(tx'[s], Now(s)') \subseteq LocksSeen(s) \cup I
    BY <2>3 DEF After, LocksSeen
  <2>6. \A k \in LocksSeen(s), l \in I : k.rid = l.rid => ~Live(k, tx[s].now)
    BY <2>2 DEF HeldOn
  <2>7. PointOK(tx'[s], Now(s)')
    BY <2>2, <2>3, <2>4, <2>5, <2>6 DEF PointOK, OneToken
  <2>8. QED
    BY <2>1, <2>7, GoesOnKeeps
<1>3. QED
  BY <1>1, <1>2

\* Each step keeps the invariant of the locks
LEMMA NextKeepsLocks ==
  ASSUME LockInv, Serializable, [Next]_vars
  PROVE  LockInv'
<1>1. CASE UNCHANGED vars
  <2>1. /\ UNCHANGED <<clock, xid, locks, row, temp, enabled, guarded, tx, done, fetched>>
    BY <1>1 DEF vars
  <2>2. /\ \A s : (Open(s)' <=> Open(s)) /\ Points(s)' = Points(s)
        /\ (Types' <=> Types) /\ (OneHolder' <=> OneHolder)
    BY <2>1 DEF Open, Points, Now, Types, OneHolder
  <2>3. QED
    BY <2>1, <2>2 DEF LockInv, PointsOK, DoneOK, SnapshotsOK, TablesOK
<1>2. ASSUME NEW s \in Sessions, Begin(s) PROVE LockInv'
  BY <1>2, BeginKeeps
<1>3. ASSUME NEW s \in Sessions, Commit(s) PROVE LockInv'
  BY <1>3, CommitCases, CommitKeeps, AbortKeeps DEF LockInv
<1>4. ASSUME NEW s \in Sessions, Rollback(s) PROVE LockInv'
  BY <1>4, AbortKeeps DEF Rollback
<1>5. ASSUME NEW s \in Sessions, Savepoint(s) \/ ReleaseSavepoint(s) \/ RollbackToSavepoint(s)
      PROVE  LockInv'
  <2>1. Types' /\ GoesOn(s) /\ Rewinds(s)
    BY <1>5, SavepointGoesOn, ReleaseGoesOn, RollbackToGoesOn DEF LockInv
  <2>2. PointOK(tx[s], Now(s)') /\ (~enabled => Now(s)'.ins = {})
    BY <2>1 DEF LockInv, PointsOK, TablesOK, GoesOn, Rewinds
  <2>3. PointOK(tx'[s], Now(s)')
    BY <2>1, <2>2 DEF PointOK, After, GoesOn
  <2>4. QED
    BY <2>1, <2>2, <2>3, GoesOnKeeps
<1>6. ASSUME NEW s \in Sessions, NEW r \in Rows, NEW a \in Tokens,
             NEW expires \in clock .. MaxClock, LockRow(s, r, a, expires)
      PROVE  LockInv'
  BY <1>6, LockRowKeeps
<1>7. ASSUME NEW s \in Sessions, NEW a \in Tokens, UnlockRows(s, a) PROVE LockInv'
  <2>1. CASE Open(s) /\ Abort(s)
    BY <2>1, AbortKeeps
  <2>2. CASE ~(Open(s) /\ Abort(s))
    <3>1. /\ Types' /\ GoesOn(s)
          /\ \E D \in SUBSET LocksSeen(s) :
               /\ tx'[s].reads = tx[s].reads \cup {"locks"}
               /\ Now(s)' = [ins |-> tx[s].ins \ D, del |-> tx[s].del \cup (D \ tx[s].ins),
                             wrote |-> tx[s].wrote, seen |-> tx[s].seen, temp |-> temp[s]]
      BY <1>7, <2>2, UnlockRowsCases DEF LockInv
    <3>2. /\ Now(s)'.ins \subseteq tx[s].ins
          /\ tx'[s].locks \ Now(s)'.del \subseteq LocksSeen(s)
          /\ "locks" \in tx'[s].reads
      BY <3>1 DEF GoesOn, LocksSeen
    <3>3. QED
      BY <3>1, <3>2, FewerLocks
  <2>3. QED
    BY <2>1, <2>2
<1>8. ASSUME NEW s \in Sessions, Types', GoesOn(s),
             Now(s)'.ins = tx[s].ins, Now(s)'.del = tx[s].del
      PROVE  LockInv'
  <2>1. Open(s) /\ Now(s) \in Points(s) /\ Now(s).ins = tx[s].ins /\ Now(s).del = tx[s].del
    BY <1>8 DEF GoesOn, Points, Now
  <2>2. PointOK(tx[s], Now(s))
    BY <2>1 DEF LockInv, PointsOK
  <2>3. tx[s].ins # {} \/ tx[s].del # {} => "locks" \in tx'[s].reads
    BY <1>8, <2>1, <2>2 DEF PointOK, GoesOn
  <2>4. tx'[s].locks \ Now(s)'.del \subseteq LocksSeen(s)
    BY <1>8 DEF LocksSeen, GoesOn
  <2>5. QED
    BY <1>8, <2>3, <2>4, FewerLocks
<1>9. ASSUME NEW s \in Sessions, NEW a \in Tokens, AddAuth(s, a) PROVE LockInv'
  <2>1. Open(s) /\ Types
    BY <1>9 DEF AddAuth, LockInv
  <2>2. CurrentXid(s) \in 1 .. MaxXid
    <3>1. tx[s].xid \in 1 .. MaxXid /\ tx[s].sub \in 0 .. MaxXid
      BY <2>1, OpenTypes DEF Transaction
    <3>2. QED
      BY <3>1, TimeBounds DEF CurrentXid
  <2>3. CASE Abort(s)
    BY <2>1, <2>3, AbortKeeps
  <2>4. CASE ~Abort(s)
    <3>1. Types' /\ GoesOn(s) /\ Now(s)' = [Now(s) EXCEPT !.temp = temp'[s]]
      BY <1>9, <2>1, <2>2, <2>4, AddAuthCases
    <3>2. Now(s)'.ins = tx[s].ins /\ Now(s)'.del = tx[s].del
      BY <3>1 DEF Now
    <3>3. QED
      BY <1>8, <3>1, <3>2
  <2>5. QED
    BY <2>3, <2>4
<1>10. ASSUME NEW s \in Sessions, NEW r \in Rows, Change(s, r) PROVE LockInv'
  <2>1. CASE Open(s) /\ Abort(s)
    BY <2>1, AbortKeeps
  <2>2. CASE ~(Open(s) /\ Abort(s))
    <3>1. /\ Types' /\ GoesOn(s)
          /\ Now(s)' = [ins |-> tx[s].ins, del |-> tx[s].del, wrote |-> tx[s].wrote \cup {r},
                        seen |-> tx[s].seen, temp |-> temp[s]]
      BY <1>10, <2>2, ChangeCases DEF LockInv
    <3>2. Now(s)'.ins = tx[s].ins /\ Now(s)'.del = tx[s].del
      BY <3>1
    <3>3. QED
      BY <1>8, <3>1, <3>2
  <2>3. QED
    BY <2>1, <2>2
<1>11. ASSUME NEW s \in Sessions, NEW r \in Rows, Fetch(s, r) PROVE LockInv'
  <2>1. Types' /\ GoesOn(s) /\ Now(s)'.ins = tx[s].ins /\ Now(s)'.del = tx[s].del
    BY <1>11, FetchCases DEF LockInv
  <2>2. QED
    BY <1>8, <2>1
<1>12. ASSUME NEW s \in Sessions, Disconnect(s) PROVE LockInv'
  <2>1. /\ ~Open(s) /\ temp' = [temp EXCEPT ![s] = NoTable]
        /\ UNCHANGED <<clock, xid, locks, row, enabled, guarded, tx, done, fetched>>
    BY <1>12 DEF Disconnect
  <2>2. temp \in [Sessions -> Table] /\ NoTable \in Table
    BY DEF LockInv, Types, NoTable, Table
  <2>3. temp' \in [Sessions -> Table] /\ \A o \in Sessions \ {s} : temp'[o] = temp[o]
    BY <2>1, <2>2, AtOne
  <2>4. Types'
    BY <2>1, <2>3 DEF LockInv, Types
  <2>5. \A o \in Sessions : Open(o)' => Open(o) /\ tx'[o] = tx[o] /\ Points(o)' = Points(o)
    BY <2>1, <2>3, Untouched DEF Open
  <2>6. QED
    BY <2>1, <2>4, <2>5 DEF LockInv, PointsOK, DoneOK, SnapshotsOK, TablesOK, OneHolder
<1>13. CASE EnableLongTransactions \/ CheckAuth \/ DisableLongTransactions
  <2>1. /\ \A s \in Sessions : ~Open(s)
        /\ UNCHANGED <<clock, xid, row, temp, tx, done, fetched>>
        /\ locks' = locks \/ locks' = {}
        /\ enabled' \in BOOLEAN /\ guarded' \in BOOLEAN
        /\ ~enabled' => locks' = {} /\ ~guarded'
    BY <1>13 DEF EnableLongTransactions, CheckAuth, DisableLongTransactions, Quiet, LockInv, Types
  <2>2. \A s \in Sessions : ~Open(s)'
    BY <2>1 DEF Open
  <2>3. Types'
    BY <2>1 DEF LockInv, Types
  <2>4. OneHolder'
    BY <2>1 DEF LockInv, OneHolder
  <2>5. QED
    BY <2>1, <2>2, <2>3, <2>4 DEF LockInv, PointsOK, DoneOK, SnapshotsOK, TablesOK
<1>14. CASE Tick
  <2>1. /\ clock' = clock + 1 /\ clock < MaxClock
        /\ UNCHANGED <<xid, locks, row, temp, enabled, guarded, tx, done, fetched>>
    BY <1>14 DEF Tick
  <2>2. clock \in 0 .. MaxClock /\ clock' \in 0 .. MaxClock /\ \A l \in locks : l.expires \in Nat
    BY <2>1, TimeBounds DEF LockInv, Types, Lock
  <2>3. Types'
    BY <2>1, <2>2 DEF LockInv, Types
  <2>4. OneHolder'
    BY <2>1, <2>2 DEF LockInv, OneHolder, Live
  <2>5. \A s : (Open(s)' <=> Open(s)) /\ Points(s)' = Points(s)
    BY <2>1 DEF Open, Points, Now
  <2>6. SnapshotsOK'
    <3>1. \A s \in Sessions : Open(s) => tx[s].now \in Nat /\ tx[s].now <= clock
      BY OpenTypes, TimeBounds DEF LockInv, SnapshotsOK, Transaction
    <3>2. QED
      BY <2>1, <2>2, <2>5, <3>1 DEF LockInv, SnapshotsOK
  <2>7. QED
    BY <2>1, <2>3, <2>4, <2>5, <2>6 DEF LockInv, PointsOK, DoneOK, TablesOK
<1>15. QED
  BY <1>1, <1>2, <1>3, <1>4, <1>5, <1>6, <1>7, <1>9, <1>10, <1>11, <1>12, <1>13, <1>14 DEF Next

\* There are no locks at first
LEMMA InitialLocks ==
  ASSUME Init
  PROVE  LockInv
<1>1. \A s \in Sessions : ~Open(s)
  BY DEF Init, Open, Idle
<1>2. Types
  <2>1. NoTable \in Table /\ [ver |-> 0, tokens |-> {}] \in Version
    BY TimeBounds DEF NoTable, Table, Version
  <2>2. /\ tx \in [Sessions -> Transaction \cup {Idle}] /\ temp \in [Sessions -> Table]
        /\ row \in [Rows -> Version]
    BY <2>1 DEF Init
  <2>3. done \in SUBSET Ended /\ IsFiniteSet(done) /\ 0 \in 0 .. MaxClock /\ 0 \in 0 .. MaxXid
    BY FS_EmptySet, TimeBounds DEF Init
  <2>4. QED
    BY <2>2, <2>3 DEF Init, Types
<1>3. DoneOK /\ PointsOK /\ SnapshotsOK /\ TablesOK /\ OneHolder
  BY <1>1 DEF Init, DoneOK, PointsOK, SnapshotsOK, TablesOK, OneHolder
<1>4. QED
  BY <1>2, <1>3 DEF LockInv

-----------------------------------------------------------------------------
(* Types, at either isolation level.                                       *)

TypesInv == Types /\ TablesOK

\* A statement inserts locks only while the tables exist
LEMMA GoesOnKeepsTypes ==
  ASSUME TypesInv, NEW s \in Sessions, GoesOn(s), Types', enabled \/ Now(s)'.ins \subseteq tx[s].ins
  PROVE  TypesInv'
<1>1. /\ \A o \in Sessions \ {s} : (Open(o)' <=> Open(o)) /\ Points(o)' = Points(o)
      /\ Open(s) /\ Now(s) \in Points(s) /\ Now(s).ins = tx[s].ins
      /\ Points(s)' \subseteq Points(s) \cup {Now(s)'}
      /\ UNCHANGED <<locks, enabled, guarded>>
  BY Untouched DEF GoesOn, Points, Now
<1>2. ~enabled => Now(s)'.ins = {}
  BY <1>1 DEF TypesInv, TablesOK
<1>3. TablesOK'
  BY <1>1, <1>2 DEF TypesInv, TablesOK
<1>4. QED
  BY <1>3 DEF TypesInv

\* A transaction that fails leaves types as they are
LEMMA AbortKeepsTypes ==
  ASSUME TypesInv, NEW s \in Sessions, Open(s), Abort(s)
  PROVE  TypesInv'
<1>1. /\ Types' /\ ~Open(s)' /\ \A o \in Sessions \ {s} : tx'[o] = tx[o] /\ temp'[o] = temp[o]
      /\ UNCHANGED <<locks, enabled, guarded>>
  BY AbortFields DEF TypesInv
<1>2. \A o \in Sessions : Open(o)' => Open(o) /\ Points(o)' = Points(o)
  BY <1>1, Untouched
<1>3. QED
  BY <1>1, <1>2 DEF TypesInv, TablesOK

\* Each step keeps types
LEMMA NextKeepsTypes ==
  ASSUME TypesInv, [Next]_vars
  PROVE  TypesInv'
<1>1. CASE UNCHANGED vars
  <2>1. /\ UNCHANGED <<clock, xid, locks, row, temp, enabled, guarded, tx, done, fetched>>
    BY <1>1 DEF vars
  <2>2. (\A s : (Open(s)' <=> Open(s)) /\ Points(s)' = Points(s)) /\ (Types' <=> Types)
    BY <2>1 DEF Open, Points, Now, Types
  <2>3. QED
    BY <2>1, <2>2 DEF TypesInv, TablesOK
<1>2. ASSUME NEW s \in Sessions, Begin(s) PROVE TypesInv'
  <2>1. /\ Types' /\ UNCHANGED <<locks, enabled, guarded>>
        /\ \A o \in Sessions \ {s} : tx'[o] = tx[o] /\ temp'[o] = temp[o]
        /\ \A p \in Points(s)' : p.ins = {}
    BY <1>2, BeginFields DEF TypesInv
  <2>2. \A o \in Sessions \ {s} : (Open(o)' <=> Open(o)) /\ Points(o)' = Points(o)
    BY <2>1, Untouched
  <2>3. QED
    BY <2>1, <2>2 DEF TypesInv, TablesOK
<1>3. ASSUME NEW s \in Sessions, Commit(s) PROVE TypesInv'
  <2>1. CASE Open(s) /\ Abort(s)
    BY <2>1, AbortKeepsTypes
  <2>2. CASE Commits(s)
    <3>1. /\ Types' /\ ~Open(s)' /\ Open(s) /\ UNCHANGED <<enabled, guarded>>
          /\ \A o \in Sessions \ {s} : tx'[o] = tx[o] /\ temp'[o] = temp[o]
          /\ locks' = (locks \ tx[s].del) \cup tx[s].ins
          /\ Now(s) \in Points(s) /\ Now(s).ins = tx[s].ins
      BY <2>2 DEF Commits, Points, Now
    <3>2. \A o \in Sessions : Open(o)' => Open(o) /\ Points(o)' = Points(o)
      BY <3>1, Untouched
    <3>3. QED
      BY <3>1, <3>2 DEF TypesInv, TablesOK
  <2>3. QED
    BY <1>3, <2>1, <2>2, CommitCases DEF TypesInv
<1>4. ASSUME NEW s \in Sessions, Rollback(s) PROVE TypesInv'
  BY <1>4, AbortKeepsTypes DEF Rollback
<1>5. ASSUME NEW s \in Sessions, Savepoint(s) \/ ReleaseSavepoint(s) \/ RollbackToSavepoint(s)
      PROVE  TypesInv'
  <2>1. Types' /\ GoesOn(s) /\ Rewinds(s)
    BY <1>5, SavepointGoesOn, ReleaseGoesOn, RollbackToGoesOn DEF TypesInv
  <2>2. enabled \/ Now(s)'.ins = {}
    BY <2>1 DEF TypesInv, TablesOK, GoesOn, Rewinds
  <2>3. QED
    BY <2>1, <2>2, GoesOnKeepsTypes
<1>6. ASSUME NEW s \in Sessions, NEW r \in Rows, NEW a \in Tokens,
             NEW expires \in clock .. MaxClock, LockRow(s, r, a, expires)
      PROVE  TypesInv'
  <2>1. (Open(s) /\ Abort(s)) \/ (Types' /\ GoesOn(s) /\ enabled)
    <3>1. Types
      BY DEF TypesInv
    <3>2. QED
      BY <1>6, <3>1, LockRowCases
  <2>2. QED
    BY <2>1, AbortKeepsTypes, GoesOnKeepsTypes
<1>7. ASSUME NEW s \in Sessions, NEW a \in Tokens, UnlockRows(s, a) PROVE TypesInv'
  <2>1. (Open(s) /\ Abort(s)) \/ (Types' /\ GoesOn(s) /\ enabled)
    BY <1>7, UnlockRowsCases DEF TypesInv
  <2>2. QED
    BY <2>1, AbortKeepsTypes, GoesOnKeepsTypes
<1>8. ASSUME NEW s \in Sessions, NEW a \in Tokens, AddAuth(s, a) PROVE TypesInv'
  <2>1. Open(s) /\ Types
    BY <1>8 DEF AddAuth, TypesInv
  <2>2. CurrentXid(s) \in 1 .. MaxXid
    <3>1. tx[s].xid \in 1 .. MaxXid /\ tx[s].sub \in 0 .. MaxXid
      BY <2>1, OpenTypes DEF Transaction
    <3>2. QED
      BY <3>1, TimeBounds DEF CurrentXid
  <2>3. Abort(s) \/ (Types' /\ GoesOn(s) /\ Now(s)' = [Now(s) EXCEPT !.temp = temp'[s]])
    BY <1>8, <2>1, <2>2, AddAuthCases
  <2>4. [Now(s) EXCEPT !.temp = temp'[s]].ins = tx[s].ins
    BY DEF Now
  <2>5. QED
    BY <2>1, <2>3, <2>4, AbortKeepsTypes, GoesOnKeepsTypes
<1>9. ASSUME NEW s \in Sessions, NEW r \in Rows, Change(s, r) PROVE TypesInv'
  <2>1. \/ Open(s) /\ Abort(s)
        \/ /\ Types' /\ GoesOn(s)
           /\ Now(s)' = [ins |-> tx[s].ins, del |-> tx[s].del, wrote |-> tx[s].wrote \cup {r},
                         seen |-> tx[s].seen, temp |-> temp[s]]
    BY <1>9, ChangeCases DEF TypesInv
  <2>2. (Open(s) /\ Abort(s)) \/ (Types' /\ GoesOn(s) /\ Now(s)'.ins = tx[s].ins)
    BY <2>1
  <2>3. QED
    BY <2>2, AbortKeepsTypes, GoesOnKeepsTypes
<1>10. ASSUME NEW s \in Sessions, NEW r \in Rows, Fetch(s, r) PROVE TypesInv'
  <2>1. Types' /\ GoesOn(s) /\ Now(s)'.ins = tx[s].ins
    BY <1>10, FetchCases DEF TypesInv
  <2>2. QED
    BY <2>1, GoesOnKeepsTypes
<1>11. ASSUME NEW s \in Sessions, Disconnect(s) PROVE TypesInv'
  <2>1. /\ ~Open(s) /\ temp' = [temp EXCEPT ![s] = NoTable]
        /\ UNCHANGED <<clock, xid, locks, row, enabled, guarded, tx, done, fetched>>
    BY <1>11 DEF Disconnect
  <2>2. temp \in [Sessions -> Table] /\ NoTable \in Table
    BY DEF TypesInv, Types, NoTable, Table
  <2>3. temp' \in [Sessions -> Table] /\ \A o \in Sessions \ {s} : temp'[o] = temp[o]
    BY <2>1, <2>2, AtOne
  <2>4. Types'
    BY <2>1, <2>3 DEF TypesInv, Types
  <2>5. \A o \in Sessions : Open(o)' => Open(o) /\ Points(o)' = Points(o)
    BY <2>1, <2>3, Untouched DEF Open
  <2>6. QED
    BY <2>1, <2>4, <2>5 DEF TypesInv, TablesOK
<1>12. CASE EnableLongTransactions \/ CheckAuth \/ DisableLongTransactions
  <2>1. /\ \A s \in Sessions : ~Open(s)
        /\ UNCHANGED <<clock, xid, row, temp, tx, done, fetched>>
        /\ locks' = locks \/ locks' = {}
        /\ enabled' \in BOOLEAN /\ guarded' \in BOOLEAN
        /\ ~enabled' => locks' = {} /\ ~guarded'
    BY <1>12 DEF EnableLongTransactions, CheckAuth, DisableLongTransactions, Quiet, TypesInv, Types
  <2>2. (\A s \in Sessions : ~Open(s)') /\ Types'
    BY <2>1 DEF Open, TypesInv, Types
  <2>3. QED
    BY <2>1, <2>2 DEF TypesInv, TablesOK
<1>13. CASE Tick
  <2>1. /\ clock' = clock + 1 /\ clock < MaxClock
        /\ UNCHANGED <<xid, locks, row, temp, enabled, guarded, tx, done, fetched>>
    BY <1>13 DEF Tick
  <2>2. clock \in 0 .. MaxClock /\ clock' \in 0 .. MaxClock
    BY <2>1, TimeBounds DEF TypesInv, Types
  <2>3. Types' /\ \A s : (Open(s)' <=> Open(s)) /\ Points(s)' = Points(s)
    BY <2>1, <2>2 DEF TypesInv, Types, Open, Points, Now
  <2>4. QED
    BY <2>1, <2>3 DEF TypesInv, TablesOK
<1>14. QED
  BY <1>1, <1>2, <1>3, <1>4, <1>5, <1>6, <1>7, <1>8, <1>9, <1>10, <1>11, <1>12, <1>13 DEF Next

-----------------------------------------------------------------------------
(* Theorems.  Types hold at either isolation level; the rest is for the    *)
(* serializable level, which the functions are meant for.                  *)

\* What sessions have locked, deleted and read is consistent in any state
THEOREM LocksAreSound ==
  ASSUME Serializable
  PROVE  Spec => []LockInv
<1>1. Init => LockInv
  BY InitialLocks
<1>2. LockInv /\ [Next]_vars => LockInv'
  BY NextKeepsLocks
<1>3. QED
  BY <1>1, <1>2, PTL DEF Spec

\* authorization_table and the rest are of their types, and there are no locks and no trigger
\* unless EnableLongTransactions was called
THEOREM TypesAreRight == Spec => []TypeOK
<1>1. Init => TypesInv
  BY InitialLocks DEF LockInv, TypesInv
<1>2. TypesInv /\ [Next]_vars => TypesInv'
  BY NextKeepsTypes
<1>3. TypesInv => TypeOK
  BY DEF TypesInv, Types, TablesOK, TypeOK, Lock, Version, Reading
<1>4. QED
  BY <1>1, <1>2, <1>3, PTL DEF Spec

\* Two sessions that call LockRow for a row never both get it, though each may find it free
THEOREM OneHolderOnly ==
  ASSUME Serializable
  PROVE  Spec => []OneHolder
<1>1. LockInv => OneHolder
  BY DEF LockInv
<1>2. QED
  BY <1>1, LocksAreSound, PTL

-----------------------------------------------------------------------------
(* What a session read of a row: the invariant of the locks goes on.       *)

\* Ids are of one transaction each, and a lock is in the table when its transaction is over
IdsOK ==
  /\ \A l \in locks : l.by <= xid
  /\ \A f \in fetched : f.lock.by <= xid
  /\ \A s \in Sessions : Open(s) =>
       /\ tx[s].xid <= xid
       /\ tx[s].xid \in tx[s].ids /\ tx[s].sub \in tx[s].ids \cup {0}
       /\ \A l \in locks : l.by # tx[s].xid
       /\ \A f \in fetched : f.lock.by # tx[s].xid
       /\ \A o \in Sessions : Open(o) =>
            /\ tx[o].xid = tx[s].xid => o = s
            /\ \A l \in tx[o].locks : l.by <= xid /\ l.by # tx[s].xid

\* At point p of transaction t, with the trigger on or not: its locks are its own; the changes
\* were guarded, with the tokens of the locks it knows of; what it fetched is of its snapshot,
\* or its own
WorkOK(on, t, p) ==
  /\ \A l \in p.ins : l.by = t.xid
  /\ p.del \subseteq t.locks
  /\ on => \A r \in p.wrote :
       /\ "locks" \in t.reads
       /\ \A l \in t.locks \ p.del :
            l.rid = r /\ Live(l, t.now) =>
              \E e \in p.temp.rows : e.transid \in t.ids /\ e.lockcode = l.authid
  /\ \A f \in p.seen :
       /\ on /\ f.reader = t.xid /\ f.lock.rid \in t.reads
       /\ f.lock \in t.locks \/ f.lock.by = t.xid
       /\ f.ver = t.row[f.lock.rid].ver \/ f.lock.rid \in p.wrote

WorksOK == \A s \in Sessions : Open(s) => \A p \in Points(s) : WorkOK(guarded, tx[s], p)

\* A lock that t knows of and w does not was committed after w began, and before t did
MissedOK ==
  \A t, w \in Sessions : Open(t) /\ Open(w) =>
    \A l \in tx[t].locks \cap locks :
      l \notin tx[w].locks =>
        \E d \in done : /\ "locks" \in d.writes
                        /\ tx[w].start < d.commit /\ d.commit <= tx[t].start

\* The same of a holder that is done: if w changes the row, it is a pivot
FetchedOK ==
  \A f \in fetched, w \in Sessions : Open(w) /\ f.lock \in locks \ tx[w].locks =>
    \E in, out \in done :
      /\ f.lock.rid \in in.reads /\ "locks" \in out.writes
      /\ tx[w].start < out.commit /\ out.commit <= in.commit
      /\ in.writes = {} => out.commit <= in.start

\* A row changed since t began: with the tokens of the locks t knows of, or by a pivot
ChangedOK ==
  guarded => \A t \in Sessions, r \in Rows : Open(t) /\ row[r] # tx[t].row[r] =>
    \E d \in done :
      /\ r \in d.writes /\ "locks" \in d.reads /\ tx[t].start < d.commit
      /\ \A l \in tx[t].locks \cap locks :
           l.rid = r /\ Live(l, clock) =>
             \/ l.authid \in row[r].tokens
             \/ \E out \in done :
                  /\ "locks" \in out.writes /\ out.commit <= tx[t].start
                  /\ d.start < out.commit /\ out.commit < d.commit

\* Without the trigger nobody holds a lock that was fetched under
UnguardedOK == ~guarded => \A f \in fetched : f.lock \notin locks

ReadInv ==
  /\ LockInv /\ IdsOK /\ WorksOK /\ MissedOK /\ FetchedOK /\ ChangedOK /\ UnguardedOK
  /\ HolderReadsStayCurrent
-----------------------------------------------------------------------------
(* Statements within a transaction.                                        *)

\* What is good at a point stays good while the transaction goes on
LEMMA WorkRemains ==
  ASSUME NEW on, NEW t, NEW u, NEW p, WorkOK(on, t, p),
         u.xid = t.xid, u.now = t.now, u.locks = t.locks, u.row = t.row,
         t.reads \subseteq u.reads, t.ids \subseteq u.ids
  PROVE  WorkOK(on, u, p)
<1>1. /\ \A l \in p.ins : l.by = u.xid
      /\ p.del \subseteq u.locks
  BY DEF WorkOK
<1>2. on => \A r \in p.wrote :
        /\ "locks" \in u.reads
        /\ \A l \in u.locks \ p.del :
             l.rid = r /\ Live(l, u.now) =>
               \E e \in p.temp.rows : e.transid \in u.ids /\ e.lockcode = l.authid
  BY DEF WorkOK
<1>3. \A f \in p.seen :
        /\ on /\ f.reader = u.xid /\ f.lock.rid \in u.reads
        /\ f.lock \in u.locks \/ f.lock.by = u.xid
        /\ f.ver = u.row[f.lock.rid].ver \/ f.lock.rid \in p.wrote
  BY DEF WorkOK
<1>4. QED
  BY <1>1, <1>2, <1>3 DEF WorkOK

\* The ids of what is open are numbers
LEMMA IdTypes ==
  ASSUME Types
  PROVE  /\ xid \in Nat
         /\ \A l \in locks : l.by \in Nat
         /\ \A f \in fetched : f.lock.by \in Nat
         /\ \A s \in Sessions : Open(s) => /\ tx[s].xid \in Nat /\ tx[s].start \in Nat
                                           /\ \A l \in tx[s].locks : l.by \in Nat
                                           /\ \A p \in Points(s) : p \in Point
<1>1. xid \in Nat
  BY TimeBounds DEF Types
<1>2. \A l \in Lock : l.by \in Nat
  BY TimeBounds DEF Lock
<1>3. \A f \in Reading : f.lock \in Lock
  BY DEF Reading
<1>4. \A s \in Sessions : Open(s) => /\ tx[s].xid \in Nat /\ tx[s].start \in Nat
                                     /\ tx[s].locks \in SUBSET Lock
                                     /\ \A p \in Points(s) : p \in Point
  BY OpenTypes, TimeBounds DEF Transaction
<1>5. locks \in SUBSET Lock /\ fetched \in SUBSET Reading
  BY DEF Types
<1>6. QED
  BY <1>1, <1>2, <1>3, <1>4, <1>5

\* Again only the present point is to be looked at
LEMMA GoesOnKeepsReads ==
  ASSUME ReadInv, NEW s \in Sessions, GoesOn(s), LockInv', xid' = xid \/ xid' = xid + 1,
         tx'[s].sub \in tx'[s].ids \cup {0}, WorkOK(guarded, tx'[s], Now(s)')
  PROVE  ReadInv'
<1>1. /\ \A o \in Sessions \ {s} : /\ tx'[o] = tx[o] /\ (Open(o)' <=> Open(o))
                                   /\ Points(o)' = Points(o)
      /\ Open(s) /\ Open(s)'
      /\ UNCHANGED <<clock, locks, row, enabled, guarded, done, fetched>>
  BY Untouched DEF GoesOn
<1>2. \A o \in Sessions : Open(o)' =>
        /\ Open(o) /\ tx'[o].xid = tx[o].xid /\ tx'[o].start = tx[o].start
        /\ tx'[o].locks = tx[o].locks /\ tx'[o].row = tx[o].row
  BY <1>1 DEF GoesOn
<1>3. \A o \in Sessions : Open(o)' => /\ tx'[o].xid \in tx'[o].ids
                                      /\ tx'[o].sub \in tx'[o].ids \cup {0}
  BY <1>1 DEF GoesOn, ReadInv, IdsOK
<1>4. IdsOK'
  <2>1. /\ xid \in Nat /\ (\A l \in locks : l.by \in Nat) /\ (\A f \in fetched : f.lock.by \in Nat)
        /\ \A o \in Sessions : Open(o) => tx[o].xid \in Nat /\ \A l \in tx[o].locks : l.by \in Nat
    BY IdTypes DEF ReadInv, LockInv
  <2>2. \A l \in locks : l.by <= xid'
    BY <2>1 DEF ReadInv, IdsOK
  <2>3. \A f \in fetched : f.lock.by <= xid'
    BY <2>1 DEF ReadInv, IdsOK
  <2>4. \A o \in Sessions : Open(o) => tx[o].xid <= xid' /\ \A l \in tx[o].locks : l.by <= xid'
    BY <2>1 DEF ReadInv, IdsOK
  <2>5. QED
    BY <1>1, <1>2, <1>3, <2>2, <2>3, <2>4 DEF ReadInv, IdsOK
<1>5. WorksOK'
  <2>1. SUFFICES ASSUME NEW o \in Sessions, Open(o)', NEW p \in Points(o)'
                 PROVE  WorkOK(guarded, tx'[o], p)
    BY <1>1 DEF WorksOK
  <2>2. CASE o # s
    BY <1>1, <2>1, <2>2 DEF ReadInv, WorksOK
  <2>3. CASE o = s /\ p = Now(s)'
    BY <2>3
  <2>4. CASE o = s /\ p \in Points(s)
    <3>1. WorkOK(guarded, tx[s], p)
      BY <1>1, <2>4 DEF ReadInv, WorksOK
    <3>2. QED
      BY <2>4, <3>1, WorkRemains DEF GoesOn
  <2>5. QED
    BY <2>1, <2>2, <2>3, <2>4 DEF GoesOn
<1>6. MissedOK' /\ FetchedOK'
  BY <1>1, <1>2 DEF ReadInv, MissedOK, FetchedOK
<1>7. ChangedOK'
  BY <1>1, <1>2 DEF ReadInv, ChangedOK
<1>8. UnguardedOK' /\ HolderReadsStayCurrent'
  BY <1>1 DEF ReadInv, UnguardedOK, HolderReadsStayCurrent
<1>9. QED
  BY <1>4, <1>5, <1>6, <1>7, <1>8 DEF ReadInv

\* What is rolled back leaves what was fetched as current as it was
LEMMA AbortKeepsReads ==
  ASSUME ReadInv, NEW s \in Sessions, Open(s), Abort(s), LockInv'
  PROVE  ReadInv'
<1>1. /\ ~Open(s)' /\ \A o \in Sessions \ {s} : tx'[o] = tx[o] /\ temp'[o] = temp[o]
      /\ UNCHANGED <<clock, xid, locks, row, enabled, guarded, fetched>>
      /\ done' = done \/ (done' = {} /\ \A o \in Sessions : ~Open(o)')
  BY AbortFields DEF ReadInv, LockInv
<1>2. \A o \in Sessions : Open(o)' => /\ o # s /\ Open(o) /\ tx'[o] = tx[o]
                                      /\ Points(o)' = Points(o) /\ done' = done
  BY <1>1, Untouched
<1>3. IdsOK' /\ WorksOK'
  BY <1>1, <1>2 DEF ReadInv, IdsOK, WorksOK
<1>4. MissedOK' /\ FetchedOK' /\ ChangedOK'
  BY <1>1, <1>2 DEF ReadInv, MissedOK, FetchedOK, ChangedOK
<1>5. UnguardedOK' /\ HolderReadsStayCurrent'
  BY <1>1 DEF ReadInv, UnguardedOK, HolderReadsStayCurrent
<1>6. QED
  BY <1>3, <1>4, <1>5 DEF ReadInv

\* A transaction begins with nothing fetched
LEMMA BeginKeepsReads ==
  ASSUME ReadInv, NEW s \in Sessions, Begin(s), LockInv'
  PROVE  ReadInv'
<1>1. /\ ~Open(s) /\ Open(s)' /\ xid' = xid + 1
      /\ \A o \in Sessions \ {s} : tx'[o] = tx[o] /\ temp'[o] = temp[o]
      /\ UNCHANGED <<clock, locks, row, temp, enabled, guarded, done, fetched>>
      /\ tx'[s].xid = xid + 1 /\ tx'[s].ids = {xid + 1} /\ tx'[s].sub = 0
      /\ tx'[s].start = Cardinality(done)
      /\ tx'[s].locks = locks /\ tx'[s].row = row
      /\ Points(s)' = {[ins |-> {}, del |-> {}, wrote |-> {}, seen |-> {}, temp |-> temp[s]]}
  BY BeginFields DEF ReadInv, LockInv
<1>2. \A o \in Sessions \ {s} : (Open(o)' <=> Open(o)) /\ Points(o)' = Points(o)
  BY <1>1, Untouched
<1>3. /\ xid \in Nat /\ (\A l \in locks : l.by \in Nat) /\ (\A f \in fetched : f.lock.by \in Nat)
      /\ \A o \in Sessions : Open(o) => tx[o].xid \in Nat /\ \A l \in tx[o].locks : l.by \in Nat
  BY IdTypes DEF ReadInv, LockInv
<1>4. IdsOK'
  <2>1. /\ \A l \in locks : l.by <= xid + 1 /\ l.by # xid + 1
        /\ \A f \in fetched : f.lock.by <= xid + 1 /\ f.lock.by # xid + 1
        /\ \A o \in Sessions : Open(o) =>
             /\ tx[o].xid <= xid + 1 /\ tx[o].xid # xid + 1
             /\ \A l \in tx[o].locks : l.by <= xid + 1 /\ l.by # xid + 1
    BY <1>3 DEF ReadInv, IdsOK
  <2>2. \A l \in locks' : l.by <= xid'
    BY <1>1, <2>1
  <2>3. \A f \in fetched' : f.lock.by <= xid'
    BY <1>1, <2>1
  <2>4. ASSUME NEW o \in Sessions, Open(o)'
        PROVE  /\ tx'[o].xid <= xid'
               /\ tx'[o].xid \in tx'[o].ids /\ tx'[o].sub \in tx'[o].ids \cup {0}
               /\ \A l \in locks' : l.by # tx'[o].xid
               /\ \A f \in fetched' : f.lock.by # tx'[o].xid
    <3>1. CASE o = s
      BY <1>1, <1>3, <2>1, <3>1
    <3>2. CASE o # s
      BY <1>1, <1>2, <2>1, <2>4, <3>2 DEF ReadInv, IdsOK
    <3>3. QED
      BY <3>1, <3>2
  <2>5. ASSUME NEW o \in Sessions, Open(o)', NEW q \in Sessions, Open(q)'
        PROVE  /\ tx'[q].xid = tx'[o].xid => q = o
               /\ \A l \in tx'[q].locks : l.by <= xid' /\ l.by # tx'[o].xid
    <3>1. CASE o = s /\ q = s
      BY <1>1, <2>1, <3>1
    <3>2. CASE o = s /\ q # s
      BY <1>1, <1>2, <2>1, <2>5, <3>2
    <3>3. CASE o # s /\ q = s
      BY <1>1, <1>2, <2>1, <2>5, <3>3 DEF ReadInv, IdsOK
    <3>4. CASE o # s /\ q # s
      BY <1>1, <1>2, <2>1, <2>5, <3>4 DEF ReadInv, IdsOK
    <3>5. QED
      BY <3>1, <3>2, <3>3, <3>4
  <2>6. QED
    BY <2>2, <2>3, <2>4, <2>5 DEF IdsOK
<1>5. WorksOK'
  <2>1. \A p \in Points(s)' : WorkOK(guarded, tx'[s], p)
    BY <1>1 DEF WorkOK
  <2>2. \A o \in Sessions \ {s} : Open(o)' => \A p \in Points(o)' : WorkOK(guarded, tx'[o], p)
    BY <1>1, <1>2 DEF ReadInv, WorksOK
  <2>3. QED
    BY <1>1, <2>1, <2>2 DEF WorksOK
<1>6. MissedOK'
  <2>1. SUFFICES ASSUME NEW t \in Sessions, NEW w \in Sessions, Open(t)', Open(w)',
                        NEW l \in tx'[t].locks \cap locks, l \notin tx'[w].locks
                 PROVE  \E d \in done : /\ "locks" \in d.writes
                                        /\ tx'[w].start < d.commit /\ d.commit <= tx'[t].start
    BY <1>1 DEF MissedOK
  <2>2. w # s
    BY <1>1, <2>1
  <2>3. CASE t = s
    <3>1. PICK d \in done : "locks" \in d.writes /\ tx[w].start < d.commit
      BY <1>1, <1>2, <2>1, <2>2 DEF ReadInv, LockInv, SnapshotsOK
    <3>2. d.commit <= Cardinality(done)
      BY DEF ReadInv, LockInv, DoneOK
    <3>3. QED
      BY <1>1, <2>2, <2>3, <3>1, <3>2
  <2>4. CASE t # s
    BY <1>1, <1>2, <2>1, <2>2, <2>4 DEF ReadInv, MissedOK
  <2>5. QED
    BY <2>3, <2>4
<1>7. FetchedOK'
  <2>1. \A f \in fetched, w \in Sessions : Open(w)' /\ f.lock \in locks \ tx'[w].locks =>
          w # s /\ Open(w) /\ tx'[w] = tx[w]
    BY <1>1, <1>2
  <2>2. QED
    BY <1>1, <2>1 DEF ReadInv, FetchedOK
<1>8. ChangedOK'
  <2>1. \A t \in Sessions, r \in Rows : Open(t)' /\ row[r] # tx'[t].row[r] =>
          t # s /\ Open(t) /\ tx'[t] = tx[t]
    BY <1>1, <1>2
  <2>2. QED
    BY <1>1, <2>1 DEF ReadInv, ChangedOK
<1>9. UnguardedOK' /\ HolderReadsStayCurrent'
  BY <1>1 DEF ReadInv, UnguardedOK, HolderReadsStayCurrent
<1>10. QED
  BY <1>4, <1>5, <1>6, <1>7, <1>8, <1>9 DEF ReadInv

-----------------------------------------------------------------------------
(* Commit.                                                                 *)

\* A transaction that changed a row added the tokens of the locks it knows of
LEMMA TokensKnown ==
  ASSUME ReadInv, NEW s \in Sessions, Open(s), guarded, NEW r \in tx[s].wrote,
         NEW l \in tx[s].locks \ tx[s].del, l.rid = r, Live(l, clock)
  PROVE  l.authid \in TokensAdded(s)
<1>1. WorkOK(guarded, tx[s], Now(s)) /\ Now(s).wrote = tx[s].wrote /\ Now(s).del = tx[s].del
      /\ Now(s).temp = temp[s]
  BY DEF ReadInv, WorksOK, Points, Now
<1>2. Live(l, tx[s].now)
  <2>1. tx[s].now \in Nat /\ clock \in Nat /\ tx[s].now <= clock /\ tx[s].locks \in SUBSET Lock
    BY OpenTypes, TimeBounds DEF ReadInv, LockInv, SnapshotsOK, Types, Transaction
  <2>2. l.expires \in Nat
    BY <2>1, TimeBounds DEF Lock
  <2>3. QED
    BY <2>1, <2>2 DEF Live
<1>3. \E e \in temp[s].rows : e.transid \in tx[s].ids /\ e.lockcode = l.authid
  BY <1>1, <1>2 DEF WorkOK
<1>4. QED
  BY <1>3 DEF TokensAdded

\* The locks a transaction inserts are its own: nobody else has seen them
LEMMA OwnLocks ==
  ASSUME ReadInv, NEW s \in Sessions, Commits(s)
  PROVE  /\ \A l \in tx[s].ins : l.by = tx[s].xid
         /\ \A l \in locks' : l.by # tx[s].xid => l \in locks /\ l \notin tx[s].del
         /\ \A l \in locks' : l.by = tx[s].xid => l \in tx[s].ins
         /\ \A f \in fetched : f.lock.by # tx[s].xid
         /\ \A o \in Sessions : Open(o) => \A l \in tx[o].locks : l.by # tx[s].xid
<1>1. Open(s) /\ locks' = (locks \ tx[s].del) \cup tx[s].ins
  BY DEF Commits
<1>2. \A l \in tx[s].ins : l.by = tx[s].xid
  <2>1. WorkOK(guarded, tx[s], Now(s)) /\ Now(s).ins = tx[s].ins
    BY <1>1 DEF ReadInv, WorksOK, Points, Now
  <2>2. QED
    BY <2>1 DEF WorkOK
<1>3. /\ \A l \in locks : l.by # tx[s].xid
      /\ \A f \in fetched : f.lock.by # tx[s].xid
      /\ \A o \in Sessions : Open(o) => \A l \in tx[o].locks : l.by # tx[s].xid
  BY <1>1 DEF ReadInv, IdsOK
<1>4. QED
  BY <1>1, <1>2, <1>3

\* The numbers of the transaction that commits, and of those before
LEMMA CommitNumbers ==
  ASSUME ReadInv, NEW s \in Sessions, Commits(s)
  PROVE  /\ EndedBy(s).start = tx[s].start /\ EndedBy(s).commit \in Nat
         /\ tx[s].start \in Nat /\ tx[s].start < EndedBy(s).commit
         /\ \A o \in Sessions : Open(o) => tx[o].start \in Nat /\ tx[o].start < EndedBy(s).commit
         /\ \A d \in done : /\ d.start \in Nat /\ d.commit \in Nat
                            /\ d.start < d.commit /\ d.commit < EndedBy(s).commit
                            /\ d # EndedBy(s)
<1>1. Open(s) /\ Cardinality(done) \in Nat
      /\ EndedBy(s).start = tx[s].start /\ EndedBy(s).commit = Cardinality(done) + 1
  BY FS_CardinalityType DEF Commits, EndedBy, ReadInv, LockInv, Types
<1>2. \A o \in Sessions : Open(o) => tx[o].start \in Nat /\ tx[o].start <= Cardinality(done)
  BY OpenTypes DEF ReadInv, LockInv, DoneOK, Transaction
<1>3. \A d \in done : d.start \in Nat /\ d.commit \in Nat /\ d.start < d.commit
                      /\ d.commit <= Cardinality(done)
  BY DEF ReadInv, LockInv, Types, DoneOK, Ended
<1>4. QED
  BY <1>1, <1>2, <1>3

\* A transaction that is a pivot, or makes one of a committed transaction, does not commit
LEMMA Refused ==
  ASSUME ReadInv, Serializable, NEW s \in Sessions, Commits(s),
         NEW in \in done \cup {EndedBy(s)}, NEW pivot \in done \cup {EndedBy(s)},
         NEW out \in done \cup {EndedBy(s)}, in # pivot, pivot # out,
         NEW x \in in.reads \cap pivot.writes, NEW y \in pivot.reads \cap out.writes,
         in.start < pivot.commit, pivot.start < in.commit,
         pivot.start < out.commit, out.commit < pivot.commit, out.commit <= in.commit,
         in.writes = {} => out.commit <= in.start
  PROVE  FALSE
<1>1. /\ in.start \in Nat /\ in.commit \in Nat /\ pivot.start \in Nat /\ pivot.commit \in Nat
      /\ out.start \in Nat /\ out.commit \in Nat /\ out.start < out.commit
  BY CommitNumbers
<1>2. Depends(in, pivot) /\ Depends(pivot, out)
  BY <1>1 DEF Depends
<1>3. Dangerous(done \cup {EndedBy(s)})
  BY <1>2 DEF Dangerous
<1>4. QED
  BY <1>3 DEF Commits

\* The snapshots and the readings that are left, once s has committed
LEMMA CommitKeepsSnapshots ==
  ASSUME ReadInv, Serializable, NEW s \in Sessions, Commits(s), LockInv'
  PROVE  IdsOK' /\ WorksOK' /\ MissedOK' /\ FetchedOK' /\ UnguardedOK'
<1> DEFINE e == EndedBy(s)
<1>1. /\ Open(s) /\ ~Open(s)' /\ \A o \in Sessions \ {s} : tx'[o] = tx[o] /\ temp'[o] = temp[o]
      /\ UNCHANGED <<clock, xid, temp, enabled, guarded>>
      /\ fetched' = {f \in fetched \cup tx[s].seen : f.lock \in locks'}
      /\ done' = done \cup {e} \/ (done' = {} /\ \A o \in Sessions : ~Open(o)')
  BY DEF Commits
<1>2. \A o \in Sessions : Open(o)' => /\ o # s /\ Open(o) /\ tx'[o] = tx[o]
                                      /\ Points(o)' = Points(o) /\ done' = done \cup {e}
  BY <1>1, Untouched
<1>3. /\ \A l \in tx[s].ins : l.by = tx[s].xid
      /\ \A l \in locks' : l.by # tx[s].xid => l \in locks /\ l \notin tx[s].del
      /\ \A l \in locks' : l.by = tx[s].xid => l \in tx[s].ins
      /\ \A f \in fetched : f.lock.by # tx[s].xid
      /\ \A o \in Sessions : Open(o) => \A l \in tx[o].locks : l.by # tx[s].xid
  BY OwnLocks
<1>4. IdsOK'
  <2>1. \A l \in locks' : l.by <= xid'
    BY <1>1, <1>3 DEF ReadInv, IdsOK
  <2>2. \A f \in fetched' : f.lock \in locks'
    BY <1>1
  <2>3. \A o \in Sessions : Open(o)' => \A l \in locks' : l.by # tx'[o].xid
    BY <1>1, <1>2, <1>3 DEF ReadInv, IdsOK
  <2>4. ASSUME NEW o \in Sessions, Open(o)'
        PROVE  /\ tx'[o].xid <= xid'
               /\ tx'[o].xid \in tx'[o].ids /\ tx'[o].sub \in tx'[o].ids \cup {0}
               /\ \A q \in Sessions : Open(q)' =>
                    /\ tx'[q].xid = tx'[o].xid => q = o
                    /\ \A l \in tx'[q].locks : l.by <= xid' /\ l.by # tx'[o].xid
    BY <1>1, <1>2, <2>4 DEF ReadInv, IdsOK
  <2>5. QED
    BY <2>1, <2>2, <2>3, <2>4 DEF IdsOK
<1>5. WorksOK'
  BY <1>1, <1>2 DEF ReadInv, WorksOK
<1>6. WorkOK(guarded, tx[s], Now(s)) /\ Now(s).seen = tx[s].seen
  BY <1>1 DEF ReadInv, WorksOK, Points, Now
<1>7. /\ e.start = tx[s].start /\ e.commit \in Nat /\ tx[s].start \in Nat /\ tx[s].start < e.commit
      /\ e.reads = tx[s].reads /\ (tx[s].ins # {} => "locks" \in e.writes)
      /\ \A o \in Sessions : Open(o) => tx[o].start < e.commit
      /\ \A d \in done : d.commit \in Nat
  BY CommitNumbers DEF EndedBy
<1> HIDE DEF e
<1>8. MissedOK'
  <2>1. SUFFICES ASSUME NEW t \in Sessions, NEW w \in Sessions, Open(t)', Open(w)',
                        NEW l \in tx'[t].locks \cap locks', l \notin tx'[w].locks
                 PROVE  \E d \in done' : /\ "locks" \in d.writes
                                         /\ tx'[w].start < d.commit /\ d.commit <= tx'[t].start
    BY DEF MissedOK
  <2>2. /\ Open(t) /\ Open(w) /\ tx'[t] = tx[t] /\ tx'[w] = tx[w] /\ done \subseteq done'
        /\ l \in locks
    BY <1>2, <1>3, <2>1
  <2>3. \E d \in done : /\ "locks" \in d.writes
                        /\ tx[w].start < d.commit /\ d.commit <= tx[t].start
    BY <2>1, <2>2 DEF ReadInv, MissedOK
  <2>4. QED
    BY <2>2, <2>3
<1>9. FetchedOK'
  <2>1. SUFFICES ASSUME NEW f \in fetched', NEW w \in Sessions, Open(w)',
                        f.lock \in locks', f.lock \notin tx'[w].locks
                 PROVE  \E in, out \in done' :
                          /\ f.lock.rid \in in.reads /\ "locks" \in out.writes
                          /\ tx'[w].start < out.commit /\ out.commit <= in.commit
                          /\ in.writes = {} => out.commit <= in.start
    BY DEF FetchedOK
  <2>2. w # s /\ Open(w) /\ tx'[w] = tx[w] /\ done' = done \cup {e}
    BY <1>2, <2>1
  <2>3. CASE f \in fetched
    <3>1. f.lock \in locks \ tx[w].locks
      BY <1>3, <2>1, <2>2, <2>3
    <3>2. \E in, out \in done :
            /\ f.lock.rid \in in.reads /\ "locks" \in out.writes
            /\ tx[w].start < out.commit /\ out.commit <= in.commit
            /\ in.writes = {} => out.commit <= in.start
      BY <2>2, <2>3, <3>1 DEF ReadInv, FetchedOK
    <3>3. QED
      BY <2>2, <3>2
  <2>4. CASE f \in tx[s].seen
    <3>1. f.lock.rid \in tx[s].reads /\ (f.lock \in tx[s].locks \/ f.lock.by = tx[s].xid)
      BY <1>6, <2>4 DEF WorkOK
    <3>2. CASE f.lock.by = tx[s].xid
      <4>1. f.lock \in tx[s].ins
        BY <1>3, <2>1, <3>2
      <4>2. "locks" \in e.writes /\ f.lock.rid \in e.reads /\ e \in done' /\ tx[w].start < e.commit
        BY <1>7, <2>2, <3>1, <4>1
      <4>3. QED
        BY <1>7, <2>2, <4>2
    <3>3. CASE f.lock.by # tx[s].xid
      <4>1. f.lock \in tx[s].locks \cap locks /\ f.lock \notin tx[w].locks
        BY <1>3, <2>1, <2>2, <3>1, <3>3
      <4>2. PICK d \in done : /\ "locks" \in d.writes
                              /\ tx[w].start < d.commit /\ d.commit <= tx[s].start
        BY <1>1, <2>2, <4>1 DEF ReadInv, MissedOK
      <4>3. d.commit <= e.start /\ d.commit <= e.commit /\ e \in done' /\ d \in done'
        BY <1>7, <2>2, <4>2
      <4>4. QED
        BY <1>7, <2>2, <3>1, <4>2, <4>3
    <3>4. QED
      BY <3>2, <3>3
  <2>5. QED
    BY <1>1, <2>1, <2>3, <2>4
<1>10. UnguardedOK'
  <2>1. SUFFICES ASSUME ~guarded, NEW f \in fetched' PROVE FALSE
    BY <1>1 DEF UnguardedOK
  <2>2. f.lock \in locks' /\ (f \in fetched \/ f \in tx[s].seen)
    BY <1>1
  <2>3. f \notin tx[s].seen
    BY <1>6, <2>1 DEF WorkOK
  <2>4. f.lock \in locks
    BY <1>3, <2>2, <2>3
  <2>5. QED
    BY <2>1, <2>2, <2>3, <2>4 DEF ReadInv, UnguardedOK
<1>11. QED
  BY <1>4, <1>5, <1>8, <1>9, <1>10

\* The rows s changed, for who has the row in its snapshot
LEMMA CommitKeepsRows ==
  ASSUME ReadInv, NEW s \in Sessions, Commits(s)
  PROVE  ChangedOK'
<1> DEFINE e == EndedBy(s)
           Explains(d, t, r, L, R) ==
             /\ r \in d.writes /\ "locks" \in d.reads /\ t.start < d.commit
             /\ \A l \in L : l.rid = r /\ Live(l, clock) =>
                  \/ l.authid \in R[r].tokens
                  \/ \E out \in done \cup {e} :
                       /\ "locks" \in out.writes /\ out.commit <= t.start
                       /\ d.start < out.commit /\ out.commit < d.commit
<1>1. SUFFICES ASSUME guarded, NEW t \in Sessions, NEW r \in Rows, Open(t)',
                      row'[r] # tx'[t].row[r]
               PROVE  \E d \in done \cup {e} : Explains(d, tx[t], r, tx[t].locks \cap locks', row')
  <2>1. UNCHANGED <<clock, guarded>>
    BY DEF Commits
  <2>2. \A t \in Sessions : Open(t)' => tx'[t] = tx[t] /\ done' = done \cup {e}
    BY DEF Commits
  <2>3. QED
    BY <1>1, <2>1, <2>2 DEF ChangedOK
<1>2. /\ Open(s) /\ t # s /\ tx'[t] = tx[t] /\ Open(t)
      /\ row'[r] = IF r \in tx[s].wrote THEN [ver |-> tx[s].xid, tokens |-> TokensAdded(s)]
                   ELSE row[r]
  BY <1>1 DEF Commits, Open
<1>3. \A l \in tx[t].locks \cap locks' : l \in locks /\ l \notin tx[s].del
  BY <1>2, OwnLocks
<1>4. CASE r \in tx[s].wrote
  <2>1. "locks" \in tx[s].reads
    <3>1. WorkOK(guarded, tx[s], Now(s)) /\ Now(s).wrote = tx[s].wrote
      BY <1>2 DEF ReadInv, WorksOK, Points, Now
    <3>2. QED
      BY <1>1, <1>4, <3>1 DEF WorkOK
  <2>2. r \in e.writes /\ "locks" \in e.reads /\ tx[t].start < e.commit /\ e.start = tx[s].start
    <3>1. r \in e.writes /\ "locks" \in e.reads
      BY <1>4, <2>1 DEF EndedBy
    <3>2. QED
      BY <1>2, <3>1, CommitNumbers
  <2>3. ASSUME NEW l \in tx[t].locks \cap locks', l.rid = r, Live(l, clock)
        PROVE  \/ l.authid \in row'[r].tokens
               \/ \E out \in done : /\ "locks" \in out.writes /\ out.commit <= tx[t].start
                                    /\ e.start < out.commit /\ out.commit < e.commit
    <3>1. CASE l \in tx[s].locks
      <4>1. l \in tx[s].locks \ tx[s].del
        BY <1>3, <2>3, <3>1
      <4>2. l.authid \in TokensAdded(s)
        BY <1>1, <1>2, <1>4, <2>3, <4>1, TokensKnown
      <4>3. QED
        BY <1>2, <1>4, <4>2
    <3>2. CASE l \notin tx[s].locks
      <4>1. l \in tx[t].locks \cap locks
        BY <1>3, <2>3
      <4>2. PICK out \in done : /\ "locks" \in out.writes
                                /\ tx[s].start < out.commit /\ out.commit <= tx[t].start
        BY <1>2, <3>2, <4>1 DEF ReadInv, MissedOK
      <4>3. out.commit < e.commit
        BY CommitNumbers
      <4>4. QED
        BY <2>2, <4>2, <4>3
    <3>3. QED
      BY <3>1, <3>2
  <2> HIDE DEF e
  <2>4. Explains(e, tx[t], r, tx[t].locks \cap locks', row')
    BY <2>2, <2>3
  <2> HIDE DEF Explains
  <2>5. QED
    BY <2>4
<1>5. CASE r \notin tx[s].wrote
  <2>1. row'[r] = row[r] /\ row[r] # tx[t].row[r]
    BY <1>1, <1>2, <1>5
  <2>2. PICK d \in done :
          /\ r \in d.writes /\ "locks" \in d.reads /\ tx[t].start < d.commit
          /\ \A l \in tx[t].locks \cap locks :
               l.rid = r /\ Live(l, clock) =>
                 \/ l.authid \in row[r].tokens
                 \/ \E out \in done :
                      /\ "locks" \in out.writes /\ out.commit <= tx[t].start
                      /\ d.start < out.commit /\ out.commit < d.commit
    BY <1>1, <1>2, <2>1 DEF ReadInv, ChangedOK
  <2> HIDE DEF e
  <2>3. Explains(d, tx[t], r, tx[t].locks \cap locks', row')
    BY <1>3, <2>1, <2>2
  <2> HIDE DEF Explains
  <2>4. QED
    BY <2>3
<1>6. QED
  BY <1>4, <1>5

\* What the holders read stays current
LEMMA CommitKeepsHolders ==
  ASSUME ReadInv, Serializable, NEW s \in Sessions, Commits(s)
  PROVE  HolderReadsStayCurrent'
<1> DEFINE e == EndedBy(s)
<1>1. SUFFICES ASSUME NEW f \in fetched', f.lock \in locks', Live(f.lock, clock)
               PROVE  \/ row'[f.lock.rid].ver \in {f.ver, f.reader}
                      \/ f.lock.authid \in row'[f.lock.rid].tokens
  <2>1. clock' = clock
    BY DEF Commits
  <2>2. QED
    BY <1>1, <2>1 DEF HolderReadsStayCurrent
<1> DEFINE r == f.lock.rid
<1>2. Open(s) /\ f \in fetched \cup tx[s].seen /\ UNCHANGED <<clock, guarded>>
  BY DEF Commits
<1>3. f \in Reading /\ r \in Rows
  <2>1. tx[s].seen \in SUBSET Reading
    BY <1>2, OpenTypes DEF ReadInv, LockInv, Transaction
  <2>2. f \in Reading
    BY <1>2, <2>1 DEF ReadInv, LockInv, Types
  <2>3. QED
    BY <2>2 DEF Reading, Lock
<1>4. row'[r] = IF r \in tx[s].wrote THEN [ver |-> tx[s].xid, tokens |-> TokensAdded(s)]
                ELSE row[r]
  BY <1>3 DEF Commits
<1>5. WorkOK(guarded, tx[s], Now(s)) /\ Now(s).wrote = tx[s].wrote /\ Now(s).seen = tx[s].seen
  BY <1>2 DEF ReadInv, WorksOK, Points, Now
<1>6. /\ e.start = tx[s].start /\ e.commit \in Nat /\ tx[s].start \in Nat /\ tx[s].start < e.commit
      /\ e.reads = tx[s].reads /\ tx[s].wrote \subseteq e.writes
      /\ (tx[s].ins # {} => "locks" \in e.writes)
      /\ \A d \in done : /\ d.start \in Nat /\ d.commit \in Nat
                         /\ d.start < d.commit /\ d.commit < e.commit /\ d # e
  BY CommitNumbers DEF EndedBy
<1>7. /\ f.lock.by # tx[s].xid => f.lock \in locks /\ f.lock \notin tx[s].del
      /\ f.lock.by = tx[s].xid => f.lock \in tx[s].ins
      /\ f \in fetched => f.lock.by # tx[s].xid
  BY <1>1, OwnLocks
<1> HIDE DEF e, r
<1>8. CASE f \in fetched /\ r \notin tx[s].wrote
  BY <1>1, <1>4, <1>7, <1>8 DEF ReadInv, HolderReadsStayCurrent, r
<1>9. CASE f \in fetched /\ r \in tx[s].wrote
  <2>1. f.lock \in locks /\ f.lock \notin tx[s].del /\ guarded /\ f.lock.rid = r
    BY <1>7, <1>9 DEF ReadInv, UnguardedOK, r
  <2>2. CASE f.lock \in tx[s].locks
    <3>1. f.lock.authid \in TokensAdded(s)
      BY <1>1, <1>2, <1>9, <2>1, <2>2, TokensKnown
    <3>2. QED
      BY <1>4, <1>9, <3>1 DEF r
  <2>3. CASE f.lock \notin tx[s].locks
    <3>1. PICK in \in done, out \in done :
            /\ f.lock.rid \in in.reads /\ "locks" \in out.writes
            /\ tx[s].start < out.commit /\ out.commit <= in.commit
            /\ in.writes = {} => out.commit <= in.start
      BY <1>2, <1>9, <2>1, <2>3 DEF ReadInv, FetchedOK
    <3>2. "locks" \in e.reads
      BY <1>5, <1>6, <1>9, <2>1 DEF WorkOK
    <3>3. /\ r \in in.reads \cap e.writes /\ "locks" \in e.reads \cap out.writes
          /\ in # e /\ e # out
          /\ in.start < e.commit /\ e.start < in.commit /\ e.start < out.commit
          /\ out.commit < e.commit
      <4>1. in.start < e.commit /\ e.start < in.commit
        BY <1>6, <3>1
      <4>2. QED
        BY <1>6, <1>9, <2>1, <3>1, <3>2, <4>1
    <3>4. QED
      BY <3>1, <3>3, Refused DEF e
  <2>4. QED
    BY <2>2, <2>3
<1>10. CASE f \in tx[s].seen
  <2>1. /\ guarded /\ f.reader = tx[s].xid /\ r \in tx[s].reads
        /\ f.lock \in tx[s].locks \/ f.lock.by = tx[s].xid
        /\ f.ver = tx[s].row[r].ver \/ r \in tx[s].wrote
    BY <1>5, <1>10 DEF WorkOK, r
  <2>2. CASE r \in tx[s].wrote
    BY <1>4, <2>1, <2>2 DEF r
  <2>3. CASE r \notin tx[s].wrote /\ row[r] = tx[s].row[r]
    BY <1>4, <2>1, <2>3 DEF r
  <2>4. CASE r \notin tx[s].wrote /\ row[r] # tx[s].row[r]
    <3>1. PICK d \in done :
            /\ r \in d.writes /\ "locks" \in d.reads /\ tx[s].start < d.commit
            /\ \A l \in tx[s].locks \cap locks :
                 l.rid = r /\ Live(l, clock) =>
                   \/ l.authid \in row[r].tokens
                   \/ \E out \in done :
                        /\ "locks" \in out.writes /\ out.commit <= tx[s].start
                        /\ d.start < out.commit /\ out.commit < d.commit
      BY <1>2, <1>3, <2>1, <2>4 DEF ReadInv, ChangedOK
    <3>2. d.start < e.commit /\ e.start < d.commit /\ d.commit < e.commit /\ d # e
          /\ r \in e.reads \cap d.writes
      BY <1>6, <2>1, <3>1
    <3>3. CASE f.lock.by = tx[s].xid
      <4>1. "locks" \in d.reads \cap e.writes /\ d.writes # {} /\ d.commit <= d.commit
        BY <1>6, <1>7, <3>1, <3>3
      <4>2. FALSE
        <5>1. d \in done \cup {e} /\ e \in done \cup {e} /\ d # e /\ e # d
          BY <3>2
        <5>2. QED
          BY <3>2, <4>1, <5>1, Refused DEF e
      <4>3. QED
        BY <4>2
    <3>4. CASE f.lock.by # tx[s].xid
      <4>1. f.lock \in tx[s].locks \cap locks /\ f.lock.rid = r
        BY <1>7, <2>1, <3>4 DEF r
      <4>2. CASE f.lock.authid \in row[r].tokens
        BY <1>4, <2>4, <4>2 DEF r
      <4>3. CASE f.lock.authid \notin row[r].tokens
        <5>1. PICK out \in done : /\ "locks" \in out.writes /\ out.commit <= tx[s].start
                                  /\ d.start < out.commit /\ out.commit < d.commit
          BY <1>1, <3>1, <4>1, <4>3
        <5>2. /\ "locks" \in d.reads \cap out.writes /\ e # d /\ d # out
              /\ out.commit <= e.commit /\ out.commit <= e.start
          BY <1>6, <3>1, <3>2, <5>1
        <5>3. FALSE
          BY <3>2, <5>1, <5>2, Refused DEF e
        <5>4. QED
          BY <5>3
      <4>4. QED
        BY <4>2, <4>3
    <3>5. QED
      BY <3>3, <3>4
  <2>5. QED
    BY <2>2, <2>3, <2>4
<1>11. QED
  BY <1>2, <1>8, <1>9, <1>10

\* The invariant holds when s has committed
LEMMA CommitKeepsReads ==
  ASSUME ReadInv, Serializable, NEW s \in Sessions, Commits(s), LockInv'
  PROVE  ReadInv'
BY CommitKeepsSnapshots, CommitKeepsRows, CommitKeepsHolders DEF ReadInv

-----------------------------------------------------------------------------
(* Every step.                                                             *)

\* What is good stays good when locks are deleted or inserted, and tokens are added
LEMMA WorkGrows ==
  ASSUME NEW on, NEW t, NEW p, NEW q, WorkOK(on, t, p),
         \A l \in q.ins : l.by = t.xid, p.del \subseteq q.del, q.del \subseteq t.locks,
         q.wrote = p.wrote, q.seen = p.seen, p.temp.rows \subseteq q.temp.rows
  PROVE  WorkOK(on, t, q)
<1>1. on => \A r \in q.wrote :
        /\ "locks" \in t.reads
        /\ \A l \in t.locks \ q.del :
             l.rid = r /\ Live(l, t.now) =>
               \E e \in q.temp.rows : e.transid \in t.ids /\ e.lockcode = l.authid
  BY DEF WorkOK
<1>2. \A f \in q.seen :
        /\ on /\ f.reader = t.xid /\ f.lock.rid \in t.reads
        /\ f.lock \in t.locks \/ f.lock.by = t.xid
        /\ f.ver = t.row[f.lock.rid].ver \/ f.lock.rid \in q.wrote
  BY DEF WorkOK
<1>3. QED
  BY <1>1, <1>2 DEF WorkOK

\* The present point before a statement is as good for the transaction after it
LEMMA PresentIsGood ==
  ASSUME ReadInv, NEW s \in Sessions, GoesOn(s)
  PROVE  /\ WorkOK(guarded, tx'[s], Now(s))
         /\ \A p \in Points(s) : WorkOK(guarded, tx'[s], p)
         /\ Now(s).ins = tx[s].ins /\ Now(s).del = tx[s].del /\ Now(s).wrote = tx[s].wrote
         /\ Now(s).seen = tx[s].seen /\ Now(s).temp = temp[s]
         /\ tx[s].sub \in tx[s].ids \cup {0} /\ tx[s].xid \in tx[s].ids
<1>1. /\ Open(s) /\ tx'[s].xid = tx[s].xid /\ tx'[s].now = tx[s].now
      /\ tx'[s].locks = tx[s].locks /\ tx'[s].row = tx[s].row
      /\ tx[s].reads \subseteq tx'[s].reads /\ tx[s].ids \subseteq tx'[s].ids
  BY DEF GoesOn
<1>2. \A p \in Points(s) : WorkOK(guarded, tx[s], p)
  BY <1>1 DEF ReadInv, WorksOK
<1>3. \A p \in Points(s) : WorkOK(guarded, tx'[s], p)
  BY <1>1, <1>2, WorkRemains
<1>4. QED
  BY <1>1, <1>3 DEF Points, Now, ReadInv, IdsOK

\* LockRow and UnlockRows delete locks of the snapshot or their own
LEMMA LockCallsKeepReads ==
  ASSUME ReadInv, Serializable, LockInv', NEW s \in Sessions, GoesOn(s), xid' = xid,
         tx'[s].ids = tx[s].ids, tx'[s].sub = tx[s].sub,
         NEW D \in SUBSET LocksSeen(s), NEW I, \A l \in I : l.by = tx[s].xid,
         Now(s)' = [ins |-> (tx[s].ins \ D) \cup I, del |-> tx[s].del \cup (D \ tx[s].ins),
                    wrote |-> tx[s].wrote, seen |-> tx[s].seen, temp |-> temp[s]],
         D \ tx[s].ins \subseteq tx[s].locks
  PROVE  ReadInv'
<1>1. /\ WorkOK(guarded, tx'[s], Now(s))
      /\ Now(s).ins = tx[s].ins /\ Now(s).del = tx[s].del /\ Now(s).wrote = tx[s].wrote
      /\ Now(s).seen = tx[s].seen /\ Now(s).temp = temp[s]
      /\ tx[s].sub \in tx[s].ids \cup {0}
  BY PresentIsGood
<1>2. /\ Now(s)'.ins = (tx[s].ins \ D) \cup I /\ Now(s)'.del = tx[s].del \cup (D \ tx[s].ins)
      /\ Now(s)'.wrote = tx[s].wrote /\ Now(s)'.seen = tx[s].seen /\ Now(s)'.temp = temp[s]
      /\ tx'[s].locks = tx[s].locks /\ tx'[s].xid = tx[s].xid
  BY DEF GoesOn
<1>3. (\A l \in tx[s].ins : l.by = tx'[s].xid) /\ tx[s].del \subseteq tx'[s].locks
  BY <1>1 DEF WorkOK
<1>4. /\ \A l \in Now(s)'.ins : l.by = tx'[s].xid
      /\ Now(s).del \subseteq Now(s)'.del /\ Now(s)'.del \subseteq tx'[s].locks
      /\ Now(s)'.wrote = Now(s).wrote /\ Now(s)'.seen = Now(s).seen
      /\ Now(s).temp.rows \subseteq Now(s)'.temp.rows
  BY <1>1, <1>2, <1>3
<1>5. WorkOK(guarded, tx'[s], Now(s)')
  BY <1>1, <1>4, WorkGrows
<1>6. QED
  BY <1>1, <1>5, GoesOnKeepsReads

\* The trigger lets through a transaction that has added the token of the locks it knows of
LEMMA ChangeKeepsReads ==
  ASSUME ReadInv, Serializable, LockInv', NEW s \in Sessions, NEW r \in Rows, Change(s, r)
  PROVE  ReadInv'
<1>1. CASE Open(s) /\ Abort(s)
  BY <1>1, AbortKeepsReads
<1>2. CASE ~(Open(s) /\ Abort(s))
  <2>1. /\ GoesOn(s) /\ xid' = xid /\ tx'[s].ids = tx[s].ids /\ tx'[s].sub = tx[s].sub
        /\ guarded => TRUE \in Authorized(s, r) /\ "locks" \in tx'[s].reads
        /\ Now(s)' = [ins |-> tx[s].ins, del |-> tx[s].del, wrote |-> tx[s].wrote \cup {r},
                      seen |-> tx[s].seen, temp |-> temp[s]]
    BY <1>2, ChangeCases DEF ReadInv, LockInv
  <2>2. /\ WorkOK(guarded, tx'[s], Now(s))
        /\ Now(s).ins = tx[s].ins /\ Now(s).del = tx[s].del /\ Now(s).wrote = tx[s].wrote
        /\ Now(s).seen = tx[s].seen /\ Now(s).temp = temp[s]
        /\ tx[s].sub \in tx[s].ids \cup {0} /\ tx[s].xid \in tx[s].ids
    BY <2>1, PresentIsGood
  <2>3. /\ Open(s) /\ tx'[s].locks = tx[s].locks /\ tx'[s].xid = tx[s].xid
        /\ tx'[s].now = tx[s].now
    BY <2>1 DEF GoesOn
  <2>4. ASSUME guarded, NEW l \in tx[s].locks \ tx[s].del, l.rid = r, Live(l, tx[s].now)
        PROVE  \E e \in temp[s].rows : e.transid \in tx[s].ids /\ e.lockcode = l.authid
    <3>1. l \in HeldOn(s, r)
      BY <2>4 DEF HeldOn, LocksSeen
    <3>2. TRUE \in {temp[s].made /\ k.authid \in TokensOf(s) : k \in HeldOn(s, r)}
      BY <2>1, <2>4, <3>1 DEF Authorized
    <3>3. PICK k \in HeldOn(s, r) : k.authid \in TokensOf(s)
      BY <3>2, Zenon
    <3>4. l.authid = k.authid
      <4>1. PointOK(tx[s], Now(s)) /\ LocksSeen(s) = After(tx[s], Now(s))
        BY <2>2, <2>3 DEF ReadInv, LockInv, PointsOK, Points, LocksSeen, After
      <4>2. QED
        BY <3>1, <3>3, <4>1 DEF PointOK, OneToken, HeldOn
    <3>5. CurrentXid(s) \in tx[s].ids
      BY <2>2 DEF CurrentXid
    <3>6. [transid |-> CurrentXid(s), lockcode |-> k.authid] \in temp[s].rows
      BY <3>3 DEF TokensOf
    <3>7. QED
      BY <3>4, <3>5, <3>6
  <2>5. /\ Now(s)'.ins = tx[s].ins /\ Now(s)'.del = tx[s].del
        /\ Now(s)'.wrote = tx[s].wrote \cup {r} /\ Now(s)'.seen = tx[s].seen
        /\ Now(s)'.temp = temp[s]
    BY <2>1
  <2>6. guarded => \A q \in Now(s)'.wrote :
          /\ "locks" \in tx'[s].reads
          /\ \A l \in tx'[s].locks \ Now(s)'.del :
               l.rid = q /\ Live(l, tx'[s].now) =>
                 \E e \in Now(s)'.temp.rows : e.transid \in tx'[s].ids /\ e.lockcode = l.authid
    <3>1. ASSUME guarded, NEW q \in tx[s].wrote
          PROVE  \A l \in tx'[s].locks \ tx[s].del :
                   l.rid = q /\ Live(l, tx'[s].now) =>
                     \E e \in temp[s].rows : e.transid \in tx'[s].ids /\ e.lockcode = l.authid
      BY <2>2, <3>1 DEF WorkOK
    <3>2. guarded => \A l \in tx'[s].locks \ tx[s].del :
                       l.rid = r /\ Live(l, tx'[s].now) =>
                         \E e \in temp[s].rows : e.transid \in tx'[s].ids /\ e.lockcode = l.authid
      BY <2>1, <2>3, <2>4
    <3>3. QED
      BY <2>1, <2>5, <3>1, <3>2
  <2>7. /\ \A l \in Now(s)'.ins : l.by = tx'[s].xid
        /\ Now(s)'.del \subseteq tx'[s].locks
        /\ \A f \in Now(s)'.seen :
             /\ guarded /\ f.reader = tx'[s].xid /\ f.lock.rid \in tx'[s].reads
             /\ f.lock \in tx'[s].locks \/ f.lock.by = tx'[s].xid
             /\ f.ver = tx'[s].row[f.lock.rid].ver \/ f.lock.rid \in Now(s)'.wrote
    BY <2>2, <2>5 DEF WorkOK
  <2>8. WorkOK(guarded, tx'[s], Now(s)')
    BY <2>6, <2>7 DEF WorkOK
  <2>9. QED
    BY <2>1, <2>2, <2>8, GoesOnKeepsReads
<1>3. QED
  BY <1>1, <1>2

\* A holder fetches what its snapshot has, or what it has written itself
LEMMA FetchKeepsReads ==
  ASSUME ReadInv, Serializable, LockInv', NEW s \in Sessions, NEW r \in Rows, Fetch(s, r)
  PROVE  ReadInv'
<1>1. /\ GoesOn(s) /\ xid' = xid /\ guarded
      /\ tx'[s].ids = tx[s].ids /\ tx'[s].sub = tx[s].sub /\ r \in tx'[s].reads
      /\ \E l \in HeldOn(s, r) :
           Now(s)' = [ins |-> tx[s].ins, del |-> tx[s].del, wrote |-> tx[s].wrote,
                      seen |-> tx[s].seen \cup {[lock |-> l, ver |-> VersionSeen(s, r),
                                                 reader |-> tx[s].xid]},
                      temp |-> temp[s]]
  BY FetchCases DEF ReadInv, LockInv
<1>2. PICK l \in HeldOn(s, r) :
           Now(s)' = [ins |-> tx[s].ins, del |-> tx[s].del, wrote |-> tx[s].wrote,
                      seen |-> tx[s].seen \cup {[lock |-> l, ver |-> VersionSeen(s, r),
                                                 reader |-> tx[s].xid]},
                      temp |-> temp[s]]
  BY <1>1
<1>3. /\ WorkOK(guarded, tx'[s], Now(s))
      /\ Now(s).ins = tx[s].ins /\ Now(s).del = tx[s].del /\ Now(s).wrote = tx[s].wrote
      /\ Now(s).seen = tx[s].seen /\ Now(s).temp = temp[s]
      /\ tx[s].sub \in tx[s].ids \cup {0}
  BY <1>1, PresentIsGood
<1>4. /\ tx'[s].locks = tx[s].locks /\ tx'[s].xid = tx[s].xid /\ tx'[s].row = tx[s].row
  BY <1>1 DEF GoesOn
<1> DEFINE f == [lock |-> l, ver |-> VersionSeen(s, r), reader |-> tx[s].xid]
<1>5. /\ guarded /\ f.reader = tx'[s].xid /\ f.lock.rid \in tx'[s].reads
      /\ f.lock \in tx'[s].locks \/ f.lock.by = tx'[s].xid
      /\ f.ver = tx'[s].row[f.lock.rid].ver \/ f.lock.rid \in tx[s].wrote
  <2>1. l \in LocksSeen(s) /\ l.rid = r
    BY DEF HeldOn
  <2>2. l \in tx[s].locks \/ l \in tx[s].ins
    BY <2>1 DEF LocksSeen
  <2>3. \A k \in tx[s].ins : k.by = tx'[s].xid
    BY <1>3 DEF WorkOK
  <2>4. VersionSeen(s, r) = tx[s].row[r].ver \/ r \in tx[s].wrote
    BY DEF VersionSeen
  <2>5. QED
    BY <1>1, <1>4, <2>1, <2>2, <2>3, <2>4
<1>6. /\ Now(s)'.ins = tx[s].ins /\ Now(s)'.del = tx[s].del /\ Now(s)'.wrote = tx[s].wrote
      /\ Now(s)'.seen = tx[s].seen \cup {f} /\ Now(s)'.temp = temp[s]
  BY <1>2
<1> HIDE DEF f
<1>7. \A g \in Now(s)'.seen :
        /\ guarded /\ g.reader = tx'[s].xid /\ g.lock.rid \in tx'[s].reads
        /\ g.lock \in tx'[s].locks \/ g.lock.by = tx'[s].xid
        /\ g.ver = tx'[s].row[g.lock.rid].ver \/ g.lock.rid \in Now(s)'.wrote
  BY <1>3, <1>5, <1>6 DEF WorkOK
<1>8. /\ \A k \in Now(s)'.ins : k.by = tx'[s].xid
      /\ Now(s)'.del \subseteq tx'[s].locks
      /\ guarded => \A q \in Now(s)'.wrote :
          /\ "locks" \in tx'[s].reads
          /\ \A k \in tx'[s].locks \ Now(s)'.del :
               k.rid = q /\ Live(k, tx'[s].now) =>
                 \E e \in Now(s)'.temp.rows : e.transid \in tx'[s].ids /\ e.lockcode = k.authid
  BY <1>3, <1>6 DEF WorkOK
<1>9. WorkOK(guarded, tx'[s], Now(s)')
  BY <1>7, <1>8 DEF WorkOK
<1>10. QED
  BY <1>1, <1>3, <1>9, GoesOnKeepsReads

\* Every step preserves the invariant
LEMMA NextKeepsReads ==
  ASSUME ReadInv, Serializable, [Next]_vars
  PROVE  ReadInv'
<1> USE DEF ReadInv
<1>1. LockInv' /\ LockInv /\ Types
  BY NextKeepsLocks DEF LockInv
<1> USE <1>1
<1>2. CASE UNCHANGED vars
  <2>1. UNCHANGED <<clock, xid, locks, row, temp, enabled, guarded, tx, done, fetched>>
    BY <1>2 DEF vars
  <2>2. \A s : (Open(s)' <=> Open(s)) /\ Points(s)' = Points(s)
    BY <2>1 DEF Open, Points, Now
  <2>3. IdsOK' /\ WorksOK'
    BY <2>1, <2>2 DEF IdsOK, WorksOK
  <2>4. MissedOK' /\ FetchedOK' /\ ChangedOK'
    BY <2>1, <2>2 DEF MissedOK, FetchedOK, ChangedOK
  <2>5. UnguardedOK' /\ HolderReadsStayCurrent'
    BY <2>1 DEF UnguardedOK, HolderReadsStayCurrent
  <2>6. QED
    BY <2>3, <2>4, <2>5
<1>3. ASSUME NEW s \in Sessions, Begin(s) PROVE ReadInv'
  BY <1>3, BeginKeepsReads
<1>4. ASSUME NEW s \in Sessions, Commit(s) PROVE ReadInv'
  BY <1>4, CommitCases, CommitKeepsReads, AbortKeepsReads
<1>5. ASSUME NEW s \in Sessions, Rollback(s) PROVE ReadInv'
  BY <1>5, AbortKeepsReads DEF Rollback
<1>6. ASSUME NEW s \in Sessions, Savepoint(s) \/ ReleaseSavepoint(s) \/ RollbackToSavepoint(s)
      PROVE  ReadInv'
  <2>1. /\ GoesOn(s) /\ Rewinds(s) /\ (xid' = xid \/ xid' = xid + 1)
        /\ tx'[s].sub \in tx'[s].ids \cup {0}
    BY <1>6, SavepointGoesOn, ReleaseGoesOn, RollbackToGoesOn
  <2>2. WorkOK(guarded, tx'[s], Now(s)')
    BY <2>1, PresentIsGood DEF Rewinds
  <2>3. QED
    BY <2>1, <2>2, GoesOnKeepsReads
<1>7. ASSUME NEW s \in Sessions, NEW r \in Rows, NEW a \in Tokens,
             NEW expires \in clock .. MaxClock, LockRow(s, r, a, expires)
      PROVE  ReadInv'
  <2>1. CASE Open(s) /\ Abort(s)
    BY <2>1, AbortKeepsReads
  <2>2. CASE ~(Open(s) /\ Abort(s))
    <3>1. /\ GoesOn(s) /\ xid' = xid
          /\ tx'[s].ids = tx[s].ids /\ tx'[s].sub = tx[s].sub
          /\ \E D \in SUBSET LocksSeen(s), I \in SUBSET Lock :
               /\ \A l \in I : l.rid = r /\ l.by = tx[s].xid
               /\ \A k, l \in I : k = l
               /\ I # {} => HeldOn(s, r) = {}
               /\ tx'[s].reads = tx[s].reads \cup {"locks"}
               /\ Now(s)' = [ins |-> (tx[s].ins \ D) \cup I, del |-> tx[s].del \cup (D \ tx[s].ins),
                             wrote |-> tx[s].wrote, seen |-> tx[s].seen, temp |-> temp[s]]
               /\ (Serializable => D \ tx[s].ins \subseteq tx[s].locks)
      BY <1>7, <2>2, LockRowCases
    <3>2. QED
      BY <3>1, LockCallsKeepReads
  <2>3. QED
    BY <2>1, <2>2
<1>8. ASSUME NEW s \in Sessions, NEW a \in Tokens, UnlockRows(s, a) PROVE ReadInv'
  <2>1. CASE Open(s) /\ Abort(s)
    BY <2>1, AbortKeepsReads
  <2>2. CASE ~(Open(s) /\ Abort(s))
    <3>1. /\ GoesOn(s) /\ xid' = xid
          /\ tx'[s].ids = tx[s].ids /\ tx'[s].sub = tx[s].sub
          /\ \E D \in SUBSET LocksSeen(s) :
               /\ tx'[s].reads = tx[s].reads \cup {"locks"}
               /\ Now(s)' = [ins |-> tx[s].ins \ D, del |-> tx[s].del \cup (D \ tx[s].ins),
                             wrote |-> tx[s].wrote, seen |-> tx[s].seen, temp |-> temp[s]]
               /\ (Serializable => D \ tx[s].ins \subseteq tx[s].locks)
      BY <1>8, <2>2, UnlockRowsCases
    <3>2. PICK D \in SUBSET LocksSeen(s) :
            /\ Now(s)' = [ins |-> tx[s].ins \ D, del |-> tx[s].del \cup (D \ tx[s].ins),
                          wrote |-> tx[s].wrote, seen |-> tx[s].seen, temp |-> temp[s]]
            /\ D \ tx[s].ins \subseteq tx[s].locks
      BY <3>1
    <3> DEFINE I == {}
    <3>3. (\A l \in I : l.by = tx[s].xid) /\ tx[s].ins \ D = (tx[s].ins \ D) \cup I
      OBVIOUS
    <3> HIDE DEF I
    <3>4. Now(s)' = [ins |-> (tx[s].ins \ D) \cup I, del |-> tx[s].del \cup (D \ tx[s].ins),
                     wrote |-> tx[s].wrote, seen |-> tx[s].seen, temp |-> temp[s]]
      BY <3>2, <3>3
    <3>5. QED
      BY <3>1, <3>2, <3>3, <3>4, LockCallsKeepReads
  <2>3. QED
    BY <2>1, <2>2
<1>9. ASSUME NEW s \in Sessions, NEW a \in Tokens, AddAuth(s, a) PROVE ReadInv'
  <2>1. Open(s)
    BY <1>9 DEF AddAuth
  <2>2. CurrentXid(s) \in 1 .. MaxXid
    <3>1. tx[s].xid \in 1 .. MaxXid /\ tx[s].sub \in 0 .. MaxXid
      BY <2>1, OpenTypes DEF Transaction
    <3>2. QED
      BY <3>1, TimeBounds DEF CurrentXid
  <2>3. CASE Abort(s)
    BY <2>1, <2>3, AbortKeepsReads
  <2>4. CASE ~Abort(s)
    <3>1. /\ GoesOn(s) /\ xid' = xid /\ tx'[s] = tx[s]
          /\ temp[s].rows \subseteq temp'[s].rows
          /\ Now(s)' = [Now(s) EXCEPT !.temp = temp'[s]]
      BY <1>9, <2>1, <2>2, <2>4, AddAuthCases
    <3>2. /\ WorkOK(guarded, tx'[s], Now(s))
          /\ Now(s).ins = tx[s].ins /\ Now(s).del = tx[s].del
          /\ Now(s).temp = temp[s] /\ tx[s].sub \in tx[s].ids \cup {0}
      BY <3>1, PresentIsGood
    <3>3. /\ Now(s)'.ins = Now(s).ins /\ Now(s)'.del = Now(s).del
          /\ Now(s)'.wrote = Now(s).wrote /\ Now(s)'.seen = Now(s).seen
          /\ Now(s)'.temp = temp'[s]
      BY <3>1 DEF Now
    <3>4. (\A l \in Now(s).ins : l.by = tx'[s].xid) /\ Now(s).del \subseteq tx'[s].locks
      BY <3>2 DEF WorkOK
    <3>5. Now(s).temp.rows \subseteq Now(s)'.temp.rows
      BY <3>1, <3>2, <3>3
    <3>6. WorkOK(guarded, tx'[s], Now(s)')
      BY <3>2, <3>3, <3>4, <3>5, WorkGrows
    <3>7. QED
      BY <3>1, <3>2, <3>6, GoesOnKeepsReads
  <2>5. QED
    BY <2>3, <2>4
<1>10. ASSUME NEW s \in Sessions, NEW r \in Rows, Change(s, r) PROVE ReadInv'
  BY <1>10, ChangeKeepsReads
<1>11. ASSUME NEW s \in Sessions, NEW r \in Rows, Fetch(s, r) PROVE ReadInv'
  BY <1>11, FetchKeepsReads
<1>12. ASSUME NEW s \in Sessions, Disconnect(s) PROVE ReadInv'
  <2>1. /\ ~Open(s) /\ temp' = [temp EXCEPT ![s] = NoTable]
        /\ UNCHANGED <<clock, xid, locks, row, enabled, guarded, tx, done, fetched>>
    BY <1>12 DEF Disconnect
  <2>2. \A o \in Sessions \ {s} : temp'[o] = temp[o]
    BY <2>1 DEF Types
  <2>3. \A o \in Sessions : Open(o)' => Open(o) /\ tx'[o] = tx[o] /\ Points(o)' = Points(o)
    BY <2>1, <2>2, Untouched DEF Open
  <2>4. IdsOK' /\ WorksOK'
    BY <2>1, <2>3 DEF IdsOK, WorksOK
  <2>5. MissedOK' /\ FetchedOK' /\ ChangedOK'
    BY <2>1, <2>3 DEF MissedOK, FetchedOK, ChangedOK
  <2>6. UnguardedOK' /\ HolderReadsStayCurrent'
    BY <2>1 DEF UnguardedOK, HolderReadsStayCurrent
  <2>7. QED
    BY <2>4, <2>5, <2>6
<1>13. CASE EnableLongTransactions \/ CheckAuth \/ DisableLongTransactions
  <2>1. /\ \A s \in Sessions : ~Open(s)
        /\ UNCHANGED <<clock, xid, row, temp, tx, done, fetched>>
        /\ locks' = {} \/ (locks' = locks /\ (guarded' = guarded \/ guarded'))
    BY <1>13 DEF EnableLongTransactions, CheckAuth, DisableLongTransactions, Quiet
  <2>2. \A s \in Sessions : ~Open(s)'
    BY <2>1 DEF Open
  <2>3. UnguardedOK' /\ HolderReadsStayCurrent'
    BY <2>1 DEF UnguardedOK, HolderReadsStayCurrent
  <2>4. IdsOK' /\ WorksOK' /\ MissedOK' /\ FetchedOK' /\ ChangedOK'
    BY <2>1, <2>2 DEF IdsOK, WorksOK, MissedOK, FetchedOK, ChangedOK
  <2>5. QED
    BY <2>3, <2>4
<1>14. CASE Tick
  <2>1. /\ clock' = clock + 1
        /\ UNCHANGED <<xid, locks, row, temp, enabled, guarded, tx, done, fetched>>
    BY <1>14 DEF Tick
  <2>2. \A l \in locks : Live(l, clock') => Live(l, clock)
    <3>1. clock \in Nat /\ \A l \in locks : l.expires \in Nat
      BY TimeBounds DEF Types, Lock
    <3>2. QED
      BY <2>1, <3>1 DEF Live
  <2>3. \A s : (Open(s)' <=> Open(s)) /\ Points(s)' = Points(s)
    BY <2>1 DEF Open, Points, Now
  <2>4. IdsOK' /\ WorksOK' /\ MissedOK' /\ FetchedOK' /\ UnguardedOK'
    BY <2>1, <2>3 DEF IdsOK, WorksOK, MissedOK, FetchedOK, UnguardedOK
  <2>5. ChangedOK'
    BY <2>1, <2>2, <2>3 DEF ChangedOK
  <2>6. HolderReadsStayCurrent'
    BY <2>1, <2>2 DEF HolderReadsStayCurrent
  <2>7. QED
    BY <2>4, <2>5, <2>6
<1>15. QED
  BY <1>2, <1>3, <1>4, <1>5, <1>6, <1>7, <1>8, <1>9, <1>10, <1>11, <1>12, <1>13, <1>14 DEF Next

\* Nothing is locked, fetched or open at first
LEMMA InitialReads ==
  ASSUME Init
  PROVE  ReadInv
<1>1. LockInv /\ (\A s \in Sessions : ~Open(s)) /\ locks = {} /\ fetched = {}
  BY InitialLocks DEF Init, Open, Idle
<1>2. IdsOK /\ WorksOK /\ MissedOK /\ FetchedOK /\ ChangedOK /\ UnguardedOK
  BY <1>1 DEF IdsOK, WorksOK, MissedOK, FetchedOK, ChangedOK, UnguardedOK
<1>3. HolderReadsStayCurrent
  BY <1>1 DEF HolderReadsStayCurrent
<1>4. QED
  BY <1>1, <1>2, <1>3 DEF ReadInv
-----------------------------------------------------------------------------
(* Theorem.                                                                *)

\* What the holder of a lock reads of the row stays current while the lock lives, unless a
\* transaction with the token of the lock changes it: check_authorization is enough, though
\* its query sees only the locks of a snapshot
THEOREM HolderReadsStay ==
  ASSUME Serializable
  PROVE  Spec => []HolderReadsStayCurrent
<1>1. Init => ReadInv
  BY InitialReads
<1>2. ReadInv /\ [Next]_vars => ReadInv'
  BY NextKeepsReads
<1>3. ReadInv => HolderReadsStayCurrent
  BY DEF ReadInv
<1>4. QED
  BY <1>1, <1>2, <1>3, PTL DEF Spec
=============================================================================
