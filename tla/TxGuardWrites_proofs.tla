------------------------ MODULE TxGuardWrites_proofs ------------------------
(***************************************************************************)
(* What becomes of the writes of a transaction: WritesAreWhole,            *)
(* CommitIsTrue and the refinement of AtomicTx, for every backend whose    *)
(* connections serve their requests in order.                              *)
(*                                                                         *)
(* IInv says who may use a connection.  What it leaves open comes first:   *)
(* the requests on the wires, and where a transaction is.  The actions of  *)
(* TxGuard are brought to a few step shapes, and the invariants are proved *)
(* of those.                                                               *)
(***************************************************************************)
EXTENDS TxGuard_proofs

-----------------------------------------------------------------------------
(* What is on the wires. *)

Requests(c) == {wire[c][i] : i \in DOMAIN wire[c]}

\* A request is one its call asks, still awaited or abandoned.
Asks(q) ==
  /\ q.op # "GUARD" => at[q.f] \in {q.op, "cancelled"}
  /\ at[q.f] = q.op => row[q.f] = q.n
  /\ kind[q.f] = "begin"    => q.op \in {"BEGIN", "ROLLBACK", "GUARD"}
  /\ kind[q.f] = "stmt"     => q.op = "WRITE" /\ q.n = 1
  /\ kind[q.f] = "commit"   => q.op = "COMMIT"
  /\ kind[q.f] = "rollback" => q.op = "ROLLBACK"
  /\ kind[q.f] = "auto"     => q.op \in {"WRITE", "COMMIT"}
  /\ kind[q.f] = "script"   => q.op # "GUARD"

Asked == \A c \in Conns : \A q \in Requests(c) : Asks(q)

\* After COMMIT or ROLLBACK nothing is sent but a guard's ROLLBACK; nobody else's request
\* follows a BEGIN, or anything on Oracle; a call has one request on a wire, and its guard's.
InTurn == \A c \in Conns : \A i, j \in DOMAIN wire[c] : i < j =>
  /\ wire[c][i].f = wire[c][j].f => wire[c][j].op = "GUARD"
  /\ wire[c][i].op \in {"COMMIT", "ROLLBACK"} => wire[c][j].op = "GUARD"
  /\ wire[c][i].op = "BEGIN" \/ ImplicitBegin => tx[wire[c][i].f] = tx[wire[c][j].f]

\* Whoever holds a connection awaits the COMMIT or ROLLBACK on it.
StillAwaited == \A c \in Conns : hold[c] \in Calls =>
  \A q \in Requests(c) : q.op \in {"COMMIT", "ROLLBACK"} => at[q.f] = q.op

\* Once the last request is answered the wire is empty.
AnsweredLast == \A c \in Conns : \A f \in Calls :
  at[f] \in Awaited /\ ans[f] # "none" /\ hold[c] = tx[f] => wire[c] = <<>>

\* Only autocommit statements are left behind on a connection of the pool.
OnlyWrites == ClosesBroken => \A c \in Conns :
  hold[c] = "pool" \/ (hold[c] \in Calls /\ kind[hold[c]] = "auto") =>
    \A q \in Requests(c) : q.op = "WRITE"

\* One call at a time ends a transaction, and it holds the connection.
OneControl == \A f \in Calls : at[f] \in {"COMMIT", "ROLLBACK"} =>
  /\ \A g \in Calls : at[g] \in {"COMMIT", "ROLLBACK"} /\ tx[g] = tx[f] => g = f
  /\ \E c \in Conns : hold[c] = tx[f]

\* A batch begins with no row, a script has one statement.
RowShape == \A f \in Calls :
  /\ kind[f] = "many" /\ at[f] = "BEGIN" => row[f] = 0
  /\ kind[f] = "script" /\ at[f] = "WRITE" => row[f] = 1

WireInv ==
  /\ Asked /\ InTurn /\ StillAwaited /\ AnsweredLast /\ OnlyWrites /\ OneControl /\ RowShape

-----------------------------------------------------------------------------
(* Where a transaction is. *)

\* Connection c has to do with transaction h: h holds it, is open on it, or has a
\* request on its wire.
Site(c, h) == hold[c] = h \/ session[c] = h \/ \E q \in Requests(c) : tx[q.f] = h

\* A transaction is on one connection at most, and on none before its checkout.
OneSite == \A h \in Calls :
  /\ \A c, d \in Conns : Site(c, h) /\ Site(d, h) => c = d
  /\ at[h] \in {"new", "get"} => \A c \in Conns : ~Site(c, h)

Over(h) == \A c \in Conns : ~Site(c, h)

\* A transaction its caller was told the end of is nowhere any more.
ToldOver == \A f \in Calls : Answered(f, "ok") =>
  /\ kind[f] \in {"commit", "rollback"} => Over(tx[f])
  /\ kind[f] \in {"auto", "many"} => Over(f)

\* The uncommitted writes of a session and the requests on its wire are its own.
OwnWork == \A c \in Conns :
  /\ session[c] = "none" => work[c] = {} /\ ~failed[c]
  /\ \A w \in work[c] : w.of = session[c]
  /\ session[c] # "none" => \A q \in Requests(c) : tx[q.f] = session[c]

-----------------------------------------------------------------------------
(* The steps that leave sessions and storage alone change one call, and do one of    *)
(* three things to the connections.                                                 *)

Quiet(f) ==
  /\ UNCHANGED <<session, work, failed, alive, storeVars>>
  /\ \A g \in Calls \ {f} :
       kind'[g] = kind[g] /\ tx'[g] = tx[g] /\ at'[g] = at[g] /\ ans'[g] = ans[g] /\ row'[g] = row[g]

Kept(f) == kind' = kind /\ tx' = tx /\ row' = row

\* f is asked for.
Born(f) ==
  /\ Quiet(f) /\ UNCHANGED <<hold, wire>> /\ at[f] = "new" /\ kind[f] = "none"
  /\ \/ at'[f] = "get" /\ kind'[f] \in Pooled /\ tx'[f] = f
     \/ /\ at'[f] = "lock" /\ kind'[f] \in {"stmt", "commit", "rollback"}
        /\ tx'[f] \in Calls \ {f} /\ kind[tx'[f]] = "begin" /\ at[tx'[f]] = "handle"

\* f goes on without its connection.
Moves(f) ==
  /\ Quiet(f) /\ Kept(f) /\ UNCHANGED <<hold, wire>>
  /\ \/ at[f] \in {"get", "lock"} /\ at'[f] = "done" /\ ans'[f] = "err"
     \/ at[f] \in {"get", "lock"} /\ at'[f] = "cancelled" /\ ans'[f] = "none"
     \/ at[f] = "droplock" /\ at'[f] = "done" /\ kind[f] = "begin"
     \/ at[f] = "handle" /\ at'[f] = "droplock" /\ kind[f] = "begin"
     \/ /\ at[f] = "BEGIN" /\ at'[f] = "handle" /\ kind[f] = "begin" /\ ans[f] = "ok"
        /\ \E c \in Conns : hold[c] = f
     \/ /\ at[f] = "WRITE" /\ kind[f] = "stmt"
        /\ \/ at'[f] = "done" /\ ans'[f] = ans[f] /\ ans[f] # "none"
           \/ at'[f] = "cancelled" /\ ans'[f] = "none"

\* What a call may send next.
MaySend(f, op, n) ==
  \/ /\ at[f] = "lock" /\ kind[tx[f]] = "begin" /\ HasInner(tx[f])
     /\ \/ kind[f] = "stmt" /\ op = "WRITE" /\ n = 1
        \/ kind[f] = "commit" /\ op = "COMMIT"
        \/ kind[f] = "rollback" /\ op = "ROLLBACK"
  \/ /\ at[f] = "droplock" /\ kind[f] = "begin" /\ tx[f] = f /\ HasInner(f) /\ op = "ROLLBACK"
  \/ /\ kind[f] = "auto" /\ tx[f] = f /\ at[f] = "WRITE" /\ ans[f] = "ok" /\ ImplicitBegin
     /\ op = "COMMIT"
  \/ /\ kind[f] = "many" /\ tx[f] = f /\ at[f] \in Awaited /\ ans[f] # "none"
     /\ \/ op = "WRITE" /\ at[f] \in {"BEGIN", "WRITE"} /\ ans[f] = "ok" /\ n = row[f] + 1
        \/ op = "COMMIT" /\ at[f] \in {"BEGIN", "WRITE"} /\ ans[f] = "ok" /\ row[f] = BatchRows
        \/ op = "ROLLBACK"
  \/ /\ kind[f] = "script" /\ tx[f] = f /\ at[f] \in Awaited /\ ans[f] # "none"
     /\ \/ op = "WRITE" /\ at[f] \in {"BEGIN", "WRITE"} /\ row[f] = 0 /\ n = 1
        \/ op \in {"COMMIT", "ROLLBACK"}

\* f sends a request on the connection of its transaction, for which nobody else awaits
\* anything.
Sends(f, c, op, n) ==
  /\ Quiet(f) /\ UNCHANGED <<kind, tx, hold>>
  /\ hold[c] = tx[f] /\ Send(f, c, op, n) /\ MaySend(f, op, n) /\ n \in 0 .. BatchRows
  /\ \A g \in Calls \ {f} : tx[g] = tx[f] => at[g] \notin Awaited

\* Where transaction h leaves its connection.
Leaves(h, c) ==
  /\ \A d \in Conns \ {c} : hold'[d] = hold[d] /\ wire'[d] = wire[d]
  /\ \/ /\ hold'[c] = "guard" /\ kind[h] \in {"begin", "many"} /\ tx[h] = h
        /\ wire'[c] = Append(wire[c], [op |-> "GUARD", f |-> h, n |-> 0])
     \/ hold'[c] = "closed" /\ wire'[c] = wire[c]
     \/ /\ hold'[c] = "pool" /\ wire'[c] = wire[c]
        /\ ClosesBroken => \A q \in Requests(c) : q.op = "WRITE"

\* The work of f succeeded: its last request did.
Good(f) == ans[f] = "ok" /\ (at[f] \in {"COMMIT", "ROLLBACK"} \/ (kind[f] = "auto" /\ ~ImplicitBegin))

\* f is over and gives the connection of its transaction up.
GivesUp(f, c) ==
  /\ Quiet(f) /\ Kept(f) /\ hold[c] = tx[f]
  /\ at[f] \in Awaited /\ kind[f] # "stmt"
  /\ \/ /\ at'[f] = "done" /\ ans[f] # "none"
        /\ ans'[f] = "ok" => Good(f) /\ hold'[c] # "guard"
     \/ at'[f] = "cancelled" /\ ans'[f] = "none" /\ kind[f] # "script"
  /\ Leaves(tx[f], c)

-----------------------------------------------------------------------------
(* Every such step has one of the three shapes. *)

\* Send and Finish change one call.
LEMMA SendFacts ==
  ASSUME TypeOK, NEW f \in Calls, NEW c \in Conns, NEW op, NEW n, Send(f, c, op, n)
  PROVE  /\ at'[f] = op /\ row'[f] = n
         /\ \A g \in Calls \ {f} : at'[g] = at[g] /\ ans'[g] = ans[g] /\ row'[g] = row[g]
         /\ \A d \in Conns \ {c} : wire'[d] = wire[d]
         /\ alive[c] => /\ ans'[f] = "none"
                        /\ wire'[c] = Append(wire[c], [op |-> op, f |-> f, n |-> n])
         /\ ~alive[c] => ans'[f] = "err" /\ wire'[c] = wire[c]
<1>1. CASE alive[c]
  BY <1>1 DEF Send, TypeOK
<1>2. CASE ~alive[c]
  BY <1>2 DEF Send, TypeOK
<1> QED
  BY <1>1, <1>2

LEMMA FinishFacts ==
  ASSUME TypeOK, NEW f \in Calls, NEW r, Finish(f, r)
  PROVE  /\ at'[f] = "done" /\ ans'[f] = r /\ row' = row
         /\ \A g \in Calls \ {f} : at'[g] = at[g] /\ ans'[g] = ans[g] /\ row'[g] = row[g]
BY DEF Finish, TypeOK

\* A call of the Python layer is new, and no other call works on it yet.
LEMMA AskShape ==
  ASSUME IInv, NEW f \in Calls, Ask(f)
  PROVE  Born(f)
<1>1. TypeOK /\ CallShape
  BY DEF IInv
<1>2. at[f] = "new" /\ kind[f] = "none" /\ tx[f] = f
  <2>1. at[f] = "new"
    BY DEF Ask, AskPooled, AskTx
  <2> QED
    BY <1>1, <2>1, KindAt DEF CallShape
<1>3. CASE \E k \in Pooled : AskPooled(f, k)
  <2>1. PICK k \in Pooled : AskPooled(f, k)
    BY <1>3
  <2>2. /\ kind' = [kind EXCEPT ![f] = k] /\ at' = [at EXCEPT ![f] = "get"]
        /\ UNCHANGED <<tx, ans, row, connVars, closed, storeVars>>
    BY <2>1 DEF AskPooled
  <2> QED
    BY <1>1, <1>2, <2>2 DEF Born, Quiet, TypeOK, connVars, storeVars
<1>4. CASE \E k \in {"stmt", "commit", "rollback"}, h \in Calls : AskTx(f, k, h)
  <2>1. PICK k \in {"stmt", "commit", "rollback"}, h \in Calls : AskTx(f, k, h)
    BY <1>4
  <2>2. /\ kind' = [kind EXCEPT ![f] = k] /\ at' = [at EXCEPT ![f] = "lock"]
        /\ tx' = [tx EXCEPT ![f] = h] /\ kind[h] = "begin" /\ at[h] = "handle"
        /\ UNCHANGED <<ans, row, connVars, closed, storeVars>>
    BY <2>1 DEF AskTx
  <2>3. h # f
    BY <1>2, <2>2
  <2> QED
    BY <1>1, <1>2, <2>2, <2>3 DEF Born, Quiet, TypeOK, connVars, storeVars
<1> QED
  BY <1>3, <1>4 DEF Ask

\* Calls that do not touch their connection.
LEMMA MoveShape ==
  ASSUME IInv, NEW f \in Calls, GetFails(f) \/ StmtReply(f) \/ DropHandle(f)
  PROVE  Moves(f)
<1>1. TypeOK /\ CallShape
  BY DEF IInv
<1>2. CASE GetFails(f)
  <2>1. at[f] = "get" /\ Finish(f, "err") /\ UNCHANGED <<kind, tx, connVars, storeVars>>
    BY <1>2 DEF GetFails
  <2> QED
    BY <1>1, <2>1, FinishFacts DEF Moves, Quiet, Kept, connVars
<1>3. CASE StmtReply(f)
  <2>1. /\ kind[f] = "stmt" /\ at[f] = "WRITE" /\ ans[f] # "none"
        /\ Finish(f, ans[f]) /\ UNCHANGED <<kind, tx, connVars, storeVars>>
    BY <1>3 DEF StmtReply
  <2> QED
    BY <1>1, <2>1, FinishFacts DEF Moves, Quiet, Kept, connVars
<1>4. CASE DropHandle(f)
  <2>1. /\ at[f] = "handle" /\ at' = [at EXCEPT ![f] = "droplock"]
        /\ UNCHANGED <<kind, tx, ans, row, connVars, storeVars>>
    BY <1>4 DEF DropHandle
  <2>2. kind[f] = "begin"
    BY <1>1, <2>1, KindAt
  <2>3. at'[f] = "droplock" /\ \A g \in Calls \ {f} : at'[g] = at[g]
    BY <1>1, <2>1 DEF TypeOK
  <2> QED
    BY <2>1, <2>2, <2>3 DEF Moves, Quiet, Kept, connVars
<1> QED
  BY <1>2, <1>3, <1>4

\* A call that gets the mutex.
LEMMA LockShape ==
  ASSUME IInv, NEW f \in Calls, LockAcquired(f)
  PROVE  Moves(f) \/ \E c \in Conns, op \in Awaited, n \in Nat : Sends(f, c, op, n)
<1>1. TypeOK /\ CallShape
  BY DEF IInv
<1>2. /\ at[f] = "lock" /\ LockFree(tx[f])
      /\ UNCHANGED <<kind, tx, hold, session, work, failed, alive, closed, storeVars>>
  BY DEF LockAcquired
<1>3. CASE HasInner(tx[f])
  <2>1. PICK c \in Conns :
          /\ hold[c] = tx[f]
          /\ \/ kind[f] = "stmt" /\ Send(f, c, "WRITE", 1)
             \/ kind[f] = "commit" /\ Send(f, c, "COMMIT", 0)
             \/ kind[f] = "rollback" /\ Send(f, c, "ROLLBACK", 0)
    BY <1>3 DEF LockAcquired
  <2>3. tx[f] \in Calls /\ kind[tx[f]] = "begin"
        /\ at[tx[f]] \in {"handle", "droplock", "ROLLBACK", "done"}
    BY <1>1, <1>2, KindAt DEF CallShape, TypeOK
  <2>4. \A g \in Calls : tx[g] = tx[f] => at[g] \notin Awaited
    BY <1>2, <1>3, <2>3, NobodyAwaits
  <2>5. PICK op \in Awaited, n \in 0 .. BatchRows : Send(f, c, op, n) /\ MaySend(f, op, n)
    BY <1>2, <1>3, <2>1, <2>3, BatchAssumption DEF MaySend, Awaited
  <2>6. Quiet(f)
    BY <1>1, <1>2, <2>5, SendFacts DEF Quiet
  <2>7. n \in Nat
    BY BatchAssumption
  <2>8. Sends(f, c, op, n)
    BY <1>2, <2>1, <2>4, <2>5, <2>6 DEF Sends
  <2> QED
    BY <2>7, <2>8
<1>4. CASE ~HasInner(tx[f])
  <2>1. Finish(f, "err") /\ UNCHANGED wire
    BY <1>4 DEF LockAcquired
  <2> QED
    BY <1>1, <1>2, <2>1, FinishFacts DEF Moves, Quiet, Kept
<1> QED
  BY <1>3, <1>4

LEMMA DropTaskShape ==
  ASSUME IInv, NEW f \in Calls, DropTask(f)
  PROVE  Moves(f) \/ \E c \in Conns, op \in Awaited, n \in Nat : Sends(f, c, op, n)
<1>1. TypeOK /\ CallShape
  BY DEF IInv
<1>2. /\ at[f] = "droplock" /\ LockFree(f)
      /\ UNCHANGED <<kind, tx, hold, session, work, failed, alive, closed, storeVars>>
  BY DEF DropTask
<1>3. kind[f] = "begin" /\ tx[f] = f
  BY <1>1, <1>2, KindAt DEF CallShape, Pooled
<1>4. CASE HasInner(f)
  <2>1. PICK c \in Conns : hold[c] = f /\ Send(f, c, "ROLLBACK", 0)
    BY <1>4 DEF DropTask
  <2>2. \A g \in Calls : tx[g] = tx[f] => at[g] \notin Awaited
    BY <1>2, <1>3, <1>4, NobodyAwaits
  <2>3. MaySend(f, "ROLLBACK", 0) /\ 0 \in 0 .. BatchRows /\ "ROLLBACK" \in Awaited
    BY <1>2, <1>3, <1>4, BatchAssumption DEF MaySend, Awaited
  <2>0. \A g \in Calls \ {f} : at'[g] = at[g] /\ ans'[g] = ans[g] /\ row'[g] = row[g]
    BY <1>1, <2>1, SendFacts
  <2>4. Quiet(f)
    BY <1>2, <2>0 DEF Quiet
  <2>5. Sends(f, c, "ROLLBACK", 0)
    BY <1>2, <1>3, <2>1, <2>2, <2>3, <2>4 DEF Sends
  <2> QED
    BY <2>3, <2>5
<1>5. CASE ~HasInner(f)
  <2>1. Finish(f, "ok") /\ UNCHANGED wire
    BY <1>5 DEF DropTask
  <2> QED
    BY <1>1, <1>2, <1>3, <2>1, FinishFacts DEF Moves, Quiet, Kept
<1> QED
  BY <1>4, <1>5

\* Where the drop of a transaction, or a plain return, leaves the connection.
LEMMA DropLeaves ==
  ASSUME IInv, NEW h \in Calls, NEW c \in Conns, kind[h] \in {"begin", "many"},
         NEW st \in {"Active", "Finished", "Broken"}, DropTx(h, c, st),
         st # "Active" => wire[c] = <<>>
  PROVE  Leaves(h, c) /\ (st = "Finished" => hold'[c] # "guard")
<1>0. TypeOK /\ tx[h] = h
  BY DEF IInv, CallShape, Pooled
<1>1. wire[c] = <<>> => \A q \in Requests(c) : q.op = "WRITE"
  BY DEF Requests
<1>2. ~Guarded => ~ClosesBroken
  BY BackendFacts
<1>5. CASE ~Guarded \/ st = "Finished" \/ (st = "Broken" /\ ~ClosesBroken)
  <2>1. hold' = [hold EXCEPT ![c] = ReturnTo] /\ wire' = wire
    BY <1>5 DEF DropTx, Return
  <2> QED
    BY <1>0, <1>1, <1>2, <1>5, <2>1 DEF ReturnTo, TypeOK, Leaves
<1>6. CASE Guarded /\ st = "Broken" /\ ClosesBroken
  BY <1>0, <1>6 DEF DropTx, TypeOK, Leaves
<1>7. CASE Guarded /\ st = "Active" /\ alive[c]
  BY <1>0, <1>7 DEF DropTx, TypeOK, Leaves
<1>8. CASE Guarded /\ st = "Active" /\ ~alive[c]
  <2>1. hold' = [hold EXCEPT ![c] = IF ClosesBroken THEN "closed" ELSE ReturnTo] /\ wire' = wire
    BY <1>8 DEF DropTx
  <2> QED
    BY <1>0, <1>8, <2>1 DEF ReturnTo, TypeOK, Leaves
<1> QED
  BY <1>5, <1>6, <1>7, <1>8

LEMMA ReturnLeaves ==
  ASSUME TypeOK, NEW h, NEW c \in Conns, Return(c),
         ClosesBroken => \A q \in Requests(c) : q.op = "WRITE"
  PROVE  Leaves(h, c) /\ hold'[c] # "guard"
BY DEF Return, ReturnTo, TypeOK, Leaves

\* Finishing with a connection.
LEMMA FinishShape ==
  ASSUME IInv, NEW f \in Calls, NEW c \in Conns, hold[c] = tx[f], at[f] \in Awaited,
         kind[f] # "stmt", ans[f] # "none", NEW r, Finish(f, r), Leaves(tx[f], c),
         r = "ok" => Good(f) /\ hold'[c] # "guard",
         UNCHANGED <<kind, tx, session, work, failed, alive, closed, storeVars>>
  PROVE  GivesUp(f, c)
<1>1. TypeOK
  BY DEF IInv
<1>2. /\ at'[f] = "done" /\ ans'[f] = r /\ row' = row
      /\ \A g \in Calls \ {f} : at'[g] = at[g] /\ ans'[g] = ans[g] /\ row'[g] = row[g]
  BY <1>1, FinishFacts
<1>3. Quiet(f) /\ Kept(f)
  BY <1>2 DEF Quiet, Kept
<1> QED
  BY <1>2, <1>3 DEF GivesUp

\* Sending the next request of a pooled call.
LEMMA PooledSends ==
  ASSUME IInv, NEW f \in Calls, NEW c \in Conns, hold[c] = f,
         kind[f] \in {"auto", "many", "script"},
         NEW op \in Awaited, NEW n \in 0 .. BatchRows, Send(f, c, op, n), MaySend(f, op, n),
         UNCHANGED <<kind, tx, hold, session, work, failed, alive, closed, storeVars>>
  PROVE  \E d \in Conns, o \in Awaited, m \in Nat : Sends(f, d, o, m)
<1>1. TypeOK
  BY DEF IInv
<1>2. tx[f] = f /\ \A g \in Calls \ {f} : tx[g] # f
  BY Alone DEF Pooled
<1>3. \A g \in Calls \ {f} : at'[g] = at[g] /\ ans'[g] = ans[g] /\ row'[g] = row[g]
  BY <1>1, SendFacts
<1>4. Quiet(f)
  BY <1>3 DEF Quiet
<1>5. Sends(f, c, op, n) /\ n \in Nat
  BY <1>2, <1>4, BatchAssumption DEF Sends
<1> QED
  BY <1>5

SentOrGone(f) ==
  (\E d \in Conns, o \in Awaited, m \in Nat : Sends(f, d, o, m)) \/ \E d \in Conns : GivesUp(f, d)

LEMMA BeginReplyShape ==
  ASSUME IInv, NEW f \in Calls, NEW c \in Conns, BeginReply(f, c)
  PROVE  Moves(f) \/ SentOrGone(f)
<1>1. TypeOK /\ CallShape
  BY DEF IInv
<1>2. /\ kind[f] = "begin" /\ at[f] = "BEGIN" /\ ans[f] # "none" /\ hold[c] = f
      /\ UNCHANGED <<kind, tx, session, work, failed, alive, closed, storeVars>>
  BY DEF BeginReply
<1>3. CASE ans[f] = "ok"
  <2>1. /\ at' = [at EXCEPT ![f] = "handle"] /\ ans' = [ans EXCEPT ![f] = "none"]
        /\ UNCHANGED <<row, hold, wire>>
    BY <1>3 DEF BeginReply
  <2> QED
    BY <1>1, <1>2, <1>3, <2>1 DEF Moves, Quiet, Kept, TypeOK
<1>4. CASE ans[f] # "ok"
  <2>1. Finish(f, "err") /\ DropTx(f, c, "Active")
    BY <1>4 DEF BeginReply
  <2>2. tx[f] = f
    BY <1>1, <1>2 DEF CallShape, Pooled
  <2>3. Leaves(tx[f], c)
    BY <1>2, <2>1, <2>2, DropLeaves
  <2>4. GivesUp(f, c)
    BY <1>2, <2>1, <2>2, <2>3, FinishShape DEF Awaited
  <2> QED
    BY <2>4 DEF SentOrGone
<1> QED
  BY <1>3, <1>4

LEMMA ControlReplyShape ==
  ASSUME IInv, NEW f \in Calls, NEW c \in Conns, ControlReply(f, c)
  PROVE  SentOrGone(f)
<1>0. TypeOK /\ CallShape
  BY DEF IInv
<1>1. /\ kind[f] \in {"commit", "rollback", "begin"}
      /\ at[f] \in {"COMMIT", "ROLLBACK"} /\ ans[f] # "none" /\ hold[c] = tx[f]
      /\ Finish(f, ans[f]) /\ DropTx(tx[f], c, TxStateOf(ans[f]))
      /\ UNCHANGED <<kind, tx, session, work, failed, alive, closed, storeVars>>
  BY DEF ControlReply
<1>2. wire[c] = <<>>
  BY <1>1, Answer
<1>3. TxStateOf(ans[f]) \in {"Finished", "Broken"}
  BY DEF TxStateOf
<1>4. tx[f] \in Calls /\ kind[tx[f]] = "begin"
  BY <1>0, <1>1 DEF CallShape, TypeOK, Pooled
<1>5. Leaves(tx[f], c) /\ (TxStateOf(ans[f]) = "Finished" => hold'[c] # "guard")
  BY <1>1, <1>2, <1>3, <1>4, DropLeaves
<1>6. at[f] \in Awaited /\ kind[f] # "stmt" /\ (ans[f] = "ok" => Good(f) /\ hold'[c] # "guard")
  BY <1>1, <1>5 DEF Awaited, TxStateOf, Good
<1>7. GivesUp(f, c)
  BY <1>1, <1>5, <1>6, FinishShape
<1> QED
  BY <1>7 DEF SentOrGone

LEMMA AutoReplyShape ==
  ASSUME IInv, OnlyWrites, NEW f \in Calls, NEW c \in Conns, AutoReply(f, c)
  PROVE  SentOrGone(f)
<1>1. TypeOK /\ CallShape
  BY DEF IInv
<1>2. /\ kind[f] = "auto" /\ at[f] \in {"WRITE", "COMMIT"} /\ ans[f] # "none" /\ hold[c] = f
      /\ UNCHANGED <<kind, tx, session, work, failed, alive, closed, storeVars>>
  BY DEF AutoReply
<1>3. tx[f] = f
  BY <1>1, <1>2 DEF CallShape, Pooled
<1>4. CASE ImplicitBegin /\ at[f] = "WRITE" /\ ans[f] = "ok"
  <2>1. Send(f, c, "COMMIT", row[f]) /\ UNCHANGED hold
    BY <1>4 DEF AutoReply
  <2>2. row[f] \in 0 .. BatchRows /\ "COMMIT" \in Awaited /\ MaySend(f, "COMMIT", row[f])
    BY <1>1, <1>2, <1>3, <1>4 DEF TypeOK, Awaited, MaySend
  <2> QED
    BY <1>2, <2>1, <2>2, PooledSends DEF SentOrGone
<1>5. CASE ~(ImplicitBegin /\ at[f] = "WRITE" /\ ans[f] = "ok")
  <2>1. Finish(f, ans[f]) /\ Return(c)
    BY <1>5 DEF AutoReply
  <2>2. ClosesBroken => \A q \in Requests(c) : q.op = "WRITE"
    BY <1>2 DEF OnlyWrites
  <2>3. Leaves(tx[f], c) /\ hold'[c] # "guard"
    BY <1>1, <2>1, <2>2, ReturnLeaves
  <2>4. at[f] \in Awaited /\ (ans[f] = "ok" => Good(f))
    BY <1>2, <1>5 DEF Awaited, Good
  <2>5. GivesUp(f, c)
    BY <1>2, <1>3, <2>1, <2>3, <2>4, FinishShape
  <2> QED
    BY <2>5 DEF SentOrGone
<1> QED
  BY <1>4, <1>5

LEMMA ManyReplyShape ==
  ASSUME IInv, AnsweredLast, RowShape, NEW f \in Calls, NEW c \in Conns, ManyReply(f, c)
  PROVE  SentOrGone(f)
<1>1. TypeOK /\ CallShape
  BY DEF IInv
<1>2. /\ kind[f] = "many" /\ at[f] \in Awaited /\ ans[f] # "none" /\ hold[c] = f
      /\ UNCHANGED <<kind, tx, session, work, failed, alive, closed, storeVars>>
  BY DEF ManyReply
<1>3. tx[f] = f /\ ans[f] \in {"ok", "err"}
  BY <1>1, <1>2 DEF CallShape, Pooled, TypeOK
<1>4. row[f] \in 0 .. BatchRows /\ BatchRows \in Nat
  BY <1>1, BatchAssumption DEF TypeOK
<1>5. ASSUME NEW op \in Awaited, NEW n \in 0 .. BatchRows,
             Send(f, c, op, n), UNCHANGED hold, MaySend(f, op, n)
      PROVE  SentOrGone(f)
  BY <1>2, <1>5, PooledSends DEF SentOrGone
<1>6. wire[c] = <<>>
  BY <1>2, <1>3 DEF AnsweredLast
<1>7. ASSUME NEW r \in {"ok", "err"}, NEW st \in {"Active", "Finished", "Broken"},
             Finish(f, r), BatchOver(f, c, st),
             r = "ok" => ans[f] = "ok" /\ at[f] = "COMMIT" /\ st = "Finished"
      PROVE  SentOrGone(f)
  <2>1. ClosesBroken => \A q \in Requests(c) : q.op = "WRITE"
    BY <1>6 DEF Requests
  <2>2. Leaves(tx[f], c) /\ (st = "Finished" => hold'[c] # "guard")
    BY <1>1, <1>2, <1>3, <1>6, <1>7, <2>1, DropLeaves, ReturnLeaves DEF BatchOver
  <2>3. GivesUp(f, c)
    BY <1>2, <1>3, <1>7, <2>2, FinishShape DEF Good
  <2> QED
    BY <2>3 DEF SentOrGone
<1>8. CASE at[f] = "BEGIN" /\ ans[f] = "err"
  <2>1. Finish(f, "err") /\ BatchOver(f, c, "Active")
    BY <1>8 DEF ManyReply, RowFails
  <2> QED
    BY <1>7, <2>1
<1>9. CASE at[f] \in {"BEGIN", "WRITE"} /\ ans[f] = "ok"
  <2>1. /\ IF row[f] < BatchRows THEN Send(f, c, "WRITE", row[f] + 1)
                                 ELSE Send(f, c, "COMMIT", row[f])
        /\ UNCHANGED hold
    BY <1>9 DEF ManyReply, RowFails
  <2>2. CASE row[f] < BatchRows
    <3>1. row[f] + 1 \in 0 .. BatchRows /\ "WRITE" \in Awaited /\ MaySend(f, "WRITE", row[f] + 1)
      BY <1>2, <1>3, <1>4, <1>9, <2>2 DEF MaySend, Awaited
    <3> QED
      BY <1>5, <2>1, <2>2, <3>1
  <2>3. CASE ~(row[f] < BatchRows)
    <3>1. row[f] = BatchRows
      BY <1>4, <2>3
    <3>2. "COMMIT" \in Awaited /\ MaySend(f, "COMMIT", row[f])
      BY <1>2, <1>3, <1>9, <3>1 DEF MaySend, Awaited
    <3> QED
      BY <1>4, <1>5, <2>1, <2>3, <3>2
  <2> QED
    BY <2>2, <2>3
<1>10. "ROLLBACK" \in Awaited /\ MaySend(f, "ROLLBACK", row[f])
  BY <1>2, <1>3 DEF MaySend, Awaited
<1>11. CASE at[f] = "WRITE" /\ ans[f] = "err"
  BY <1>4, <1>5, <1>10, <1>11 DEF ManyReply, RowFails
<1>12. CASE at[f] \in {"COMMIT", "ROLLBACK"}
  <2>1. /\ TxStateOf(ans[f]) \in {"Active", "Finished", "Broken"}
        /\ ans[f] = "ok" => TxStateOf(ans[f]) = "Finished"
    BY DEF TxStateOf
  <2>2. CASE at[f] = "COMMIT" /\ Backend = "sqlite" /\ ans[f] = "err"
    BY <1>4, <1>5, <1>10, <2>2 DEF ManyReply, RowFails
  <2>3. CASE at[f] = "COMMIT" /\ ~(Backend = "sqlite" /\ ans[f] = "err")
    <3>1. Finish(f, ans[f]) /\ BatchOver(f, c, TxStateOf(ans[f]))
      BY <1>12, <2>3 DEF ManyReply, RowFails
    <3> QED
      BY <1>3, <1>7, <2>1, <2>3, <3>1
  <2>4. CASE at[f] = "ROLLBACK"
    <3>1. Finish(f, "err") /\ BatchOver(f, c, TxStateOf(ans[f]))
      BY <2>4 DEF ManyReply, RowFails
    <3> QED
      BY <1>7, <2>1, <3>1
  <2> QED
    BY <1>12, <2>2, <2>3, <2>4
<1> QED
  BY <1>2, <1>3, <1>8, <1>9, <1>11, <1>12 DEF Awaited

LEMMA ScriptReplyShape ==
  ASSUME IInv, NEW f \in Calls, NEW c \in Conns, ScriptReply(f, c)
  PROVE  SentOrGone(f)
<1>1. TypeOK /\ CallShape
  BY DEF IInv
<1>2. /\ kind[f] = "script" /\ at[f] \in Awaited /\ ans[f] # "none" /\ hold[c] = f
      /\ UNCHANGED <<kind, tx, session, work, failed, alive, closed, storeVars>>
  BY DEF ScriptReply
<1>3. tx[f] = f
  BY <1>1, <1>2 DEF CallShape, Pooled
<1>4. row[f] \in 0 .. BatchRows /\ 1 \in 0 .. BatchRows
  BY <1>1, BatchAssumption DEF TypeOK
<1>5. ASSUME NEW op \in Awaited, NEW n \in 0 .. BatchRows,
             Send(f, c, op, n), UNCHANGED hold, MaySend(f, op, n)
      PROVE  SentOrGone(f)
  BY <1>2, <1>5, PooledSends DEF SentOrGone
<1>6. CASE at[f] \in {"BEGIN", "WRITE"} /\ row[f] = 0 /\ Send(f, c, "WRITE", 1) /\ UNCHANGED hold
  <2>1. "WRITE" \in Awaited /\ MaySend(f, "WRITE", 1)
    BY <1>2, <1>3, <1>6 DEF MaySend, Awaited
  <2> QED
    BY <1>4, <1>5, <1>6, <2>1
<1>7. ASSUME NEW op \in {"COMMIT", "ROLLBACK"}, Send(f, c, op, row[f]), UNCHANGED hold
      PROVE  SentOrGone(f)
  <2>1. op \in Awaited /\ MaySend(f, op, row[f])
    BY <1>2, <1>3 DEF MaySend, Awaited
  <2> QED
    BY <1>4, <1>5, <1>7, <2>1
<1>8. CASE at[f] \in {"COMMIT", "ROLLBACK"} /\ Finish(f, ans[f]) /\ Return(c)
  <2>1. wire[c] = <<>>
    BY <1>2, <1>3, <1>8, Answer
  <2>2. ClosesBroken => \A q \in Requests(c) : q.op = "WRITE"
    BY <2>1 DEF Requests
  <2>3. Leaves(tx[f], c) /\ hold'[c] # "guard"
    BY <1>1, <1>8, <2>2, ReturnLeaves
  <2>4. GivesUp(f, c)
    BY <1>2, <1>3, <1>8, <2>3, FinishShape DEF Good
  <2> QED
    BY <2>4 DEF SentOrGone
<1> QED
  BY <1>6, <1>7, <1>8 DEF ScriptReply

LEMMA CancelShape ==
  ASSUME IInv, OnlyWrites, NEW f \in Calls, Cancel(f)
  PROVE  Moves(f) \/ SentOrGone(f)
<1>1. TypeOK /\ CallShape
  BY DEF IInv
<1>2. /\ Cancellable(f)
      /\ UNCHANGED <<kind, tx, row, session, work, failed, alive, closed, storeVars>>
      /\ at'[f] = "cancelled" /\ ans'[f] = "none"
      /\ \A g \in Calls \ {f} : at'[g] = at[g] /\ ans'[g] = ans[g]
  BY <1>1 DEF Cancel, TypeOK
<1>3. Quiet(f) /\ Kept(f)
  BY <1>2 DEF Quiet, Kept
<1>4. CASE at[f] \in {"get", "lock"} \/ kind[f] = "stmt"
  <2>1. UNCHANGED <<hold, wire>>
    BY <1>4 DEF Cancel
  <2>2. kind[f] = "stmt" => at[f] \in {"lock", "WRITE"}
    BY <1>1, <1>2 DEF Cancellable, CallShape, Awaited
  <2> QED
    BY <1>2, <1>3, <1>4, <2>1, <2>2 DEF Moves
<1>5. CASE ~(at[f] \in {"get", "lock"} \/ kind[f] = "stmt")
  <2>1. at[f] \in Awaited /\ kind[f] \in {"begin", "commit", "rollback", "auto", "many"}
    BY <1>1, <1>2, <1>5, KindAt, AwaitedPlaces DEF Cancellable, Kinds
  <2>2. PICK c \in Conns :
          hold[c] = tx[f] /\ IF kind[f] = "auto" THEN Return(c) ELSE DropTx(tx[f], c, "Active")
    BY <1>5 DEF Cancel
  <2>3. Leaves(tx[f], c)
    <3>1. CASE kind[f] = "auto"
      <4>1. tx[f] = f
        BY <1>1, <3>1 DEF CallShape, Pooled
      <4> QED
        BY <1>1, <2>2, <3>1, <4>1, ReturnLeaves DEF OnlyWrites
    <3>2. CASE kind[f] # "auto"
      <4>1. tx[f] \in Calls /\ kind[tx[f]] \in {"begin", "many"}
        BY <1>1, <2>1, <3>2 DEF CallShape, TypeOK, Pooled
      <4> QED
        BY <2>2, <3>2, <4>1, DropLeaves
    <3> QED
      BY <3>1, <3>2
  <2>4. GivesUp(f, c)
    BY <1>2, <1>3, <1>5, <2>1, <2>2, <2>3 DEF GivesUp
  <2> QED
    BY <2>4 DEF SentOrGone
<1> QED
  BY <1>4, <1>5

\* A step of the system is quiet, or a checkout, or one of the database.
LEMMA Shapes ==
  ASSUME IInv, WireInv, Next
  PROVE  \/ \E f \in Calls : Born(f) \/ Moves(f) \/ SentOrGone(f)
         \/ \E f \in Calls, c \in Conns : Checkout(f, c)
         \/ \E c \in Conns : Exec(c) \/ Lose(c) \/ Hangup(c)
         \/ Close
<1>1. OnlyWrites /\ AnsweredLast /\ RowShape
  BY DEF WireInv
<1>2. ASSUME NEW f \in Calls, LockAcquired(f) \/ DropTask(f)
      PROVE  Moves(f) \/ SentOrGone(f)
  BY <1>2, LockShape, DropTaskShape DEF SentOrGone
<1>3. ASSUME NEW f \in Calls, Ask(f) \/ Progress(f) \/ Cancel(f) \/ DropHandle(f)
      PROVE  Born(f) \/ Moves(f) \/ SentOrGone(f) \/ \E c \in Conns : Checkout(f, c)
  <2>1. CASE Ask(f)
    BY <2>1, AskShape
  <2>2. CASE Cancel(f)
    BY <1>1, <2>2, CancelShape
  <2>3. CASE GetFails(f) \/ StmtReply(f) \/ DropHandle(f)
    BY <2>3, MoveShape
  <2>4. ASSUME NEW c \in Conns, Reply(f, c) PROVE Moves(f) \/ SentOrGone(f)
    BY <1>1, <2>4, BeginReplyShape, ControlReplyShape, AutoReplyShape, ManyReplyShape,
       ScriptReplyShape DEF Reply
  <2> QED
    BY <1>2, <1>3, <2>1, <2>2, <2>3, <2>4 DEF Progress
<1> QED
  BY <1>3 DEF Next

-----------------------------------------------------------------------------
(* The other steps: a checkout, a request served, a connection lost or forgotten. *)

\* The database transaction on c ends, and what it is the end of is recorded.
Ends(c) ==
  /\ session'[c] = "none" /\ work'[c] = {} /\ failed'[c] = FALSE
  /\ ended' = IF session[c] = "none" THEN ended ELSE ended \cup {session[c]}

\* Nothing happens to the sessions of connections other than c.
ElseSame(c) == \A d \in Conns \ {c} :
  /\ hold'[d] = hold[d] /\ wire'[d] = wire[d] /\ session'[d] = session[d]
  /\ work'[d] = work[d] /\ failed'[d] = failed[d] /\ alive'[d] = alive[d]

\* f gets connection c and does op first.
Takes(f, c, op) ==
  /\ UNCHANGED <<kind, tx, durable>> /\ ElseSame(c)
  /\ at[f] = "get" /\ kind[f] \in Pooled /\ tx[f] = f /\ hold[c] \in {"pool", "closed"}
  /\ op \in Opening(f) /\ at'[f] = op /\ ans'[f] = "none" /\ row'[f] = IF op = "WRITE" THEN 1 ELSE 0
  /\ \A g \in Calls \ {f} : at'[g] = at[g] /\ ans'[g] = ans[g] /\ row'[g] = row[g]
  /\ hold'[c] = f /\ alive'[c] = TRUE /\ Ends(c)
  /\ wire'[c] = IF op = "handle" THEN wire[c]
                  ELSE Append(wire[c], [op |-> op, f |-> f, n |-> row'[f]])
  /\ wire[c] = <<>> \/ (hold[c] = "pool" /\ ClosesBroken)

\* The server forgets what was on c; waiters may get errors.
Clears(c) ==
  /\ UNCHANGED <<kind, tx, at, row, durable>> /\ ElseSame(c)
  /\ wire'[c] = <<>> /\ Ends(c) /\ (alive'[c] => alive[c] /\ hold'[c] \notin Calls)
  /\ hold'[c] = hold[c] \/ (hold[c] = "guard" /\ hold'[c] \in {"pool", "closed"})
  /\ \A g \in Calls : \/ ans'[g] = ans[g]
                      \/ /\ ans'[g] = "err" /\ ans[g] = "none" /\ hold[c] = tx[g] /\ ~alive'[c]
                         /\ at[g] \in Awaited

Write(h, g, n) == [of |-> h, by |-> g, n |-> n]

\* What serving q on c does to the database.
Effect(c, q, r) ==
  \/ /\ q.op \in {"BEGIN", "COMMIT"} /\ UNCHANGED <<session, work, failed, storeVars>>
     /\ r = "ok" => q.op = "BEGIN" /\ session[c] # "none"
  \/ /\ q.op = "BEGIN" /\ r = "ok" /\ session[c] = "none" /\ session'[c] = tx[q.f]
     /\ UNCHANGED <<work, failed, storeVars>>
  \/ /\ q.op = "WRITE" /\ r = "ok" /\ ~failed[c] /\ (session[c] # "none" \/ ImplicitBegin)
     /\ work'[c] = work[c] \cup {Write(tx[q.f], q.f, q.n)}
     /\ session'[c] = IF session[c] = "none" THEN tx[q.f] ELSE session[c]
     /\ UNCHANGED <<failed, storeVars>>
  \/ /\ q.op = "WRITE" /\ r = "ok" /\ session[c] = "none" /\ ~ImplicitBegin
     /\ durable' = durable \cup {Write(tx[q.f], q.f, q.n)} /\ ended' = ended \cup {tx[q.f]}
     /\ UNCHANGED <<session, work, failed>>
  \/ /\ q.op = "WRITE" /\ r = "err" /\ UNCHANGED <<session, work, storeVars>>
     /\ failed'[c] => failed[c] \/ (Backend = "postgres" /\ session[c] # "none")
  \/ /\ q.op \in {"COMMIT", "ROLLBACK", "GUARD"} /\ Ends(c)
     /\ durable' = IF q.op = "COMMIT" /\ r = "ok" /\ ~failed[c] THEN durable \cup work[c] ELSE durable
     /\ q.op = "COMMIT" /\ r = "ok" /\ Backend \in {"sqlite", "mssql"} => session[c] # "none"

\* The oldest request q of c is answered r.
Serves(c, q, r) ==
  /\ UNCHANGED <<kind, tx, at, row, alive>> /\ ElseSame(c)
  /\ q \in Requests(c) /\ alive[c] /\ r \in {"ok", "err"} /\ Effect(c, q, r)
  /\ Requests(c)' \subseteq Requests(c)
  /\ \A j \in DOMAIN wire'[c] : j + 1 \in DOMAIN wire[c] /\ wire'[c][j] = wire[c][j + 1]
  /\ \A p \in Requests(c)' :
       /\ q.op \in {"COMMIT", "ROLLBACK"} => p.op = "GUARD"
       /\ q.op = "BEGIN" \/ ImplicitBegin => tx[p.f] = tx[q.f]
       /\ p.f = q.f => p.op = "GUARD"
  /\ q.op = "GUARD" => wire'[c] = <<>>
  /\ at[q.f] = q.op =>
       wire'[c] = <<>> /\ ans[q.f] = "none" /\ ans'[q.f] = r /\ hold[c] = tx[q.f]
  /\ \A g \in Calls : g # q.f \/ at[q.f] # q.op => ans'[g] = ans[g]
  /\ hold'[c] = hold[c] \/ (q.op = "GUARD" /\ hold[c] = "guard" /\ hold'[c] \in {"pool", "closed"})

\* A request appended to a wire.
LEMMA AppendRequests ==
  ASSUME TypeOK, NEW c \in Conns, NEW e \in Request, wire'[c] = Append(wire[c], e)
  PROVE  /\ Requests(c)' = Requests(c) \cup {e}
         /\ wire[c] \in Seq(Request) /\ Len(wire[c]) \in Nat /\ DOMAIN wire[c] = 1 .. Len(wire[c])
         /\ Len(wire'[c]) = Len(wire[c]) + 1 /\ DOMAIN wire'[c] = 1 .. Len(wire[c]) + 1
         /\ \A j \in 1 .. Len(wire[c]) : wire'[c][j] = wire[c][j]
         /\ wire'[c][Len(wire[c]) + 1] = e
<1>1. wire[c] \in Seq(Request) /\ Len(wire[c]) \in Nat /\ DOMAIN wire[c] = 1 .. Len(wire[c])
  BY WireRequest
<1>2. /\ Len(wire'[c]) = Len(wire[c]) + 1 /\ DOMAIN wire'[c] = 1 .. Len(wire[c]) + 1
      /\ \A j \in 1 .. Len(wire[c]) : wire'[c][j] = wire[c][j]
      /\ wire'[c][Len(wire[c]) + 1] = e
  BY <1>1, AppendLast
<1>3. Requests(c)' = Requests(c) \cup {e}
  BY <1>1, <1>2 DEF Requests
<1> QED
  BY <1>1, <1>2, <1>3

\* What is on a wire is a request; a wire that stays keeps its requests.
LEMMA RequestFacts ==
  ASSUME TypeOK, NEW c \in Conns
  PROVE  /\ \A q \in Requests(c) : /\ q \in Request /\ q.f \in Calls /\ tx[q.f] \in Calls
                                   /\ q.op \in Awaited \cup {"GUARD"}
         /\ wire[c] = <<>> => Requests(c) = {}
         /\ wire'[c] = <<>> => Requests(c)' = {}
         /\ wire'[c] = wire[c] => Requests(c)' = Requests(c)
BY WireRequest DEF Requests, TypeOK

\* What IInv says of each request.
LEMMA RequestShape ==
  ASSUME IInv, NEW c \in Conns, NEW q \in Requests(c)
  PROVE  /\ at[q.f] \notin {"new", "get", "lock"}
         /\ q.op # "GUARD" => at[q.f] \in {q.op, "done", "cancelled"}
         /\ at[q.f] = q.op => ans[q.f] = "none" /\ hold[c] = tx[q.f]
         /\ q.op = "BEGIN" =>
              hold[c] \in {"guard", "closed"} \/ (hold[c] = q.f /\ at[q.f] = "BEGIN")
         /\ q.op = "GUARD" => hold[c] = "guard"
         /\ q.f \in Calls /\ tx[q.f] \in Calls /\ q.op \in Awaited \cup {"GUARD"}
<1>1. PICK i \in DOMAIN wire[c] : wire[c][i] = q
  BY DEF Requests
<1>2. LET p == wire[c][i] IN
        /\ at[p.f] \notin {"new", "get", "lock"}
        /\ p.op # "GUARD" => at[p.f] \in {p.op, "done", "cancelled"}
        /\ at[p.f] = p.op => i = Len(wire[c]) /\ ans[p.f] = "none" /\ hold[c] = tx[p.f]
        /\ p.op = "BEGIN" =>
             hold[c] \in {"guard", "closed"} \/ (hold[c] = p.f /\ at[p.f] = "BEGIN")
        /\ p.op = "GUARD" => i = Len(wire[c]) /\ hold[c] = "guard"
  BY DEF IInv, WireShape
<1> QED
  BY <1>1, <1>2, RequestFacts DEF IInv

LEMMA EndSessionFacts ==
  ASSUME TypeOK, NEW c \in Conns, EndSession(c)
  PROVE  /\ Ends(c)
         /\ \A d \in Conns \ {c} :
              session'[d] = session[d] /\ work'[d] = work[d] /\ failed'[d] = failed[d]
BY DEF EndSession, Ends, TypeOK

LEMMA CheckoutShape ==
  ASSUME IInv, OwnWork, NEW f \in Calls, NEW c \in Conns, Checkout(f, c)
  PROVE  \E op \in {"handle", "BEGIN", "WRITE"} : Takes(f, c, op)
<1>1. TypeOK /\ CallShape /\ DeadIsEmpty
  BY DEF IInv
<1>2. at[f] = "get" /\ hold[c] \in {"pool", "closed"} /\ UNCHANGED <<kind, tx, durable>>
      /\ hold' = [hold EXCEPT ![c] = f]
  BY DEF Checkout
<1>3. /\ kind[f] \in Pooled /\ tx[f] = f
  BY <1>1, <1>2, KindAt, Alone
<1>4. PICK op \in {"handle", "BEGIN", "WRITE"} :
        /\ op \in Opening(f)
        /\ at' = [at EXCEPT ![f] = op]
        /\ row' = [row EXCEPT ![f] = IF op = "WRITE" THEN 1 ELSE 0]
        /\ wire' = IF op = "handle" THEN wire
                     ELSE [wire EXCEPT ![c] = Append(@, [op |-> op, f |-> f, n |-> row'[f]])]
        /\ ans' = [ans EXCEPT ![f] = "none"]
  BY DEF Checkout, Opening
<1>5. /\ at'[f] = op /\ ans'[f] = "none" /\ row'[f] = IF op = "WRITE" THEN 1 ELSE 0
      /\ \A g \in Calls \ {f} : at'[g] = at[g] /\ ans'[g] = ans[g] /\ row'[g] = row[g]
  BY <1>1, <1>4 DEF TypeOK
<1>6. /\ hold'[c] = f /\ \A d \in Conns \ {c} : hold'[d] = hold[d] /\ wire'[d] = wire[d]
      /\ wire'[c] = IF op = "handle" THEN wire[c]
                      ELSE Append(wire[c], [op |-> op, f |-> f, n |-> row'[f]])
  BY <1>1, <1>2, <1>4 DEF TypeOK
<1>7. /\ alive'[c] = TRUE /\ Ends(c)
      /\ \A d \in Conns \ {c} : /\ session'[d] = session[d] /\ work'[d] = work[d]
                                /\ failed'[d] = failed[d] /\ alive'[d] = alive[d]
      /\ wire[c] = <<>> \/ (hold[c] = "pool" /\ ClosesBroken)
  <2>0. session[c] = "none" => work[c] = {} /\ failed[c] = FALSE
    BY <1>1 DEF OwnWork, TypeOK
  <2>1. CASE hold[c] = "closed" \/ ~alive[c]
    <3>1. /\ wire[c] = <<>> /\ session[c] = "none" /\ UNCHANGED <<session, work, failed, ended>>
          /\ alive' = [alive EXCEPT ![c] = TRUE]
      BY <2>1 DEF Checkout
    <3> QED
      BY <1>1, <2>0, <3>1 DEF TypeOK, Ends
  <2>2. CASE ~(hold[c] = "closed" \/ ~alive[c]) /\ RollsBackOnCheckout
    <3>1. wire[c] = <<>> /\ EndSession(c) /\ alive' = alive
      BY <2>2 DEF Checkout
    <3> QED
      BY <1>1, <2>2, <3>1, EndSessionFacts DEF TypeOK
  <2>3. CASE ~(hold[c] = "closed" \/ ~alive[c]) /\ ~RollsBackOnCheckout
    <3>1. UNCHANGED <<session, work, failed, ended>> /\ alive' = alive
      BY <2>3 DEF Checkout
    <3>2. ClosesBroken
      BY <2>3, BackendFacts
    <3>3. session[c] = "none"
      BY <1>2, <2>3, <3>2 DEF IInv, PoolClean
    <3> QED
      BY <1>1, <1>2, <2>0, <2>3, <3>1, <3>2, <3>3 DEF TypeOK, Ends
  <2> QED
    BY <2>1, <2>2, <2>3
<1>8. ElseSame(c)
  BY <1>6, <1>7 DEF ElseSame
<1> QED
  BY <1>2, <1>3, <1>4, <1>5, <1>6, <1>7, <1>8 DEF Takes

LEMMA LoseShape ==
  ASSUME IInv, NEW c \in Conns, Lose(c)
  PROVE  Clears(c)
<1>1. TypeOK
  BY DEF IInv
<1>2. /\ UNCHANGED <<kind, tx, at, row, durable>> /\ EndSession(c)
      /\ alive' = [alive EXCEPT ![c] = FALSE] /\ wire' = [wire EXCEPT ![c] = <<>>]
      /\ hold' = [hold EXCEPT ![c] =
            IF @ = "guard" THEN (IF ClosesBroken THEN "closed" ELSE ReturnTo) ELSE @]
  BY DEF Lose
<1>3. /\ wire'[c] = <<>> /\ alive'[c] = FALSE
      /\ hold'[c] = hold[c] \/ (hold[c] = "guard" /\ hold'[c] \in {"pool", "closed"})
      /\ \A d \in Conns \ {c} : wire'[d] = wire[d] /\ hold'[d] = hold[d] /\ alive'[d] = alive[d]
  BY <1>1, <1>2 DEF ReturnTo, TypeOK
<1>4. Ends(c) /\ ElseSame(c)
  BY <1>1, <1>2, <1>3, EndSessionFacts DEF ElseSame
<1>5. ASSUME NEW g \in Calls
      PROVE  \/ ans'[g] = ans[g]
             \/ /\ ans'[g] = "err" /\ ans[g] = "none" /\ hold[c] = tx[g]
                /\ at[g] \in Awaited
  <2>1. ans'[g] = IF \E i \in DOMAIN wire[c] : wire[c][i].f = g /\ wire[c][i].op = at[g]
                  THEN "err" ELSE ans[g]
    BY DEF Lose
  <2>2. CASE \E i \in DOMAIN wire[c] : wire[c][i].f = g /\ wire[c][i].op = at[g]
    <3>1. PICK q \in Requests(c) : q.f = g /\ q.op = at[g]
      BY <2>2 DEF Requests
    <3>2. ans[g] = "none" /\ hold[c] = tx[g] /\ at[g] \in Awaited \cup {"GUARD"}
      BY <3>1, RequestShape
    <3>3. at[g] \in Places
      BY <1>1 DEF TypeOK
    <3> QED
      BY <2>1, <2>2, <3>2, <3>3, AwaitedPlaces
  <2> QED
    BY <2>1, <2>2
<1> QED
  BY <1>2, <1>3, <1>4, <1>5 DEF Clears

LEMMA HangupShape ==
  ASSUME IInv, NEW c \in Conns, Hangup(c)
  PROVE  Clears(c)
<1>1. TypeOK
  BY DEF IInv
<1>2. /\ UNCHANGED <<kind, tx, at, row, ans, durable, hold, alive>> /\ EndSession(c)
      /\ wire' = [wire EXCEPT ![c] = <<>>] /\ hold[c] \notin Calls
  BY NoSuchCall DEF Hangup, callVars
<1>3. /\ wire'[c] = <<>> /\ \A d \in Conns \ {c} : wire'[d] = wire[d]
  BY <1>1, <1>2 DEF TypeOK
<1>4. Ends(c) /\ ElseSame(c)
  BY <1>1, <1>2, <1>3, EndSessionFacts DEF ElseSame
<1> QED
  BY <1>2, <1>3, <1>4 DEF Clears

\* Serving a request has one of the effects.
LEMMA RunShape ==
  ASSUME TypeOK, NEW c \in Conns, NEW q \in Request, NEW r \in {"ok", "err"}, Run(c, q, r),
         q.op = "GUARD" => hold[c] = "guard"
  PROVE  /\ Effect(c, q, r)
         /\ \A d \in Conns \ {c} :
              /\ session'[d] = session[d] /\ work'[d] = work[d] /\ failed'[d] = failed[d]
              /\ hold'[d] = hold[d]
         /\ \/ hold'[c] = hold[c]
            \/ q.op = "GUARD" /\ hold[c] = "guard" /\ hold'[c] \in {"pool", "closed"}
<1>0. session[c] \in Calls \cup {"none"} /\ failed[c] \in BOOLEAN
  BY DEF TypeOK
<1>1. CASE RunBegin(c, q, r)
  <2>1. /\ q.op = "BEGIN" /\ UNCHANGED <<hold, work, failed, storeVars>>
        /\ session' = [session EXCEPT ![c] = IF r = "ok" /\ @ = "none" THEN tx[q.f] ELSE @]
    BY <1>1 DEF RunBegin
  <2>2. CASE r = "ok" /\ session[c] = "none"
    BY <2>1, <2>2 DEF Effect, TypeOK
  <2>3. CASE ~(r = "ok" /\ session[c] = "none")
    <3>1. session' = session
      BY <2>1, <2>3 DEF TypeOK
    <3> QED
      BY <2>1, <2>3, <3>1 DEF Effect
  <2> QED
    BY <2>2, <2>3
<1>2. CASE RunWrite(c, q, r)
  <2>1. q.op = "WRITE" /\ r = "ok" /\ ~failed[c] /\ UNCHANGED <<hold, failed>>
    BY <1>2 DEF RunWrite
  <2>2. CASE session[c] # "none" \/ ImplicitBegin
    <3>1. /\ work' = [work EXCEPT ![c] = @ \cup {Write(tx[q.f], q.f, q.n)}]
          /\ session' = [session EXCEPT ![c] = IF @ = "none" THEN tx[q.f] ELSE @]
          /\ UNCHANGED storeVars
      BY <1>2, <2>2 DEF RunWrite, Write
    <3> QED
      BY <2>1, <2>2, <3>1 DEF Effect, TypeOK
  <2>3. CASE ~(session[c] # "none" \/ ImplicitBegin)
    BY <1>2, <2>1, <2>3 DEF RunWrite, Write, Effect
  <2> QED
    BY <2>2, <2>3
<1>3. CASE RunWriteFails(c, q, r)
  <2>1. /\ q.op = "WRITE" /\ r = "err" /\ UNCHANGED <<hold, session, work, storeVars>>
        /\ failed' = [failed EXCEPT ![c] = @ \/ (Backend = "postgres" /\ session[c] # "none")]
    BY <1>3 DEF RunWriteFails
  <2>2. /\ failed'[c] => failed[c] \/ (Backend = "postgres" /\ session[c] # "none")
        /\ \A d \in Conns \ {c} : failed'[d] = failed[d]
    BY <2>1 DEF TypeOK
  <2> QED
    BY <2>1, <2>2 DEF Effect
<1>4. CASE RunCommit(c, q, r)
  <2>1. /\ q.op = "COMMIT" /\ hold' = hold
        /\ r = "ok" /\ Backend \in {"sqlite", "mssql"} => session[c] # "none"
        /\ durable' = IF r = "err" \/ failed[c] THEN durable ELSE durable \cup work[c]
    BY <1>4 DEF RunCommit
  <2>2. CASE EndSession(c)
    <3>1. Ends(c) /\ \A d \in Conns \ {c} :
                       session'[d] = session[d] /\ work'[d] = work[d] /\ failed'[d] = failed[d]
      BY <2>2, EndSessionFacts
    <3>2. durable' = IF q.op = "COMMIT" /\ r = "ok" /\ ~failed[c] THEN durable \cup work[c] ELSE durable
      BY <2>1
    <3> QED
      BY <2>1, <3>1, <3>2 DEF Effect
  <2>3. CASE r = "err" /\ UNCHANGED <<session, work, failed, ended>>
    BY <2>1, <2>3 DEF Effect, storeVars
  <2> QED
    BY <1>4, <2>2, <2>3 DEF RunCommit
<1>5. CASE RunRollback(c, q, r)
  <2>1. q.op = "ROLLBACK" /\ hold' = hold /\ durable' = durable /\ EndSession(c)
    BY <1>5 DEF RunRollback
  <2> QED
    BY <2>1, EndSessionFacts DEF Effect
<1>6. CASE RunGuard(c, q, r)
  <2>1. /\ q.op = "GUARD" /\ durable' = durable /\ EndSession(c)
        /\ hold' = [hold EXCEPT ![c] = IF @ = "guard" THEN ReturnTo ELSE @]
    BY <1>6 DEF RunGuard
  <2>2. hold'[c] \in {"pool", "closed"} /\ \A d \in Conns \ {c} : hold'[d] = hold[d]
    BY <2>1 DEF ReturnTo, TypeOK
  <2> QED
    BY <2>1, <2>2, EndSessionFacts DEF Effect
<1> QED
  BY <1>1, <1>2, <1>3, <1>4, <1>5, <1>6 DEF Run

\* The wire without its oldest request.
LEMMA ServedWire ==
  ASSUME TypeOK, InOrder, NEW c \in Conns, NEW i \in DOMAIN wire[c], NEW r, Serve(c, i, r)
  PROVE  /\ i = 1 /\ \A d \in Conns \ {c} : wire'[d] = wire[d]
         /\ DOMAIN wire[c] = 1 .. Len(wire[c]) /\ Len(wire[c]) \in Nat \ {0}
         /\ Len(wire'[c]) = Len(wire[c]) - 1 /\ DOMAIN wire'[c] = 1 .. Len(wire[c]) - 1
         /\ \A j \in DOMAIN wire'[c] : j + 1 \in DOMAIN wire[c] /\ wire'[c][j] = wire[c][j + 1]
         /\ Len(wire[c]) = 1 => wire'[c] = <<>>
<1>1. i = 1 /\ wire[c] \in Seq(Request) /\ Len(wire[c]) \in Nat /\ DOMAIN wire[c] = 1 .. Len(wire[c])
  BY WireRequest DEF Serve
<1>2. /\ wire'[c] = SubSeq(wire[c], 1, 1 - 1) \o SubSeq(wire[c], 1 + 1, Len(wire[c]))
      /\ \A d \in Conns \ {c} : wire'[d] = wire[d]
  BY <1>1 DEF Serve, TypeOK
<1>3. /\ wire'[c] \in Seq(Request) /\ Len(wire'[c]) = Len(wire[c]) - 1
      /\ \A j \in 1 .. Len(wire'[c]) : wire'[c][j] = IF j < 1 THEN wire[c][j] ELSE wire[c][j + 1]
  BY <1>1, <1>2, RemoveAt
<1>4. 1 \in 1 .. Len(wire[c])
  BY <1>1
<1>5. Len(wire[c]) \in Nat \ {0} /\ DOMAIN wire'[c] = 1 .. Len(wire'[c])
  BY <1>1, <1>3, <1>4
<1>6. \A j \in DOMAIN wire'[c] : j + 1 \in DOMAIN wire[c] /\ wire'[c][j] = wire[c][j + 1]
  BY <1>1, <1>3, <1>5
<1>7. Len(wire[c]) = 1 => wire'[c] = <<>>
  BY <1>3
<1> QED
  BY <1>1, <1>2, <1>3, <1>5, <1>6, <1>7

LEMMA ExecShape ==
  ASSUME IInv, WireInv, InOrder, NEW c \in Conns, Exec(c)
  PROVE  \E q \in Request, r \in {"ok", "err"} : Serves(c, q, r)
<1>1. TypeOK /\ InTurn /\ DeadIsEmpty
  BY DEF IInv, WireInv
<1>2. PICK i \in DOMAIN wire[c], r \in {"ok", "err"} :
        Serve(c, i, r) /\ Run(c, wire[c][i], r)
  BY DEF Exec
<1>3. UNCHANGED <<kind, tx, at, row, alive>>
  BY DEF Exec
<1>4. PICK q \in Requests(c) : q = wire[c][i]
  BY DEF Requests
<1>5. /\ i = 1 /\ \A d \in Conns \ {c} : wire'[d] = wire[d]
      /\ DOMAIN wire[c] = 1 .. Len(wire[c]) /\ Len(wire[c]) \in Nat \ {0}
      /\ \A j \in DOMAIN wire'[c] : j + 1 \in DOMAIN wire[c] /\ wire'[c][j] = wire[c][j + 1]
      /\ DOMAIN wire'[c] = 1 .. Len(wire[c]) - 1
      /\ Len(wire[c]) = 1 => wire'[c] = <<>>
  BY <1>1, <1>2, ServedWire
<1>6. /\ at[q.f] = q.op => i = Len(wire[c]) /\ ans[q.f] = "none" /\ hold[c] = tx[q.f]
      /\ q.op = "GUARD" => i = Len(wire[c]) /\ hold[c] = "guard"
      /\ q \in Request
  <2>1. LET p == wire[c][i] IN
          /\ at[p.f] = p.op => i = Len(wire[c]) /\ ans[p.f] = "none" /\ hold[c] = tx[p.f]
          /\ p.op = "GUARD" => i = Len(wire[c]) /\ hold[c] = "guard"
    BY DEF IInv, WireShape
  <2> QED
    BY <1>1, <1>4, <2>1, RequestFacts
<1>7. alive[c]
  <2>1. wire[c] # <<>>
    BY <1>5
  <2> QED
    BY <1>1, <2>1 DEF DeadIsEmpty, TypeOK
<1>8. ASSUME NEW p \in Requests(c)'
      PROVE  /\ p \in Requests(c)
             /\ q.op \in {"COMMIT", "ROLLBACK"} => p.op = "GUARD"
             /\ q.op = "BEGIN" \/ ImplicitBegin => tx[p.f] = tx[q.f]
             /\ p.f = q.f => p.op = "GUARD"
  <2>1. PICK j \in DOMAIN wire'[c] : p = wire'[c][j]
    BY DEF Requests
  <2>2. j + 1 \in DOMAIN wire[c] /\ p = wire[c][j + 1]
    BY <1>5, <2>1
  <2>3. i < j + 1
    BY <1>5, <2>1
  <2>4. /\ wire[c][i].op \in {"COMMIT", "ROLLBACK"} => wire[c][j + 1].op = "GUARD"
        /\ wire[c][i].op = "BEGIN" \/ ImplicitBegin => tx[wire[c][i].f] = tx[wire[c][j + 1].f]
        /\ wire[c][i].f = wire[c][j + 1].f => wire[c][j + 1].op = "GUARD"
    BY <1>1, <2>2, <2>3 DEF InTurn
  <2> QED
    BY <1>4, <2>2, <2>4 DEF Requests
<1>9. /\ at[q.f] = q.op => ans'[q.f] = r
      /\ \A g \in Calls : g # q.f \/ at[q.f] # q.op => ans'[g] = ans[g]
  BY <1>1, <1>2, <1>4, RequestFacts DEF Serve, TypeOK
<1>10. /\ Effect(c, q, r)
       /\ \A d \in Conns \ {c} :
            /\ session'[d] = session[d] /\ work'[d] = work[d] /\ failed'[d] = failed[d]
            /\ hold'[d] = hold[d]
       /\ \/ hold'[c] = hold[c]
          \/ q.op = "GUARD" /\ hold[c] = "guard" /\ hold'[c] \in {"pool", "closed"}
  BY <1>1, <1>2, <1>4, <1>6, RunShape
<1>11. ElseSame(c)
  BY <1>3, <1>5, <1>10 DEF ElseSame
<1>12. /\ q.op = "GUARD" => wire'[c] = <<>>
       /\ at[q.f] = q.op =>
            wire'[c] = <<>> /\ ans[q.f] = "none" /\ ans'[q.f] = r /\ hold[c] = tx[q.f]
  BY <1>5, <1>6, <1>9
<1>13. Requests(c)' \subseteq Requests(c)
  BY <1>8
<1>14. \A p \in Requests(c)' :
         /\ q.op \in {"COMMIT", "ROLLBACK"} => p.op = "GUARD"
         /\ q.op = "BEGIN" \/ ImplicitBegin => tx[p.f] = tx[q.f]
         /\ p.f = q.f => p.op = "GUARD"
  BY <1>8
<1>15. Serves(c, q, r)
  BY <1>3, <1>5, <1>7, <1>9, <1>10, <1>11, <1>12, <1>13, <1>14 DEF Serves
<1> QED
  BY <1>6, <1>15

Closes ==
  /\ UNCHANGED <<kind, tx, at, ans, row, wire, session, work, failed, alive, durable, ended>>
  /\ \A c \in Conns : hold'[c] = IF hold[c] = "pool" THEN "closed" ELSE hold[c]

LEMMA CloseShape == Close => Closes
BY DEF Close, Closes, callVars, storeVars

\* The steps of the system, by what they do.
Step ==
  \/ \E f \in Calls : Born(f) \/ Moves(f)
  \/ \E f \in Calls, c \in Conns, op \in Awaited, n \in Nat : Sends(f, c, op, n)
  \/ \E f \in Calls, c \in Conns : GivesUp(f, c)
  \/ \E f \in Calls, c \in Conns, op \in {"handle", "BEGIN", "WRITE"} : Takes(f, c, op)
  \/ \E c \in Conns, q \in Request, r \in {"ok", "err"} : Serves(c, q, r)
  \/ \E c \in Conns : Clears(c)
  \/ Closes

LEMMA StepShape ==
  ASSUME InOrder, IInv, WireInv, OwnWork, Next
  PROVE  Step
BY Shapes, CheckoutShape, ExecShape, LoseShape, HangupShape, CloseShape DEF Step, SentOrGone

-----------------------------------------------------------------------------
(* The wires. *)

\* The parts of IInv that are used below, and what a call may be.
LEMMA Basics ==
  ASSUME IInv
  PROVE  /\ TypeOK /\ CallShape /\ Ownership /\ DeadIsEmpty
         /\ \A f \in Calls : at[f] \in Places /\ kind[f] \in Kinds /\ tx[f] \in Calls
         /\ \A c, d \in Conns : hold[c] = hold[d] /\ hold[c] \in Calls => c = d
         /\ \A c \in Conns : ~alive[c] => wire[c] = <<>> /\ session[c] = "none"
BY DEF IInv, TypeOK, Ownership, DeadIsEmpty

\* A pooled call that awaits something has no company; nobody else is on its transaction.
LEMMA NotShared ==
  ASSUME IInv, NEW f \in Calls, kind[f] \in Pooled, at[f] \in {"get", "BEGIN", "WRITE"}
  PROVE  tx[f] = f /\ \A g \in Calls \ {f} : tx[g] # f
BY Alone

\* A call that awaits nothing, or has its answer, has no request out but a guard's.
LEMMA NothingOut ==
  ASSUME IInv, Asked, NEW c \in Conns, NEW q \in Requests(c),
         \/ at[q.f] \in {"new", "get", "lock", "handle", "droplock", "done"}
         \/ ans[q.f] # "none" /\ at[q.f] # "cancelled"
  PROVE  q.op = "GUARD"
BY RequestShape, AwaitedPlaces DEF Asked, Asks, Awaited

LEMMA WireBorn ==
  ASSUME IInv, WireInv, NEW f \in Calls, Born(f)
  PROVE  WireInv'
<1> USE AwaitedPlaces, NoSuchCall
<1>1. /\ UNCHANGED <<hold, wire>> /\ at[f] = "new" /\ kind[f] = "none" /\ at'[f] \in {"get", "lock"}
      /\ \A g \in Calls \ {f} : kind'[g] = kind[g] /\ tx'[g] = tx[g] /\ at'[g] = at[g]
                                /\ ans'[g] = ans[g] /\ row'[g] = row[g]
  BY DEF Born, Quiet
<1>2. \A c \in Conns : Requests(c)' = Requests(c) /\ hold[c] # f
                       /\ \A q \in Requests(c) : q.f \in Calls \ {f}
  BY <1>1, Basics, RequestShape DEF Requests, Ownership, Pooled
<1>3. Asked'
  BY <1>1, <1>2 DEF WireInv, Asked, Asks
<1>4. InTurn'
  <2>1. \A c \in Conns : \A i \in DOMAIN wire[c] : wire[c][i].f \in Calls \ {f}
    BY <1>2 DEF Requests
  <2> QED
    BY <1>1, <2>1 DEF WireInv, InTurn
<1>5. StillAwaited'
  BY <1>1, <1>2 DEF WireInv, StillAwaited
<1>6. AnsweredLast'
  BY <1>1 DEF WireInv, AnsweredLast
<1>7. OnlyWrites'
  BY <1>1, <1>2 DEF WireInv, OnlyWrites
<1>8. OneControl'
  BY <1>1 DEF WireInv, OneControl
<1>9. RowShape'
  BY <1>1 DEF WireInv, RowShape
<1> QED
  BY <1>3, <1>4, <1>5, <1>6, <1>7, <1>8, <1>9 DEF WireInv

LEMMA WireMoves ==
  ASSUME IInv, WireInv, NEW f \in Calls, Moves(f)
  PROVE  WireInv'
<1> USE AwaitedPlaces, NoSuchCall
<1>1. /\ UNCHANGED <<hold, wire, kind, tx, row>>
      /\ at'[f] \in {"done", "cancelled", "droplock", "handle"}
      /\ at[f] \in {"get", "lock", "droplock", "handle"} \/ at'[f] = "cancelled" \/ ans[f] # "none"
      /\ at[f] \in {"get", "lock", "droplock", "handle", "BEGIN", "WRITE"}
      /\ \A g \in Calls \ {f} : at'[g] = at[g] /\ ans'[g] = ans[g]
  BY DEF Moves, Quiet, Kept
<1>2. \A c \in Conns : Requests(c)' = Requests(c)
  BY <1>1 DEF Requests
<1>3. Asked'
  <2> SUFFICES ASSUME NEW c \in Conns, NEW q \in Requests(c) PROVE Asks(q)'
    BY <1>2 DEF Asked
  <2>1. Asks(q) /\ q.f \in Calls /\ q.op \in Awaited \cup {"GUARD"}
    BY RequestShape DEF WireInv, Asked
  <2>2. CASE q.f # f
    BY <1>1, <2>1, <2>2 DEF Asks
  <2>3. CASE q.f = f
    <3>1. q.op = "GUARD" \/ at'[f] = "cancelled"
      BY <1>1, <2>3, NothingOut, RequestShape DEF WireInv
    <3> QED
      BY <1>1, <2>1, <2>3, <3>1 DEF Asks
  <2> QED
    BY <2>2, <2>3
<1>4. InTurn'
  BY <1>1 DEF WireInv, InTurn
<1>5. StillAwaited'
  <2> SUFFICES ASSUME NEW c \in Conns, hold[c] \in Calls, NEW q \in Requests(c),
                      q.op \in {"COMMIT", "ROLLBACK"}
               PROVE  at'[q.f] = q.op
    BY <1>1, <1>2 DEF StillAwaited
  <2>1. at[q.f] = q.op /\ q.f \in Calls
    BY RequestShape DEF WireInv, StillAwaited
  <2> QED
    BY <1>1, <2>1
<1>6. AnsweredLast'
  BY <1>1 DEF WireInv, AnsweredLast
<1>7. OnlyWrites'
  BY <1>1, <1>2 DEF WireInv, OnlyWrites
<1>8. OneControl'
  BY <1>1 DEF WireInv, OneControl
<1>9. RowShape'
  BY <1>1 DEF WireInv, RowShape
<1> QED
  BY <1>3, <1>4, <1>5, <1>6, <1>7, <1>8, <1>9 DEF WireInv

\* Who sends has the connection to itself: nothing on its wire is awaited any more.
LEMMA SenderFacts ==
  ASSUME IInv, WireInv, NEW f \in Calls, NEW c \in Conns, NEW op, NEW n, Sends(f, c, op, n)
  PROVE  /\ hold[c] = tx[f] /\ tx[f] \in Calls
         /\ at[f] \in {"lock", "droplock"} \/ (at[f] \in Awaited /\ ans[f] # "none")
         /\ op \in {"WRITE", "COMMIT", "ROLLBACK"}
         /\ \A d \in Conns : \A q \in Requests(d) : q.f = f => q.op = "GUARD" /\ d # c
         /\ \A q \in Requests(c) : q.op \notin {"BEGIN", "COMMIT", "ROLLBACK", "GUARD"}
<1> USE AwaitedPlaces, NoSuchCall
<1>1. hold[c] = tx[f] /\ tx[f] \in Calls
  BY Basics DEF Sends
<1>2. /\ at[f] \in {"lock", "droplock"} \/ (at[f] \in Awaited /\ ans[f] # "none")
      /\ op \in {"WRITE", "COMMIT", "ROLLBACK"}
  BY DEF Sends, MaySend, Awaited
<1>3. ASSUME NEW d \in Conns, NEW q \in Requests(d), q.f = f
      PROVE  q.op = "GUARD" /\ d # c
  <2>1. q.op = "GUARD"
    BY <1>2, <1>3, NothingOut DEF WireInv
  <2>2. hold[d] = "guard"
    BY <2>1, RequestShape
  <2> QED
    BY <1>1, <2>1, <2>2
<1>4. ASSUME NEW q \in Requests(c), q.op \in {"BEGIN", "COMMIT", "ROLLBACK", "GUARD"}
      PROVE  FALSE
  <2>1. q.op # "GUARD"
    BY <1>1, RequestShape
  <2>2. q.f \in Calls /\ q.f # f
    BY <1>3, <2>1, RequestShape
  <2>3. at[q.f] = q.op
    <3>1. CASE q.op = "BEGIN"
      BY <1>1, <3>1, RequestShape
    <3>2. CASE q.op \in {"COMMIT", "ROLLBACK"}
      BY <1>1, <3>2 DEF WireInv, StillAwaited
    <3> QED
      BY <1>4, <2>1, <3>1, <3>2
  <2>4. tx[q.f] = tx[f] /\ at[q.f] \in Awaited
    BY <1>1, <1>4, <2>1, <2>3, RequestShape DEF Awaited
  <2> QED
    BY <2>2, <2>4 DEF Sends
<1> QED
  BY <1>1, <1>2, <1>3, <1>4

LEMMA WireSends ==
  ASSUME IInv, WireInv, NEW f \in Calls, NEW c \in Conns, NEW op \in Awaited, NEW n \in Nat,
         Sends(f, c, op, n)
  PROVE  WireInv'
<1> USE AwaitedPlaces, NoSuchCall
<1> DEFINE e == [op |-> op, f |-> f, n |-> n]
<1>0. TypeOK
  BY Basics
<1>1. /\ UNCHANGED <<kind, tx, hold, session>> /\ Send(f, c, op, n) /\ MaySend(f, op, n)
      /\ n \in 0 .. BatchRows
      /\ \A g \in Calls \ {f} : tx[g] = tx[f] => at[g] \notin Awaited
      /\ \A g \in Calls \ {f} : at'[g] = at[g] /\ ans'[g] = ans[g] /\ row'[g] = row[g]
  BY DEF Sends, Quiet
<1>2. /\ at'[f] = op /\ row'[f] = n
      /\ \A d \in Conns \ {c} : wire'[d] = wire[d] /\ Requests(d)' = Requests(d)
      /\ alive[c] => ans'[f] = "none" /\ wire'[c] = Append(wire[c], e)
      /\ ~alive[c] => ans'[f] = "err" /\ wire'[c] = wire[c]
  BY <1>0, <1>1, SendFacts DEF Requests
<1>3. e \in Request /\ e.f = f /\ e.op = op /\ e.n = n
  BY <1>1 DEF Request
<1>4. /\ hold[c] = tx[f] /\ tx[f] \in Calls
      /\ at[f] \in {"lock", "droplock"} \/ (at[f] \in Awaited /\ ans[f] # "none")
      /\ op \in {"WRITE", "COMMIT", "ROLLBACK"}
      /\ \A d \in Conns : \A q \in Requests(d) : q.f = f => q.op = "GUARD" /\ d # c
      /\ \A q \in Requests(c) : q.op \notin {"BEGIN", "COMMIT", "ROLLBACK", "GUARD"}
  BY SenderFacts
<1>5. Requests(c)' \subseteq Requests(c) \cup {e}
  <2>1. CASE alive[c]
    BY <1>0, <1>2, <1>3, <2>1, AppendRequests
  <2>2. CASE ~alive[c]
    BY <1>2, <2>2 DEF Requests
  <2> QED
    BY <2>1, <2>2
<1>6. Asks(e)'
  <2>1. kind[f] # "none" /\ (kind[f] = "begin" => at[f] = "droplock" /\ op = "ROLLBACK")
        /\ (kind[f] = "stmt" => op = "WRITE" /\ n = 1) /\ (kind[f] = "commit" => op = "COMMIT")
        /\ (kind[f] = "rollback" => op = "ROLLBACK") /\ (kind[f] = "auto" => op = "COMMIT")
    <3>1. CASE at[f] = "lock"
      BY <1>0, <1>1, <3>1, Basics, KindAt DEF MaySend, Awaited
    <3>2. CASE at[f] # "lock"
      BY <1>1, <3>2 DEF MaySend
    <3> QED
      BY <3>1, <3>2
  <2> QED
    BY <1>1, <1>2, <1>3, <1>4, <2>1 DEF Asks
<1>7. Asked'
  <2> SUFFICES ASSUME NEW d \in Conns, NEW q \in Requests(d)' PROVE Asks(q)'
    BY DEF Asked
  <2>1. CASE q = e
    BY <1>6, <2>1
  <2>2. CASE q # e
    <3>1. q \in Requests(d) /\ q.f \in Calls /\ q.op \in Awaited \cup {"GUARD"}
      BY <1>2, <1>5, <2>2, RequestShape
    <3>2. Asks(q) /\ (q.f = f => q.op = "GUARD")
      BY <1>4, <3>1 DEF WireInv, Asked
    <3>3. CASE q.f = f
      BY <1>1, <1>2, <1>4, <3>2, <3>3 DEF Asks
    <3>4. CASE q.f # f
      BY <1>1, <3>1, <3>2, <3>4 DEF Asks
    <3> QED
      BY <3>3, <3>4
  <2> QED
    BY <2>1, <2>2
<1>8. InTurn'
  <2> SUFFICES ASSUME NEW d \in Conns, NEW i \in DOMAIN wire'[d], NEW j \in DOMAIN wire'[d], i < j
               PROVE  /\ wire'[d][i].op \in {"COMMIT", "ROLLBACK"} => wire'[d][j].op = "GUARD"
                      /\ wire'[d][i].op = "BEGIN" \/ ImplicitBegin =>
                           tx[wire'[d][i].f] = tx[wire'[d][j].f]
                      /\ wire'[d][i].f = wire'[d][j].f => wire'[d][j].op = "GUARD"
    BY <1>1 DEF InTurn
  <2>1. CASE wire'[d] = wire[d]
    BY <2>1 DEF WireInv, InTurn
  <2>2. CASE wire'[d] # wire[d]
    <3>1. d = c /\ alive[c]
      BY <1>2, <2>2
    <3>2. /\ DOMAIN wire[c] = 1 .. Len(wire[c]) /\ Len(wire[c]) \in Nat
          /\ DOMAIN wire'[c] = 1 .. Len(wire[c]) + 1
          /\ \A k \in 1 .. Len(wire[c]) : wire'[c][k] = wire[c][k]
          /\ wire'[c][Len(wire[c]) + 1] = e
      BY <1>0, <1>2, <1>3, <3>1, AppendRequests
    <3>3. i \in DOMAIN wire[c] /\ wire'[c][i] = wire[c][i]
      BY <3>1, <3>2
    <3>4. CASE j \in DOMAIN wire[c]
      <4>1. wire'[c][j] = wire[c][j]
        BY <3>2, <3>4
      <4> QED
        BY <3>1, <3>3, <3>4, <4>1 DEF WireInv, InTurn
    <3>5. CASE j \notin DOMAIN wire[c]
      <4>1. j = Len(wire[c]) + 1
        BY <3>1, <3>2, <3>5
      <4>2. wire'[c][j].f = f
        BY <1>3, <3>2, <4>1
      <4>3. wire[c][i].op \notin {"BEGIN", "COMMIT", "ROLLBACK"} /\ wire[c][i].f # f
        BY <1>4, <3>3 DEF Requests
      <4>4. ImplicitBegin => tx[wire[c][i].f] = hold[c]
        BY <1>4, <3>3 DEF IInv, OwnRequests
      <4> QED
        BY <1>4, <3>1, <3>3, <4>2, <4>3, <4>4
    <3> QED
      BY <3>4, <3>5
  <2> QED
    BY <2>1, <2>2
<1>9. StillAwaited'
  <2> SUFFICES ASSUME NEW d \in Conns, hold[d] \in Calls, NEW q \in Requests(d)',
                      q.op \in {"COMMIT", "ROLLBACK"}
               PROVE  at'[q.f] = q.op
    BY <1>1 DEF StillAwaited
  <2>1. CASE q = e
    BY <1>2, <1>3, <2>1
  <2>2. CASE q # e
    <3>1. q \in Requests(d) /\ q.f \in Calls
      BY <1>2, <1>5, <2>2, RequestShape
    <3>2. q.f # f /\ at[q.f] = q.op
      BY <1>4, <3>1 DEF WireInv, StillAwaited
    <3> QED
      BY <1>1, <3>1, <3>2
  <2> QED
    BY <2>1, <2>2
<1>10. AnsweredLast'
  <2> SUFFICES ASSUME NEW d \in Conns, NEW g \in Calls,
                      at'[g] \in Awaited, ans'[g] # "none", hold[d] = tx[g]
               PROVE  wire'[d] = <<>>
    BY <1>1 DEF AnsweredLast
  <2>1. CASE g = f
    <3>1. d = c /\ ~alive[c]
      BY <1>2, <1>4, <2>1, Basics
    <3> QED
      BY <1>2, <3>1, Basics
  <2>2. CASE g # f
    <3>1. at[g] \in Awaited /\ ans[g] # "none" /\ d # c
      BY <1>1, <1>4, <2>2
    <3> QED
      BY <1>2, <3>1 DEF WireInv, AnsweredLast
  <2> QED
    BY <2>1, <2>2
<1>11. OnlyWrites'
  <2> SUFFICES ASSUME ClosesBroken, NEW d \in Conns,
                      hold[d] = "pool" \/ (hold[d] \in Calls /\ kind[hold[d]] = "auto"),
                      NEW q \in Requests(d)'
               PROVE  q.op = "WRITE"
    BY <1>1 DEF OnlyWrites
  <2>1. d # c
    BY <1>1, <1>4, BackendFacts DEF MaySend
  <2> QED
    BY <1>2, <2>1 DEF WireInv, OnlyWrites
<1>12. OneControl'
  <2> SUFFICES ASSUME NEW g \in Calls, at'[g] \in {"COMMIT", "ROLLBACK"}
               PROVE  /\ \A k \in Calls :
                           at'[k] \in {"COMMIT", "ROLLBACK"} /\ tx[k] = tx[g] => k = g
                      /\ \E d \in Conns : hold[d] = tx[g]
    BY <1>1 DEF OneControl
  <2>1. CASE g = f
    BY <1>1, <1>4, <2>1 DEF Awaited
  <2>2. CASE g # f
    <3>1. at[g] \in {"COMMIT", "ROLLBACK"} /\ tx[g] # tx[f]
      BY <1>1, <2>2 DEF Awaited
    <3> QED
      BY <1>1, <3>1 DEF WireInv, OneControl
  <2> QED
    BY <2>1, <2>2
<1>13. RowShape'
  <2> SUFFICES ASSUME NEW g \in Calls
               PROVE  /\ kind[g] = "many" /\ at'[g] = "BEGIN" => row'[g] = 0
                      /\ kind[g] = "script" /\ at'[g] = "WRITE" => row'[g] = 1
    BY <1>1 DEF RowShape
  <2>1. CASE g = f
    <3>1. kind[f] = "script" /\ op = "WRITE" => n = 1
      BY <1>1 DEF MaySend
    <3> QED
      BY <1>2, <1>4, <2>1, <3>1
  <2>2. CASE g # f
    BY <1>1, <2>2 DEF WireInv, RowShape
  <2> QED
    BY <2>1, <2>2
<1> QED
  BY <1>7, <1>8, <1>9, <1>10, <1>11, <1>12, <1>13 DEF WireInv

\* Who gives a connection up, the wire keeps its requests, and a guard adds its own.
LEMMA GiverFacts ==
  ASSUME IInv, WireInv, NEW f \in Calls, NEW c \in Conns, GivesUp(f, c)
  PROVE  /\ hold'[c] \in {"guard", "closed", "pool"} /\ hold[c] = tx[f]
         /\ \A d \in Conns \ {c} : hold'[d] = hold[d] /\ wire'[d] = wire[d] /\ Requests(d)' = Requests(d)
         /\ hold'[c] # "guard" => wire'[c] = wire[c] /\ Requests(c)' = Requests(c)
         /\ hold'[c] = "guard" =>
              /\ kind[tx[f]] \in {"begin", "many"} /\ tx[tx[f]] = tx[f]
              /\ wire'[c] = Append(wire[c], [op |-> "GUARD", f |-> tx[f], n |-> 0])
              /\ Requests(c)' = Requests(c) \cup {[op |-> "GUARD", f |-> tx[f], n |-> 0]}
         /\ [op |-> "GUARD", f |-> tx[f], n |-> 0] \in Request
         /\ \A g \in Calls \ {f} : tx[g] = tx[f] => at[g] \notin {"COMMIT", "ROLLBACK"}
<1> USE AwaitedPlaces, NoSuchCall
<1>1. /\ hold[c] = tx[f] /\ tx[f] \in Calls /\ TypeOK /\ CallShape
      /\ at[f] \in Awaited /\ kind[f] # "stmt" /\ kind[f] \in Kinds
  BY Basics DEF GivesUp
<1>2. [op |-> "GUARD", f |-> tx[f], n |-> 0] \in Request
  BY <1>1, BatchAssumption DEF Request
<1>3. \A d \in Conns \ {c} : hold'[d] = hold[d] /\ wire'[d] = wire[d] /\ Requests(d)' = Requests(d)
  BY DEF GivesUp, Leaves, Requests
<1>4. /\ hold'[c] \in {"guard", "closed", "pool"}
      /\ hold'[c] # "guard" => wire'[c] = wire[c]
      /\ hold'[c] = "guard" =>
              /\ kind[tx[f]] \in {"begin", "many"} /\ tx[tx[f]] = tx[f]
              /\ wire'[c] = Append(wire[c], [op |-> "GUARD", f |-> tx[f], n |-> 0])
  BY DEF GivesUp, Leaves
<1>5. /\ wire'[c] = wire[c] => Requests(c)' = Requests(c)
      /\ wire'[c] = Append(wire[c], [op |-> "GUARD", f |-> tx[f], n |-> 0]) =>
           Requests(c)' = Requests(c) \cup {[op |-> "GUARD", f |-> tx[f], n |-> 0]}
  BY <1>1, <1>2, AppendRequests, RequestFacts
<1>6. ASSUME NEW g \in Calls \ {f}, tx[g] = tx[f], at[g] \in {"COMMIT", "ROLLBACK"}
      PROVE  FALSE
  <2>1. CASE at[f] \in {"COMMIT", "ROLLBACK"}
    BY <1>6, <2>1 DEF WireInv, OneControl
  <2>2. CASE at[f] \in {"BEGIN", "WRITE"}
    <3>1. kind[f] \in Pooled
      BY <1>1, <2>2 DEF CallShape, Kinds, Pooled
    <3> QED
      BY <1>6, <2>2, <3>1, NotShared
  <2> QED
    BY <1>1, <2>1, <2>2 DEF Awaited
<1> QED
  BY <1>1, <1>2, <1>3, <1>4, <1>5, <1>6

LEMMA WireGives ==
  ASSUME IInv, WireInv, NEW f \in Calls, NEW c \in Conns, GivesUp(f, c)
  PROVE  WireInv'
<1> USE AwaitedPlaces, NoSuchCall
<1> DEFINE e == [op |-> "GUARD", f |-> tx[f], n |-> 0]
<1>1. /\ UNCHANGED <<kind, tx, row>> /\ at[f] \in Awaited /\ at'[f] \in {"done", "cancelled"}
      /\ at'[f] = "done" => ans[f] # "none"
      /\ \A g \in Calls \ {f} : at'[g] = at[g] /\ ans'[g] = ans[g]
  BY DEF GivesUp, Quiet, Kept
<1>2. /\ hold'[c] \in {"guard", "closed", "pool"} /\ hold[c] = tx[f] /\ tx[f] \in Calls
      /\ \A d \in Conns \ {c} : hold'[d] = hold[d] /\ wire'[d] = wire[d] /\ Requests(d)' = Requests(d)
      /\ hold'[c] # "guard" => wire'[c] = wire[c] /\ Requests(c)' = Requests(c)
      /\ hold'[c] = "guard" =>
           /\ kind[tx[f]] \in {"begin", "many"} /\ tx[tx[f]] = tx[f]
           /\ wire'[c] = Append(wire[c], e) /\ Requests(c)' = Requests(c) \cup {e}
      /\ e \in Request /\ e.op = "GUARD" /\ e.f = tx[f]
      /\ \A g \in Calls \ {f} : tx[g] = tx[f] => at[g] \notin {"COMMIT", "ROLLBACK"}
  BY GiverFacts, Basics
<1>3. Asked'
  <2> SUFFICES ASSUME NEW d \in Conns, NEW q \in Requests(d)' PROVE Asks(q)'
    BY DEF Asked
  <2>1. CASE q \in Requests(d)
    <3>1. Asks(q) /\ q.f \in Calls /\ q.op \in Awaited \cup {"GUARD"}
      BY <2>1, RequestShape DEF WireInv, Asked
    <3>2. CASE q.f # f
      BY <1>1, <3>1, <3>2 DEF Asks
    <3>3. CASE q.f = f
      <4>1. q.op = "GUARD" \/ at'[f] = "cancelled"
        BY <1>1, <2>1, <3>3, NothingOut, RequestShape DEF WireInv
      <4> QED
        BY <1>1, <3>1, <3>3, <4>1 DEF Asks
    <3> QED
      BY <3>2, <3>3
  <2>2. CASE q \notin Requests(d)
    <3>1. q = e /\ hold'[c] = "guard"
      BY <1>2, <2>2
    <3>2. at'[tx[f]] # "GUARD"
      BY <1>1, <1>2, Basics
    <3>3. q.op = "GUARD" /\ q.f = tx[f] /\ kind[tx[f]] \in {"begin", "many"} /\ kind' = kind
      BY <1>1, <1>2, <3>1
    <3> QED
      BY <3>2, <3>3 DEF Asks
  <2> QED
    BY <2>1, <2>2
<1>4. InTurn'
  <2> SUFFICES ASSUME NEW d \in Conns, NEW i \in DOMAIN wire'[d], NEW j \in DOMAIN wire'[d], i < j
               PROVE  /\ wire'[d][i].op \in {"COMMIT", "ROLLBACK"} => wire'[d][j].op = "GUARD"
                      /\ wire'[d][i].op = "BEGIN" \/ ImplicitBegin =>
                           tx[wire'[d][i].f] = tx[wire'[d][j].f]
                      /\ wire'[d][i].f = wire'[d][j].f => wire'[d][j].op = "GUARD"
    BY <1>1 DEF InTurn
  <2>1. CASE wire'[d] = wire[d]
    BY <2>1 DEF WireInv, InTurn
  <2>2. CASE wire'[d] # wire[d]
    <3>1. d = c /\ hold'[c] = "guard"
      BY <1>2, <2>2
    <3>2. /\ DOMAIN wire[c] = 1 .. Len(wire[c]) /\ Len(wire[c]) \in Nat
          /\ DOMAIN wire'[c] = 1 .. Len(wire[c]) + 1
          /\ \A k \in 1 .. Len(wire[c]) : wire'[c][k] = wire[c][k]
          /\ wire'[c][Len(wire[c]) + 1] = e
      BY <1>2, <3>1, Basics, AppendRequests
    <3>3. i \in DOMAIN wire[c] /\ wire'[c][i] = wire[c][i]
      BY <3>1, <3>2
    <3>4. CASE j \in DOMAIN wire[c]
      <4>1. wire'[c][j] = wire[c][j]
        BY <3>2, <3>4
      <4> QED
        BY <3>1, <3>3, <3>4, <4>1 DEF WireInv, InTurn
    <3>5. CASE j \notin DOMAIN wire[c]
      <4>1. j = Len(wire[c]) + 1
        BY <3>1, <3>2, <3>5
      <4>2. wire'[c][j].f = tx[f] /\ wire'[c][j].op = "GUARD"
        BY <1>2, <3>2, <4>1
      <4>3. wire[c][i].op = "BEGIN" => wire[c][i].f = tx[f]
        BY <1>2, <3>3, RequestShape DEF Requests
      <4>4. ImplicitBegin => tx[wire[c][i].f] = tx[f]
        BY <1>2, <3>3 DEF IInv, OwnRequests
      <4> QED
        BY <1>2, <3>1, <3>3, <4>2, <4>3, <4>4
    <3> QED
      BY <3>4, <3>5
  <2> QED
    BY <2>1, <2>2
<1>5. StillAwaited'
  <2> SUFFICES ASSUME NEW d \in Conns, hold'[d] \in Calls, NEW q \in Requests(d)',
                      q.op \in {"COMMIT", "ROLLBACK"}
               PROVE  at'[q.f] = q.op
    BY DEF StillAwaited
  <2>1. d # c /\ hold[d] = hold'[d] /\ q \in Requests(d)
    BY <1>2
  <2>2. at[q.f] = q.op /\ q.f \in Calls /\ hold[d] = tx[q.f]
    BY <2>1, RequestShape DEF WireInv, StillAwaited
  <2>3. q.f # f
    BY <1>2, <2>1, <2>2, Basics
  <2> QED
    BY <1>1, <2>2, <2>3
<1>6. AnsweredLast'
  <2> SUFFICES ASSUME NEW d \in Conns, NEW g \in Calls,
                      at'[g] \in Awaited, ans'[g] # "none", hold'[d] = tx[g]
               PROVE  wire'[d] = <<>>
    BY <1>1 DEF AnsweredLast
  <2>1. g # f /\ d # c
    BY <1>1, <1>2, Basics
  <2> QED
    BY <1>1, <1>2, <2>1 DEF WireInv, AnsweredLast
<1>7. OnlyWrites'
  <2> SUFFICES ASSUME ClosesBroken, NEW d \in Conns,
                      hold'[d] = "pool" \/ (hold'[d] \in Calls /\ kind[hold'[d]] = "auto"),
                      NEW q \in Requests(d)'
               PROVE  q.op = "WRITE"
    BY <1>1 DEF OnlyWrites
  <2>1. CASE d = c
    <3>1. hold'[c] = "pool"
      BY <1>2, <2>1
    <3>2. \A p \in Requests(c) : p.op = "WRITE"
      BY <3>1 DEF GivesUp, Leaves
    <3> QED
      BY <1>2, <2>1, <3>1, <3>2
  <2>2. CASE d # c
    BY <1>2, <2>2 DEF WireInv, OnlyWrites
  <2> QED
    BY <2>1, <2>2
<1>8. OneControl'
  <2> SUFFICES ASSUME NEW g \in Calls, at'[g] \in {"COMMIT", "ROLLBACK"}
               PROVE  /\ \A k \in Calls :
                           at'[k] \in {"COMMIT", "ROLLBACK"} /\ tx[k] = tx[g] => k = g
                      /\ \E d \in Conns : hold'[d] = tx[g]
    BY <1>1 DEF OneControl
  <2>1. g # f /\ at[g] \in {"COMMIT", "ROLLBACK"}
    BY <1>1
  <2>2. PICK d \in Conns : hold[d] = tx[g]
    BY <2>1 DEF WireInv, OneControl
  <2>3. d # c
    BY <1>2, <2>1, <2>2
  <2>4. \A k \in Calls : at'[k] \in {"COMMIT", "ROLLBACK"} /\ tx[k] = tx[g] => k = g
    BY <1>1, <2>1 DEF WireInv, OneControl
  <2> QED
    BY <1>2, <2>2, <2>3, <2>4
<1>9. RowShape'
  <2>1. \A g \in Calls : at'[g] \in {"BEGIN", "WRITE"} => at'[g] = at[g]
    BY <1>1
  <2> QED
    BY <1>1, <2>1 DEF WireInv, RowShape
<1> QED
  BY <1>3, <1>4, <1>5, <1>6, <1>7, <1>8, <1>9 DEF WireInv

LEMMA WireTakes ==
  ASSUME IInv, WireInv, NEW f \in Calls, NEW c \in Conns, NEW op \in {"handle", "BEGIN", "WRITE"},
         Takes(f, c, op), TypeOK'
  PROVE  WireInv'
<1> USE AwaitedPlaces, NoSuchCall
<1> DEFINE e == [op |-> op, f |-> f, n |-> row'[f]]
<1>1. /\ UNCHANGED <<kind, tx>> /\ at[f] = "get" /\ kind[f] \in Pooled /\ tx[f] = f
      /\ op \in Opening(f) /\ at'[f] = op /\ ans'[f] = "none" /\ row'[f] = IF op = "WRITE" THEN 1 ELSE 0
      /\ \A g \in Calls \ {f} : at'[g] = at[g] /\ ans'[g] = ans[g] /\ row'[g] = row[g]
      /\ hold[c] \in {"pool", "closed"} /\ hold'[c] = f
      /\ wire[c] = <<>> \/ (hold[c] = "pool" /\ ClosesBroken)
  BY DEF Takes
<1>2. \A d \in Conns \ {c} : hold'[d] = hold[d] /\ wire'[d] = wire[d] /\ Requests(d)' = Requests(d)
  BY DEF Takes, ElseSame, Requests
<1>3. /\ op \in {"BEGIN", "WRITE"} => e \in Request
      /\ e.op = op /\ e.f = f /\ e.n = row'[f]
  <2>1. row'[f] \in 0 .. BatchRows
    BY DEF TypeOK
  <2> QED
    BY <2>1 DEF Request, Awaited
<1>4. op = "handle" => wire'[c] = wire[c] /\ Requests(c)' = Requests(c)
  BY DEF Takes, Requests
<1>5. op # "handle" => wire'[c] = Append(wire[c], e) /\ Requests(c)' = Requests(c) \cup {e}
  <2>1. op # "handle" => wire'[c] = Append(wire[c], e)
    BY DEF Takes
  <2> QED
    BY <1>3, <2>1, Basics, AppendRequests
<1>6. \A d \in Conns : \A q \in Requests(d) : q.f \in Calls /\ q.f # f
  BY <1>1, RequestShape
<1>7. \A q \in Requests(c) : q.op = "WRITE" /\ ~ImplicitBegin
  <2> SUFFICES ASSUME NEW q \in Requests(c) PROVE q.op = "WRITE" /\ ~ImplicitBegin
    OBVIOUS
  <2>1. wire[c] # <<>>
    BY RequestFacts, Basics
  <2> QED
    BY <1>1, <2>1, BackendFacts DEF WireInv, OnlyWrites
<1>8. Asked'
  <2> SUFFICES ASSUME NEW d \in Conns, NEW q \in Requests(d)' PROVE Asks(q)'
    BY DEF Asked
  <2>1. CASE q \in Requests(d)
    <3>1. Asks(q) /\ q.f \in Calls /\ q.f # f
      BY <1>6, <2>1 DEF WireInv, Asked
    <3> QED
      BY <1>1, <3>1 DEF Asks
  <2>2. CASE q \notin Requests(d)
    <3>1. q = e /\ op # "handle"
      BY <1>2, <1>4, <1>5, <2>2
    <3> QED
      BY <1>1, <1>3, <3>1 DEF Asks, Opening, Pooled
  <2> QED
    BY <2>1, <2>2
<1>9. InTurn'
  <2> SUFFICES ASSUME NEW d \in Conns, NEW i \in DOMAIN wire'[d], NEW j \in DOMAIN wire'[d], i < j
               PROVE  /\ wire'[d][i].op \in {"COMMIT", "ROLLBACK"} => wire'[d][j].op = "GUARD"
                      /\ wire'[d][i].op = "BEGIN" \/ ImplicitBegin =>
                           tx[wire'[d][i].f] = tx[wire'[d][j].f]
                      /\ wire'[d][i].f = wire'[d][j].f => wire'[d][j].op = "GUARD"
    BY <1>1 DEF InTurn
  <2>1. CASE wire'[d] = wire[d]
    BY <2>1 DEF WireInv, InTurn
  <2>2. CASE wire'[d] # wire[d]
    <3>1. d = c /\ op # "handle"
      BY <1>2, <1>4, <2>2
    <3>2. /\ DOMAIN wire[c] = 1 .. Len(wire[c]) /\ Len(wire[c]) \in Nat
          /\ DOMAIN wire'[c] = 1 .. Len(wire[c]) + 1
          /\ \A k \in 1 .. Len(wire[c]) : wire'[c][k] = wire[c][k]
          /\ wire'[c][Len(wire[c]) + 1] = e
      BY <1>3, <1>5, <3>1, Basics, AppendRequests
    <3>3. i \in DOMAIN wire[c] /\ wire'[c][i] = wire[c][i]
      BY <3>1, <3>2
    <3>4. wire[c][i] \in Requests(c)
      BY <3>3 DEF Requests
    <3>5. CASE j \in DOMAIN wire[c]
      <4>1. wire'[c][j] = wire[c][j]
        BY <3>2, <3>5
      <4> QED
        BY <3>1, <3>3, <3>5, <4>1 DEF WireInv, InTurn
    <3>6. CASE j \notin DOMAIN wire[c]
      <4>1. j = Len(wire[c]) + 1
        BY <3>1, <3>2, <3>6
      <4>2. wire'[c][j].f = f /\ wire[c][i].f # f
        BY <1>3, <1>6, <3>2, <3>4, <4>1
      <4> QED
        BY <1>7, <3>1, <3>3, <3>4, <4>2
    <3> QED
      BY <3>5, <3>6
  <2> QED
    BY <2>1, <2>2
<1>10. StillAwaited'
  <2> SUFFICES ASSUME NEW d \in Conns, hold'[d] \in Calls, NEW q \in Requests(d)',
                      q.op \in {"COMMIT", "ROLLBACK"}
               PROVE  at'[q.f] = q.op
    BY DEF StillAwaited
  <2>1. d # c
    BY <1>3, <1>4, <1>5, <1>7
  <2>2. q \in Requests(d) /\ hold[d] \in Calls
    BY <1>2, <2>1
  <2> QED
    BY <1>1, <1>6, <2>2 DEF WireInv, StillAwaited
<1>11. AnsweredLast'
  <2> SUFFICES ASSUME NEW d \in Conns, NEW g \in Calls,
                      at'[g] \in Awaited, ans'[g] # "none", hold'[d] = tx[g]
               PROVE  wire'[d] = <<>>
    BY <1>1 DEF AnsweredLast
  <2>1. g # f
    BY <1>1
  <2>2. d # c
    BY <1>1, <2>1, NotShared
  <2> QED
    BY <1>1, <1>2, <2>1, <2>2 DEF WireInv, AnsweredLast
<1>12. OnlyWrites'
  <2> SUFFICES ASSUME ClosesBroken, NEW d \in Conns,
                      hold'[d] = "pool" \/ (hold'[d] \in Calls /\ kind[hold'[d]] = "auto"),
                      NEW q \in Requests(d)'
               PROVE  q.op = "WRITE"
    BY <1>1 DEF OnlyWrites
  <2>1. CASE d = c
    <3>1. kind[f] = "auto"
      BY <1>1, <2>1
    <3>2. op = "WRITE"
      BY <1>1, <3>1 DEF Opening
    <3> QED
      BY <1>3, <1>5, <1>7, <2>1, <3>2
  <2>2. CASE d # c
    BY <1>2, <2>2 DEF WireInv, OnlyWrites
  <2> QED
    BY <2>1, <2>2
<1>13. OneControl'
  <2> SUFFICES ASSUME NEW g \in Calls, at'[g] \in {"COMMIT", "ROLLBACK"}
               PROVE  /\ \A k \in Calls :
                           at'[k] \in {"COMMIT", "ROLLBACK"} /\ tx[k] = tx[g] => k = g
                      /\ \E d \in Conns : hold'[d] = tx[g]
    BY <1>1 DEF OneControl
  <2>1. g # f /\ at[g] \in {"COMMIT", "ROLLBACK"}
    BY <1>1
  <2>2. PICK d \in Conns : hold[d] = tx[g]
    BY <2>1 DEF WireInv, OneControl
  <2>3. d # c
    BY <1>1, <2>2, Basics
  <2>4. \A k \in Calls : at'[k] \in {"COMMIT", "ROLLBACK"} /\ tx[k] = tx[g] => k = g
    BY <1>1, <2>1 DEF WireInv, OneControl
  <2> QED
    BY <1>2, <2>2, <2>3, <2>4
<1>14. RowShape'
  BY <1>1 DEF WireInv, RowShape
<1> QED
  BY <1>8, <1>9, <1>10, <1>11, <1>12, <1>13, <1>14 DEF WireInv

LEMMA WireServes ==
  ASSUME IInv, WireInv, NEW c \in Conns, NEW q \in Request, NEW r \in {"ok", "err"},
         Serves(c, q, r), TypeOK'
  PROVE  WireInv'
<1> USE AwaitedPlaces, NoSuchCall
<1>1. UNCHANGED <<kind, tx, at, row>>
  BY DEF Serves
<1>2. \A d \in Conns \ {c} : hold'[d] = hold[d] /\ wire'[d] = wire[d] /\ Requests(d)' = Requests(d)
  BY DEF Serves, ElseSame, Requests
<1>3. /\ q \in Requests(c) /\ Requests(c)' \subseteq Requests(c)
      /\ \A j \in DOMAIN wire'[c] : j + 1 \in DOMAIN wire[c] /\ wire'[c][j] = wire[c][j + 1]
      /\ q.op = "GUARD" => wire'[c] = <<>>
      /\ at[q.f] = q.op => wire'[c] = <<>> /\ hold[c] = tx[q.f]
      /\ \A g \in Calls : g # q.f \/ at[q.f] # q.op => ans'[g] = ans[g]
      /\ hold'[c] = hold[c] \/ (q.op = "GUARD" /\ hold[c] = "guard" /\ hold'[c] \in {"pool", "closed"})
  BY DEF Serves
<1>4. \A d \in Conns : Requests(d)' \subseteq Requests(d) /\ (hold'[d] \in Calls => hold'[d] = hold[d])
  BY <1>2, <1>3
<1>5. Asked'
  BY <1>1, <1>4 DEF WireInv, Asked, Asks
<1>6. InTurn'
  <2> SUFFICES ASSUME NEW d \in Conns, NEW i \in DOMAIN wire'[d], NEW j \in DOMAIN wire'[d], i < j
               PROVE  /\ wire'[d][i].op \in {"COMMIT", "ROLLBACK"} => wire'[d][j].op = "GUARD"
                      /\ wire'[d][i].op = "BEGIN" \/ ImplicitBegin =>
                           tx[wire'[d][i].f] = tx[wire'[d][j].f]
                      /\ wire'[d][i].f = wire'[d][j].f => wire'[d][j].op = "GUARD"
    BY <1>1 DEF InTurn
  <2>1. CASE d # c
    BY <1>2, <2>1 DEF WireInv, InTurn
  <2>2. CASE d = c
    <3>1. i \in Nat /\ j \in Nat
      <4>1. wire'[d] \in Seq(Request)
        BY DEF TypeOK
      <4> QED
        BY <4>1
    <3>2. i + 1 \in DOMAIN wire[c] /\ j + 1 \in DOMAIN wire[c] /\ i + 1 < j + 1
      BY <1>3, <2>2, <3>1
    <3> QED
      BY <1>3, <2>2, <3>2 DEF WireInv, InTurn
  <2> QED
    BY <2>1, <2>2
<1>7. StillAwaited'
  BY <1>1, <1>4 DEF WireInv, StillAwaited
<1>8. AnsweredLast'
  <2> SUFFICES ASSUME NEW d \in Conns, NEW g \in Calls,
                      at[g] \in Awaited, ans'[g] # "none", hold'[d] = tx[g]
               PROVE  wire'[d] = <<>>
    BY <1>1 DEF AnsweredLast
  <2>1. hold[d] = tx[g] /\ tx[g] \in Calls
    BY <1>4, Basics
  <2>2. CASE ans[g] # "none"
    <3>1. wire[d] = <<>>
      BY <2>1, <2>2 DEF WireInv, AnsweredLast
    <3>2. d # c
      BY <1>3, <3>1, RequestFacts, Basics
    <3> QED
      BY <1>2, <3>1, <3>2
  <2>3. CASE ans[g] = "none"
    <3>1. g = q.f /\ at[q.f] = q.op
      BY <1>3, <2>3
    <3>2. d = c
      BY <1>3, <2>1, <3>1, Basics
    <3> QED
      BY <1>3, <3>1, <3>2
  <2> QED
    BY <2>2, <2>3
<1>9. OnlyWrites'
  <2> SUFFICES ASSUME ClosesBroken, NEW d \in Conns,
                      hold'[d] = "pool" \/ (hold'[d] \in Calls /\ kind[hold'[d]] = "auto"),
                      NEW p \in Requests(d)'
               PROVE  p.op = "WRITE"
    BY <1>1 DEF OnlyWrites
  <2>1. wire'[d] # <<>>
    BY DEF Requests
  <2>2. hold'[d] = hold[d]
    BY <1>2, <1>3, <2>1
  <2> QED
    BY <1>4, <2>2 DEF WireInv, OnlyWrites
<1>10. OneControl'
  <2>1. \A g \in Calls, d \in Conns : hold[d] = tx[g] => hold'[d] = tx[g]
    BY <1>2, <1>3, Basics
  <2> QED
    BY <1>1, <2>1 DEF WireInv, OneControl
<1>11. RowShape'
  BY <1>1 DEF WireInv, RowShape
<1> QED
  BY <1>5, <1>6, <1>7, <1>8, <1>9, <1>10, <1>11 DEF WireInv

LEMMA WireClears ==
  ASSUME IInv, WireInv, NEW c \in Conns, Clears(c)
  PROVE  WireInv'
<1> USE AwaitedPlaces, NoSuchCall
<1>1. UNCHANGED <<kind, tx, at, row>>
  BY DEF Clears
<1>2. \A d \in Conns \ {c} : hold'[d] = hold[d] /\ wire'[d] = wire[d] /\ Requests(d)' = Requests(d)
  BY DEF Clears, ElseSame, Requests
<1>3. /\ wire'[c] = <<>> /\ Requests(c)' = {} /\ DOMAIN wire'[c] = {}
      /\ hold'[c] = hold[c] \/ (hold[c] = "guard" /\ hold'[c] \in {"pool", "closed"})
      /\ \A g \in Calls : ans'[g] = ans[g] \/ hold[c] = tx[g]
  BY DEF Clears, Requests
<1>4. \A d \in Conns : /\ Requests(d)' \subseteq Requests(d)
                       /\ hold'[d] \in Calls => hold'[d] = hold[d]
                       /\ hold[d] \in Calls => hold'[d] = hold[d]
                       /\ d = c \/ hold'[d] = hold[d]
  BY <1>2, <1>3
<1>5. Asked'
  BY <1>1, <1>4 DEF WireInv, Asked, Asks
<1>6. InTurn'
  <2>1. \A d \in Conns : wire'[d] = wire[d] \/ DOMAIN wire'[d] = {}
    BY <1>2, <1>3
  <2> QED
    BY <1>1, <2>1 DEF WireInv, InTurn
<1>7. StillAwaited'
  BY <1>1, <1>4 DEF WireInv, StillAwaited
<1>8. AnsweredLast'
  <2> SUFFICES ASSUME NEW d \in Conns, NEW g \in Calls,
                      at[g] \in Awaited, ans'[g] # "none", hold'[d] = tx[g], d # c
               PROVE  wire'[d] = <<>>
    BY <1>1, <1>3 DEF AnsweredLast
  <2>1. hold[d] = tx[g] /\ tx[g] \in Calls /\ hold[c] # tx[g]
    BY <1>2, Basics
  <2> QED
    BY <1>2, <1>3, <2>1 DEF WireInv, AnsweredLast
<1>9. OnlyWrites'
  BY <1>1, <1>2, <1>3 DEF WireInv, OnlyWrites
<1>10. OneControl'
  <2>1. \A g \in Calls, d \in Conns : hold[d] = tx[g] => hold'[d] = tx[g]
    BY <1>4, Basics
  <2> QED
    BY <1>1, <2>1 DEF WireInv, OneControl
<1>11. RowShape'
  BY <1>1 DEF WireInv, RowShape
<1> QED
  BY <1>5, <1>6, <1>7, <1>8, <1>9, <1>10, <1>11 DEF WireInv

LEMMA WireCloses ==
  ASSUME IInv, WireInv, Closes
  PROVE  WireInv'
<1> USE AwaitedPlaces, NoSuchCall
<1>1. UNCHANGED <<kind, tx, at, ans, row, wire>>
  BY DEF Closes
<1>2. \A d \in Conns : /\ Requests(d)' = Requests(d)
                       /\ hold'[d] \in Calls \cup {"pool"} => hold'[d] = hold[d]
                       /\ hold[d] \in Calls => hold'[d] = hold[d]
  BY DEF Closes, Requests
<1>3. Asked'
  BY <1>1, <1>2 DEF WireInv, Asked, Asks
<1>4. InTurn'
  BY <1>1 DEF WireInv, InTurn
<1>5. StillAwaited'
  BY <1>1, <1>2 DEF WireInv, StillAwaited
<1>6. AnsweredLast'
  BY <1>1, <1>2, Basics DEF WireInv, AnsweredLast
<1>7. OnlyWrites'
  BY <1>1, <1>2 DEF WireInv, OnlyWrites
<1>8. OneControl'
  BY <1>1, <1>2, Basics DEF WireInv, OneControl
<1>9. RowShape'
  BY <1>1 DEF WireInv, RowShape
<1> QED
  BY <1>3, <1>4, <1>5, <1>6, <1>7, <1>8, <1>9 DEF WireInv

LEMMA WireStep ==
  ASSUME IInv, WireInv, Step, TypeOK'
  PROVE  WireInv'
BY WireBorn, WireMoves, WireSends, WireGives, WireTakes, WireServes, WireClears, WireCloses DEF Step

-----------------------------------------------------------------------------
(* Where a transaction is. *)

\* A transaction gets to a connection by its checkout only.
LEMMA SiteStep ==
  ASSUME IInv, WireInv, Step, NEW c \in Conns, NEW h \in Calls, Site(c, h)'
  PROVE  Site(c, h) \/ (at[h] = "get" /\ hold'[c] = h)
<1> USE AwaitedPlaces, NoSuchCall
<1>1. CASE \E f \in Calls : Born(f) \/ Moves(f)
  <2>1. PICK f \in Calls : Born(f) \/ Moves(f)
    BY <1>1
  <2>2. /\ UNCHANGED <<hold, wire, session>> /\ \A g \in Calls \ {f} : tx'[g] = tx[g]
        /\ at[f] = "new" \/ tx' = tx
    BY <2>1 DEF Born, Moves, Quiet, Kept
  <2>3. \A q \in Requests(c) : q.f \in Calls /\ at[q.f] # "new"
    BY RequestShape
  <2>4. \A q \in Requests(c) : tx'[q.f] = tx[q.f]
    BY <2>2, <2>3
  <2>5. Requests(c)' = Requests(c)
    BY <2>2 DEF Requests
  <2> QED
    BY <2>2, <2>4, <2>5 DEF Site
<1>2. CASE \E f \in Calls, d \in Conns, op \in Awaited, n \in Nat : Sends(f, d, op, n)
  <2>1. PICK f \in Calls, d \in Conns, op \in Awaited, n \in Nat : Sends(f, d, op, n)
    BY <1>2
  <2>2. /\ UNCHANGED <<hold, session, tx>> /\ hold[d] = tx[f] /\ Send(f, d, op, n)
        /\ n \in 0 .. BatchRows
    BY <2>1 DEF Sends, Quiet
  <2>3. [op |-> op, f |-> f, n |-> n] \in Request
    BY <2>2 DEF Request
  <2>4. \/ Requests(c)' = Requests(c)
        \/ d = c /\ Requests(c)' = Requests(c) \cup {[op |-> op, f |-> f, n |-> n]}
    <3>1. \/ wire'[c] = wire[c]
          \/ d = c /\ wire'[c] = Append(wire[c], [op |-> op, f |-> f, n |-> n])
      BY <2>2, Basics, SendFacts
    <3> QED
      BY <2>3, <3>1, Basics, AppendRequests, RequestFacts
  <2> QED
    BY <2>2, <2>4 DEF Site
<1>3. CASE \E f \in Calls, d \in Conns : GivesUp(f, d)
  <2>1. PICK f \in Calls, d \in Conns : GivesUp(f, d)
    BY <1>3
  <2>2. UNCHANGED <<session, tx>>
    BY <2>1 DEF GivesUp, Quiet, Kept
  <2>3. /\ hold'[d] \in {"guard", "closed", "pool"} /\ hold[d] = tx[f]
        /\ \A b \in Conns \ {d} : hold'[b] = hold[b] /\ Requests(b)' = Requests(b)
    BY <2>1 DEF GivesUp, Leaves, Requests
  <2>4. CASE hold'[d] = "guard"
    <3>1. /\ tx[tx[f]] = tx[f]
          /\ Requests(d)' = Requests(d) \cup {[op |-> "GUARD", f |-> tx[f], n |-> 0]}
      BY <2>1, <2>4, GiverFacts
    <3> QED
      BY <2>2, <2>3, <3>1 DEF Site
  <2>5. CASE hold'[d] # "guard"
    <3>1. Requests(d)' = Requests(d)
      BY <2>1, <2>5, GiverFacts
    <3> QED
      BY <2>2, <2>3, <3>1 DEF Site
  <2> QED
    BY <2>4, <2>5
<1>4. CASE \E f \in Calls, d \in Conns, op \in {"handle", "BEGIN", "WRITE"} : Takes(f, d, op)
  <2>1. PICK f \in Calls, d \in Conns, op \in {"handle", "BEGIN", "WRITE"} : Takes(f, d, op)
    BY <1>4
  <2>2. /\ tx' = tx /\ at[f] = "get" /\ tx[f] = f /\ hold'[d] = f /\ session'[d] \in {session[d], "none"}
        /\ wire'[d] = IF op = "handle" THEN wire[d]
                        ELSE Append(wire[d], [op |-> op, f |-> f, n |-> row'[f]])
        /\ row'[f] = IF op = "WRITE" THEN 1 ELSE 0
    BY <2>1 DEF Takes, Ends
  <2>3. \A b \in Conns \ {d} : hold'[b] = hold[b] /\ session'[b] = session[b] /\ Requests(b)' = Requests(b)
    BY <2>1 DEF Takes, ElseSame, Requests
  <2>4. Requests(d)' \subseteq Requests(d) \cup {[op |-> op, f |-> f, n |-> row'[f]]}
    <3>1. CASE op = "handle"
      BY <2>2, <3>1 DEF Requests
    <3>2. CASE op # "handle"
      <4>1. [op |-> op, f |-> f, n |-> row'[f]] \in Request
        BY <2>2, <3>2, BatchAssumption DEF Request, Awaited
      <4>2. wire'[d] = Append(wire[d], [op |-> op, f |-> f, n |-> row'[f]])
        BY <2>2, <3>2
      <4> QED
        BY <4>1, <4>2, Basics, AppendRequests
    <3> QED
      BY <3>1, <3>2
  <2> QED
    BY <2>2, <2>3, <2>4 DEF Site
<1>5. CASE \E d \in Conns, q \in Request, r \in {"ok", "err"} : Serves(d, q, r)
  <2>1. PICK d \in Conns, q \in Request, r \in {"ok", "err"} : Serves(d, q, r)
    BY <1>5
  <2>2. /\ tx' = tx /\ q \in Requests(d) /\ Requests(d)' \subseteq Requests(d)
        /\ hold'[d] = hold[d] \/ hold'[d] \in {"pool", "closed"}
    BY <2>1 DEF Serves
  <2>3. session'[d] \in {session[d], "none", tx[q.f]}
    BY <2>1 DEF Serves, Effect, Ends
  <2>4. \A b \in Conns \ {d} : hold'[b] = hold[b] /\ session'[b] = session[b] /\ Requests(b)' = Requests(b)
    BY <2>1 DEF Serves, ElseSame, Requests
  <2> QED
    BY <2>2, <2>3, <2>4 DEF Site
<1>6. CASE \E d \in Conns : Clears(d)
  <2>1. PICK d \in Conns : Clears(d)
    BY <1>6
  <2>2. /\ tx' = tx /\ Requests(d)' = {} /\ session'[d] = "none"
        /\ hold'[d] = hold[d] \/ hold'[d] \in {"pool", "closed"}
    BY <2>1 DEF Clears, Ends, Requests
  <2>3. \A b \in Conns \ {d} : hold'[b] = hold[b] /\ session'[b] = session[b] /\ Requests(b)' = Requests(b)
    BY <2>1 DEF Clears, ElseSame, Requests
  <2> QED
    BY <2>2, <2>3 DEF Site
<1>7. CASE Closes
  <2>1. UNCHANGED <<tx, session>> /\ Requests(c)' = Requests(c) /\ hold'[c] \in {hold[c], "closed"}
    BY <1>7 DEF Closes, Requests
  <2> QED
    BY <2>1 DEF Site
<1> QED
  BY <1>1, <1>2, <1>3, <1>4, <1>5, <1>6, <1>7 DEF Step

\* A call past its checkout never waits for one again, and keeps its kind and transaction.
LEMMA Onward ==
  ASSUME IInv, Step, NEW f \in Calls
  PROVE  /\ at'[f] \in {"new", "get"} => at[f] \in {"new", "get"}
         /\ at'[f] = "BEGIN" => at[f] \in {"BEGIN", "get"}
         /\ at[f] # "new" => kind'[f] = kind[f] /\ tx'[f] = tx[f]
         /\ at[f] = "done" => at'[f] = "done" /\ ans'[f] = ans[f]
<1> USE AwaitedPlaces, NoSuchCall
<1>1. CASE \E g \in Calls : Born(g) \/ Moves(g)
  BY <1>1 DEF Born, Moves, Quiet, Kept
<1>2. CASE \E g \in Calls, d \in Conns, op \in Awaited, n \in Nat : Sends(g, d, op, n)
  <2>1. PICK g \in Calls, d \in Conns, op \in Awaited, n \in Nat : Sends(g, d, op, n)
    BY <1>2
  <2>2. UNCHANGED <<kind, tx>> /\ Send(g, d, op, n)
        /\ \A k \in Calls \ {g} : at'[k] = at[k] /\ ans'[k] = ans[k]
    BY <2>1 DEF Sends, Quiet
  <2>3. at'[g] = op
    BY <2>2, Basics, SendFacts
  <2>4. at[g] # "done" /\ op \notin {"new", "get", "BEGIN"}
    BY <2>1 DEF Sends, MaySend
  <2> QED
    BY <2>2, <2>3, <2>4
<1>3. CASE \E g \in Calls, d \in Conns : GivesUp(g, d)
  BY <1>3 DEF GivesUp, Quiet, Kept
<1>4. CASE \E g \in Calls, d \in Conns, op \in {"handle", "BEGIN", "WRITE"} : Takes(g, d, op)
  BY <1>4 DEF Takes
<1>5. CASE \E d \in Conns, q \in Request, r \in {"ok", "err"} : Serves(d, q, r)
  <2>1. PICK d \in Conns, q \in Request, r \in {"ok", "err"} : Serves(d, q, r)
    BY <1>5
  <2>2. UNCHANGED <<kind, tx, at>> /\ q.op \in Awaited \cup {"GUARD"}
        /\ \A g \in Calls : g # q.f \/ at[q.f] # q.op => ans'[g] = ans[g]
    BY <2>1 DEF Serves, Request
  <2> QED
    BY <2>2
<1>6. CASE \E d \in Conns : Clears(d)
  BY <1>6 DEF Clears
<1>7. CASE Closes
  BY <1>7 DEF Closes
<1> QED
  BY <1>1, <1>2, <1>3, <1>4, <1>5, <1>6, <1>7 DEF Step

\* Who is told that its transaction is over gives up the connection of it.
LEMMA Finishes ==
  ASSUME IInv, Step, NEW f \in Calls, Answered(f, "ok")', ~Answered(f, "ok"),
         kind'[f] \in {"commit", "rollback", "auto", "many"}
  PROVE  /\ kind'[f] = kind[f] /\ tx'[f] = tx[f]
         /\ \E c \in Conns : GivesUp(f, c) /\ Good(f) /\ hold'[c] # "guard" /\ ans'[f] = "ok"
<1> USE AwaitedPlaces
<1>0. at'[f] = "done" /\ ans'[f] = "ok" /\ at[f] # "done"
  <2>1. at'[f] = "done" /\ ans'[f] = "ok"
    BY DEF Answered
  <2>2. at[f] = "done" => ans'[f] = ans[f]
    BY Onward
  <2> QED
    BY <2>1, <2>2 DEF Answered
<1>1. CASE \E g \in Calls : Born(g) \/ Moves(g)
  BY <1>0, <1>1 DEF Born, Moves, Quiet, Kept
<1>2. CASE \E g \in Calls, d \in Conns, op \in Awaited, n \in Nat : Sends(g, d, op, n)
  <2>1. PICK g \in Calls, d \in Conns, op \in Awaited, n \in Nat : Sends(g, d, op, n)
    BY <1>2
  <2>2. Send(g, d, op, n) /\ \A k \in Calls \ {g} : at'[k] = at[k]
    BY <2>1 DEF Sends, Quiet
  <2> QED
    BY <1>0, <2>2, Basics, SendFacts
<1>3. CASE \E g \in Calls, d \in Conns : GivesUp(g, d)
  <2>1. PICK g \in Calls, d \in Conns : GivesUp(g, d)
    BY <1>3
  <2>2. g = f
    BY <1>0, <2>1 DEF GivesUp, Quiet
  <2> QED
    BY <1>0, <2>1, <2>2 DEF GivesUp, Kept
<1>4. CASE \E g \in Calls, d \in Conns, op \in {"handle", "BEGIN", "WRITE"} : Takes(g, d, op)
  BY <1>0, <1>4 DEF Takes
<1>5. CASE \/ \E d \in Conns, q \in Request, r \in {"ok", "err"} : Serves(d, q, r)
           \/ \E d \in Conns : Clears(d)
           \/ Closes
  BY <1>0, <1>5 DEF Serves, Clears, Closes
<1> QED
  BY <1>1, <1>2, <1>3, <1>4, <1>5 DEF Step

LEMMA OneSiteStep ==
  ASSUME IInv, WireInv, OneSite, Step, IInv'
  PROVE  OneSite'
<1>1. ASSUME NEW h \in Calls, NEW c \in Conns, NEW d \in Conns, Site(c, h)', Site(d, h)'
      PROVE  c = d
  <2>1. /\ Site(c, h) \/ (at[h] = "get" /\ hold'[c] = h)
        /\ Site(d, h) \/ (at[h] = "get" /\ hold'[d] = h)
    BY <1>1, SiteStep
  <2>2. at[h] = "get" => ~Site(c, h) /\ ~Site(d, h)
    BY DEF OneSite
  <2>3. hold'[c] = h /\ hold'[d] = h => c = d
    BY DEF IInv, Ownership
  <2> QED
    BY <2>1, <2>2, <2>3 DEF OneSite
<1>2. ASSUME NEW h \in Calls, NEW c \in Conns, Site(c, h)', at'[h] \in {"new", "get"}
      PROVE  FALSE
  <2>1. at[h] \in {"new", "get"}
    BY <1>2, Onward
  <2>2. ~Site(c, h)
    BY <2>1 DEF OneSite
  <2>3. at[h] = "get" /\ hold'[c] = h
    BY <1>2, <2>2, SiteStep
  <2>4. kind'[h] \in Pooled /\ at'[h] # "get"
    BY <2>3 DEF IInv, Ownership
  <2>5. at'[h] # "new"
    BY <2>4 DEF IInv, CallShape, Pooled, Awaited
  <2> QED
    BY <1>2, <2>4, <2>5
<1> QED
  BY <1>1, <1>2 DEF OneSite

\* Nothing of a transaction that is over comes back.
LEMMA OverStays ==
  ASSUME IInv, WireInv, Step, NEW h \in Calls, Over(h), at[h] # "get"
  PROVE  Over(h)'
BY SiteStep DEF Over

LEMMA ToldOverStep ==
  ASSUME IInv, WireInv, OneSite, ToldOver, Step, IInv'
  PROVE  ToldOver'
<1> USE AwaitedPlaces, NoSuchCall
<1>1. ASSUME NEW f \in Calls, Answered(f, "ok"),
             kind[f] \in {"commit", "rollback", "auto", "many"}
      PROVE  Over(tx[f])' /\ kind'[f] = kind[f] /\ tx'[f] = tx[f]
             /\ (kind[f] \in {"auto", "many"} => tx[f] = f)
  <2>1. at[f] = "done" /\ kind'[f] = kind[f] /\ tx'[f] = tx[f]
    BY <1>1, Onward DEF Answered
  <2>2. tx[f] \in Calls /\ at[tx[f]] # "get" /\ (kind[f] \in {"auto", "many"} => tx[f] = f)
    BY <1>1, <2>1, Basics DEF CallShape, Pooled
  <2> PICK h \in Calls : h = tx[f]
    BY <2>2
  <2>3. Over(h) /\ at[h] # "get"
    BY <1>1, <2>2 DEF ToldOver
  <2>5. Over(h)'
    BY <2>3, OverStays
  <2>4. Over(tx[f])'
    BY <2>1, <2>5 DEF Over, Site
  <2> QED
    BY <2>1, <2>2, <2>4
<1>2. ASSUME NEW f \in Calls, Answered(f, "ok")', ~Answered(f, "ok"),
             kind'[f] \in {"commit", "rollback", "auto", "many"}
      PROVE  Over(tx[f])' /\ kind'[f] = kind[f] /\ tx'[f] = tx[f]
             /\ (kind[f] \in {"auto", "many"} => tx[f] = f)
  <2>1. /\ kind'[f] = kind[f] /\ tx'[f] = tx[f]
        /\ \E c \in Conns : GivesUp(f, c) /\ Good(f) /\ hold'[c] # "guard"
    BY <1>2, Finishes
  <2>2. PICK c \in Conns : GivesUp(f, c) /\ Good(f) /\ hold'[c] # "guard"
    BY <2>1
  <2>3. /\ hold[c] = tx[f] /\ tx[f] \in Calls /\ at[f] \in Awaited /\ ans[f] = "ok"
        /\ (kind[f] \in {"auto", "many"} => tx[f] = f)
    BY <2>2, Basics DEF GivesUp, Good, CallShape, Pooled
  <2> PICK h \in Calls : h = tx[f] /\ h = tx'[f]
    BY <2>1, <2>3
  <2>4. wire[c] = <<>>
    BY <2>3 DEF WireInv, AnsweredLast
  <2>5. session[c] = "none"
    <3>1. CASE at[f] \in {"COMMIT", "ROLLBACK"}
      BY <2>3, <3>1 DEF IInv, ControlLast
    <3>2. CASE kind[f] = "auto" /\ ~ImplicitBegin
      BY <2>3, <3>2 DEF IInv, AutoClean
    <3> QED
      BY <2>2, <3>1, <3>2 DEF Good
  <2>6. \A d \in Conns \ {c} : ~Site(d, h)
    BY <2>3 DEF OneSite, Site
  <2>7. ~Site(c, h)'
    <3>1. hold'[c] \in {"closed", "pool"} /\ wire'[c] = wire[c]
      BY <2>2, GiverFacts
    <3>2. Requests(c)' = {}
      BY <2>4, <3>1 DEF Requests
    <3>3. session'[c] = session[c]
      BY <2>2 DEF GivesUp, Quiet
    <3> QED
      BY <2>1, <2>3, <2>5, <3>1, <3>2, <3>3 DEF Site
  <2>8. \A d \in Conns \ {c} : ~Site(d, h)'
    <3>1. at[h] # "get"
      BY <2>3, Basics DEF Ownership
    <3> QED
      BY <2>6, <3>1, SiteStep
  <2>9. Over(tx[f])'
    <3>1. Over(h)'
      BY <2>7, <2>8 DEF Over
    <3> QED
      BY <3>1 DEF Over, Site
  <2> QED
    BY <2>1, <2>3, <2>9
<1>3. ASSUME NEW f \in Calls, Answered(f, "ok")'
      PROVE  /\ kind'[f] \in {"commit", "rollback"} => Over(tx[f])'
             /\ kind'[f] \in {"auto", "many"} => Over(f)'
  <2>1. CASE kind'[f] \in {"commit", "rollback", "auto", "many"}
    <3>1. CASE Answered(f, "ok")
      <4>1. kind'[f] = kind[f]
        BY <3>1, Onward DEF Answered
      <4> QED
        BY <1>1, <2>1, <3>1, <4>1
    <3>2. CASE ~Answered(f, "ok")
      BY <1>2, <1>3, <2>1, <3>2
    <3> QED
      BY <3>1, <3>2
  <2>2. CASE kind'[f] \notin {"commit", "rollback", "auto", "many"}
    BY <2>2
  <2> QED
    BY <2>1, <2>2
<1> QED
  BY <1>3 DEF ToldOver

-----------------------------------------------------------------------------
(* What a session has to do with the requests on its way. *)

\* A call is ending transaction h.
Controlled(h) == \E f \in Calls : tx[f] = h /\ at[f] \in {"COMMIT", "ROLLBACK"}

\* Call h has connection c, which works, and nobody is ending its transaction.
Holds(h, c) == hold[c] = h /\ alive[c] /\ ~Controlled(h)

\* h goes on to write; h got an answer to its BEGIN.
WillWrite(h) == kind[h] \in {"begin", "many"} \/ (kind[h] = "script" /\ at[h] = "BEGIN")
Opened(h) == kind[h] \in {"begin", "many"} /\ (at[h] = "BEGIN" => ans[h] = "ok")

\* A request for transaction h is on the wire of c, other than one that cleans up.
Sent(c, h) == \E q \in Requests(c) :
  tx[q.f] = h /\ (q.op \in {"BEGIN", "WRITE"} \/ kind[q.f] \in {"commit", "rollback"})

\* Something may still become of transaction h.
Live(h) ==
  \/ at[h] \in {"new", "get"}
  \/ \E c \in Conns : session[c] = h \/ Sent(c, h) \/ (Holds(h, c) /\ WillWrite(h))

\* A transaction that is over stays over, and nothing else is durable.
EndedOnce ==
  /\ \A h \in ended : ~Live(h)
  /\ \A w \in durable : w.of \in ended

\* Where BEGIN is needed, the transaction is open for every statement and row on the wire,
\* and for whoever got an answer to its BEGIN.
OpenSession == ~ImplicitBegin => \A c \in Conns :
  /\ \A q \in Requests(c) :
       q.op = "WRITE" /\ kind[q.f] \in {"stmt", "many"} => session[c] = tx[q.f]
  /\ \A h \in Calls : Holds(h, c) /\ Opened(h) => session[c] = h

SessionInv == OwnWork /\ EndedOnce /\ OpenSession

-----------------------------------------------------------------------------
(* What becomes of what was acknowledged. *)

\* The database acknowledged statement g; its caller knows, or is about to.
Acked(g) == kind[g] = "stmt" /\ at[g] \in {"WRITE", "done"} /\ ans[g] = "ok"

\* Statement g failed or was abandoned.
Doubtful(g) == at[g] = "cancelled" \/ (at[g] \in {"WRITE", "done"} /\ ans[g] = "err")

\* An acknowledged statement is in the open transaction, or durable if anything of its
\* transaction is.
AckedKept == \A g \in Calls : Acked(g) =>
  /\ tx[g] \notin ended => \E c \in Conns : Write(tx[g], g, 1) \in work[c]
  /\ Durable(tx[g]) # {} => Write(tx[g], g, 1) \in durable

\* The rows of a batch before the one it sends, all of them when it commits.
RowsKept ==
  /\ \A c \in Conns : \A f \in Calls :
       kind[f] = "many" /\ hold[c] = f /\ alive[c] /\ at[f] = "WRITE" /\ ans[f] # "err" =>
         \A n \in 1 .. row[f] : n < row[f] \/ ans[f] = "ok" => Write(f, f, n) \in work[c]
  /\ \A c \in Conns : \A q \in Requests(c) : q.op = "COMMIT" /\ kind[q.f] = "many" =>
       \A n \in 1 .. BatchRows : Write(q.f, q.f, n) \in work[c]
  /\ \A h \in Calls : kind[h] = "many" /\ Durable(h) # {} =>
       \A n \in 1 .. BatchRows : Write(h, h, n) \in durable

\* A transaction is aborted because of a statement of its own.
FailedBy == \A c \in Conns : failed[c] =>
  /\ Backend = "postgres"
  /\ kind[session[c]] = "begin" => \E g \in Stmts(session[c]) : Doubtful(g)

\* What an answered control call has done.
Done(f, k) == kind[f] = k /\ ans[f] = "ok" /\ at[f] \in {"COMMIT", "ROLLBACK", "done"}

Promised == \A f \in Calls :
  /\ Done(f, "rollback") => Durable(tx[f]) = {}
  /\ Done(f, "commit") /\ (Backend = "postgres" => \A g \in Stmts(tx[f]) : ~Doubtful(g)) =>
       \A g \in Stmts(tx[f]) : Acked(g) => Write(tx[f], g, 1) \in durable

WriteInv == AckedKept /\ RowsKept /\ FailedBy /\ Promised /\ OnlyOwnCommit

\* One control call of a transaction succeeds.
ToldOnce == \A f, g \in Calls :
  /\ Answered(f, "ok") /\ kind[f] \in {"commit", "rollback"}
  /\ Answered(g, "ok") /\ kind[g] \in {"commit", "rollback"}
  /\ tx[f] = tx[g]
  => f = g

DataInv == IInv /\ WireInv /\ OneSite /\ ToldOver /\ ToldOnce /\ SessionInv /\ WriteInv

-----------------------------------------------------------------------------
(* How requests come to a wire, and sessions to a connection. *)

\* A request is sent, or comes with a checkout, or is a guard's.
LEMMA Arrivals ==
  ASSUME IInv, WireInv, Step, NEW c \in Conns, NEW q \in Requests(c)'
  PROVE  \/ q \in Requests(c)
         \/ q.f \in Calls /\ alive[c] /\ Sends(q.f, c, q.op, q.n)
         \/ q.f \in Calls /\ q.op \in {"BEGIN", "WRITE"} /\ Takes(q.f, c, q.op) /\ q.n = row'[q.f]
         \/ /\ q.op = "GUARD" /\ q.f \in Calls /\ kind[q.f] \in {"begin", "many"} /\ tx[q.f] = q.f
            /\ \E f \in Calls : GivesUp(f, c) /\ q.f = tx[f] /\ hold'[c] = "guard"
<1>1. CASE wire'[c] = wire[c]
  BY <1>1 DEF Requests
<1>2. CASE wire'[c] # wire[c]
  <2>1. CASE \E f \in Calls : Born(f) \/ Moves(f)
    BY <1>2, <2>1 DEF Born, Moves
  <2>2. CASE \E f \in Calls, d \in Conns, op \in Awaited, n \in Nat : Sends(f, d, op, n)
    <3>1. PICK f \in Calls, d \in Conns, op \in Awaited, n \in Nat : Sends(f, d, op, n)
      BY <2>2
    <3>2. Send(f, d, op, n) /\ n \in 0 .. BatchRows
      BY <3>1 DEF Sends
    <3>3. d = c /\ alive[c] /\ wire'[c] = Append(wire[c], [op |-> op, f |-> f, n |-> n])
      BY <1>2, <3>2, Basics, SendFacts
    <3>4. [op |-> op, f |-> f, n |-> n] \in Request
      BY <3>2 DEF Request
    <3>5. Requests(c)' = Requests(c) \cup {[op |-> op, f |-> f, n |-> n]}
      BY <3>3, <3>4, Basics, AppendRequests
    <3>6. q \in Requests(c) \/ (q.op = op /\ q.f = f /\ q.n = n)
      BY <3>5
    <3> QED
      BY <3>1, <3>3, <3>6
  <2>3. CASE \E f \in Calls, d \in Conns : GivesUp(f, d)
    <3>1. PICK f \in Calls, d \in Conns : GivesUp(f, d)
      BY <2>3
    <3>2. d = c
      BY <1>2, <3>1 DEF GivesUp, Leaves
    <3>3. /\ hold'[c] = "guard" /\ kind[tx[f]] \in {"begin", "many"} /\ tx[tx[f]] = tx[f]
          /\ Requests(c)' = Requests(c) \cup {[op |-> "GUARD", f |-> tx[f], n |-> 0]}
      BY <1>2, <3>1, <3>2, GiverFacts
    <3>4. tx[f] \in Calls
      BY Basics
    <3> QED
      BY <3>1, <3>2, <3>3, <3>4
  <2>4. CASE \E f \in Calls, d \in Conns, op \in {"handle", "BEGIN", "WRITE"} : Takes(f, d, op)
    <3>1. PICK f \in Calls, d \in Conns, op \in {"handle", "BEGIN", "WRITE"} : Takes(f, d, op)
      BY <2>4
    <3>2. d = c
      BY <1>2, <3>1 DEF Takes, ElseSame
    <3>3. op # "handle" /\ wire'[c] = Append(wire[c], [op |-> op, f |-> f, n |-> row'[f]])
          /\ row'[f] = IF op = "WRITE" THEN 1 ELSE 0
      BY <1>2, <3>1, <3>2 DEF Takes
    <3>4. [op |-> op, f |-> f, n |-> row'[f]] \in Request
      BY <3>3, BatchAssumption DEF Request, Awaited
    <3>5. Requests(c)' = Requests(c) \cup {[op |-> op, f |-> f, n |-> row'[f]]}
      BY <3>3, <3>4, Basics, AppendRequests
    <3> QED
      BY <3>1, <3>2, <3>3, <3>5
  <2>5. CASE \E d \in Conns, p \in Request, r \in {"ok", "err"} : Serves(d, p, r)
    BY <1>2, <2>5 DEF Serves, ElseSame
  <2>6. CASE \E d \in Conns : Clears(d)
    <3>1. wire'[c] = <<>>
      BY <1>2, <2>6 DEF Clears, ElseSame
    <3> QED
      BY <3>1 DEF Requests
  <2>7. CASE Closes
    BY <1>2, <2>7 DEF Closes
  <2> QED
    BY <2>1, <2>2, <2>3, <2>4, <2>5, <2>6, <2>7 DEF Step
<1> QED
  BY <1>1, <1>2

\* A request's call is past its checkout: it keeps its kind and its transaction.
LEMMA RequestKept ==
  ASSUME IInv, WireInv, Step, NEW c \in Conns, NEW q \in Requests(c)'
  PROVE  q.f \in Calls /\ tx'[q.f] = tx[q.f] /\ kind'[q.f] = kind[q.f] /\ tx[q.f] \in Calls
<1>1. q.f \in Calls /\ at[q.f] # "new"
  <2>1. q \in Requests(c) => q.f \in Calls /\ at[q.f] # "new"
    BY RequestShape
  <2>2. ASSUME NEW f \in Calls, Sends(f, c, q.op, q.n) PROVE at[f] # "new"
    BY <2>2 DEF Sends, MaySend, Awaited
  <2>3. ASSUME NEW f \in Calls, NEW op, Takes(f, c, op) PROVE at[f] # "new"
    BY <2>3 DEF Takes
  <2>4. ASSUME NEW f \in Calls, kind[f] \in {"begin", "many"} PROVE at[f] # "new"
    BY <2>4, Basics, KindAt
  <2> QED
    BY <2>1, <2>2, <2>3, <2>4, Arrivals
<1> QED
  BY <1>1, Onward, Basics

\* A session is opened by a request served, and only when there is none.
LEMMA SessionMoves ==
  ASSUME Step, NEW c \in Conns
  PROVE  \/ session'[c] = session[c]
         \/ session'[c] = "none"
         \/ /\ session[c] = "none"
            /\ \E q \in Request : q \in Requests(c) /\ q.op \in {"BEGIN", "WRITE"} /\ session'[c] = tx[q.f]
                                  /\ Serves(c, q, "ok")
<1>1. CASE \E f \in Calls : Born(f) \/ Moves(f)
  BY <1>1 DEF Born, Moves, Quiet
<1>2. CASE \E f \in Calls, d \in Conns, op \in Awaited, n \in Nat : Sends(f, d, op, n)
  BY <1>2 DEF Sends, Quiet
<1>3. CASE \E f \in Calls, d \in Conns : GivesUp(f, d)
  BY <1>3 DEF GivesUp, Quiet
<1>4. CASE \E f \in Calls, d \in Conns, op \in {"handle", "BEGIN", "WRITE"} : Takes(f, d, op)
  BY <1>4 DEF Takes, ElseSame, Ends
<1>5. CASE \E d \in Conns, q \in Request, r \in {"ok", "err"} : Serves(d, q, r)
  <2>1. PICK d \in Conns, q \in Request, r \in {"ok", "err"} : Serves(d, q, r)
    BY <1>5
  <2>2. CASE d # c
    BY <2>1, <2>2 DEF Serves, ElseSame
  <2>3. CASE d = c
    <3>1. Effect(c, q, r) /\ q \in Requests(c)
      BY <2>1, <2>3 DEF Serves
    <3>2. \/ session'[c] = session[c]
          \/ session'[c] = "none"
          \/ session[c] = "none" /\ q.op \in {"BEGIN", "WRITE"} /\ session'[c] = tx[q.f] /\ r = "ok"
      BY <3>1 DEF Effect, Ends
    <3> QED
      BY <2>1, <2>3, <3>1, <3>2
  <2> QED
    BY <2>2, <2>3
<1>6. CASE \E d \in Conns : Clears(d)
  BY <1>6 DEF Clears, ElseSame, Ends
<1>7. CASE Closes
  BY <1>7 DEF Closes
<1> QED
  BY <1>1, <1>2, <1>3, <1>4, <1>5, <1>6, <1>7 DEF Step

\* A session is closed at a checkout, with its connection, or by a request that says so.
LEMMA SessionEnds ==
  ASSUME Step, NEW c \in Conns, session[c] # "none", session'[c] = "none"
  PROVE  \/ \E f \in Calls, op \in {"handle", "BEGIN", "WRITE"} : Takes(f, c, op)
         \/ Clears(c)
         \/ \E q \in Request, r \in {"ok", "err"} :
              Serves(c, q, r) /\ q.op \in {"COMMIT", "ROLLBACK", "GUARD"} /\ Ends(c)
<1>1. CASE \E f \in Calls : Born(f) \/ Moves(f)
  BY <1>1 DEF Born, Moves, Quiet
<1>2. CASE \E f \in Calls, d \in Conns, op \in Awaited, n \in Nat : Sends(f, d, op, n)
  BY <1>2 DEF Sends, Quiet
<1>3. CASE \E f \in Calls, d \in Conns : GivesUp(f, d)
  BY <1>3 DEF GivesUp, Quiet
<1>4. CASE \E f \in Calls, d \in Conns, op \in {"handle", "BEGIN", "WRITE"} : Takes(f, d, op)
  <2>1. PICK f \in Calls, d \in Conns, op \in {"handle", "BEGIN", "WRITE"} : Takes(f, d, op)
    BY <1>4
  <2>2. d = c
    BY <2>1 DEF Takes, ElseSame
  <2> QED
    BY <2>1, <2>2
<1>5. CASE \E d \in Conns, q \in Request, r \in {"ok", "err"} : Serves(d, q, r)
  <2>1. PICK d \in Conns, q \in Request, r \in {"ok", "err"} : Serves(d, q, r)
    BY <1>5
  <2>2. d = c
    BY <2>1 DEF Serves, ElseSame
  <2>3. Effect(c, q, r)
    BY <2>1, <2>2 DEF Serves
  <2>4. q.op \in {"COMMIT", "ROLLBACK", "GUARD"} /\ Ends(c)
    BY <2>3 DEF Effect
  <2> QED
    BY <2>1, <2>2, <2>4
<1>6. CASE \E d \in Conns : Clears(d)
  <2>1. PICK d \in Conns : Clears(d)
    BY <1>6
  <2>2. d = c
    BY <2>1 DEF Clears, ElseSame
  <2> QED
    BY <2>1, <2>2
<1>7. CASE Closes
  BY <1>7 DEF Closes
<1> QED
  BY <1>1, <1>2, <1>3, <1>4, <1>5, <1>6, <1>7 DEF Step

\* A connection is got by a checkout, and what ends a transaction goes on until it is over.
LEMMA HoldsStep ==
  ASSUME IInv, WireInv, Step, NEW h \in Calls, NEW c \in Conns, Holds(h, c)'
  PROVE  Holds(h, c) \/ \E op \in {"handle", "BEGIN", "WRITE"} : Takes(h, c, op)
<1> USE AwaitedPlaces, NoSuchCall
<1>0. /\ hold'[c] = h /\ alive'[c]
      /\ \A g \in Calls : tx'[g] = h => at'[g] \notin {"COMMIT", "ROLLBACK"}
  BY DEF Holds, Controlled

<1>2. CASE \E f \in Calls : Born(f) \/ Moves(f)
  <2>1. PICK f \in Calls : Born(f) \/ Moves(f)
    BY <1>2
  <2>2. /\ UNCHANGED <<hold, alive>>
        /\ tx'[f] = tx[f] \/ at[f] = "new"
        /\ at[f] \notin {"COMMIT", "ROLLBACK"}
        /\ \A g \in Calls \ {f} : tx'[g] = tx[g] /\ at'[g] = at[g]
    BY <2>1 DEF Born, Moves, Quiet, Kept
  <2>3. hold[c] = h /\ alive[c]
    BY <1>0, <2>2
  <2>4. ~Controlled(h)
    BY <1>0, <2>2 DEF Controlled
  <2> QED
    BY <2>3, <2>4 DEF Holds
<1>3. CASE \E f \in Calls, d \in Conns, op \in Awaited, n \in Nat : Sends(f, d, op, n)
  <2>1. PICK f \in Calls, d \in Conns, op \in Awaited, n \in Nat : Sends(f, d, op, n)
    BY <1>3
  <2>2. /\ UNCHANGED <<hold, alive, tx>> /\ Send(f, d, op, n)
        /\ \A g \in Calls \ {f} : tx'[g] = tx[g] /\ at'[g] = at[g]
    BY <2>1 DEF Sends, Quiet
  <2>3. at'[f] = op
    <3>1. at' = [at EXCEPT ![f] = op] /\ at \in [Calls -> Places]
      BY <2>2, Basics DEF Send, TypeOK
    <3> QED
      BY <3>1
  <2>4. at[f] \in {"COMMIT", "ROLLBACK"} => op \in {"COMMIT", "ROLLBACK"}
    BY <2>1 DEF Sends, MaySend
  <2>5. hold[c] = h /\ alive[c]
    BY <1>0, <2>2
  <2>6. ~Controlled(h)
    BY <1>0, <2>2, <2>3, <2>4 DEF Controlled
  <2> QED
    BY <2>5, <2>6 DEF Holds
<1>4. CASE \E f \in Calls, d \in Conns : GivesUp(f, d)
  <2>1. PICK f \in Calls, d \in Conns : GivesUp(f, d)
    BY <1>4
  <2>2. /\ UNCHANGED <<alive, tx>> /\ hold[d] = tx[f] /\ tx[f] \in Calls
        /\ \A g \in Calls \ {f} : tx'[g] = tx[g] /\ at'[g] = at[g]
    BY <2>1, Basics DEF GivesUp, Quiet, Kept
  <2>3. c # d /\ hold[c] = h
    BY <1>0, <2>1 DEF GivesUp, Leaves
  <2>4. h # tx[f]
    BY <2>2, <2>3, Basics
  <2> QED
    BY <1>0, <2>2, <2>3, <2>4 DEF Holds, Controlled
<1>5. CASE \E f \in Calls, d \in Conns, op \in {"handle", "BEGIN", "WRITE"} : Takes(f, d, op)
  <2>1. PICK f \in Calls, d \in Conns, op \in {"handle", "BEGIN", "WRITE"} : Takes(f, d, op)
    BY <1>5
  <2>2. CASE d = c
    <3>1. hold'[c] = f
      BY <2>1, <2>2 DEF Takes
    <3> QED
      BY <1>0, <2>1, <2>2, <3>1
  <2>3. CASE d # c
    <3>1. /\ hold[c] = h /\ alive[c] /\ tx' = tx /\ at[f] = "get"
          /\ \A g \in Calls \ {f} : at'[g] = at[g]
      BY <1>0, <2>1, <2>3 DEF Takes, ElseSame
    <3> QED
      BY <1>0, <3>1 DEF Holds, Controlled
  <2> QED
    BY <2>2, <2>3
<1>6. CASE \E d \in Conns, q \in Request, r \in {"ok", "err"} : Serves(d, q, r)
  <2>1. UNCHANGED <<tx, at, alive>> /\ hold[c] = h
    BY <1>0, <1>6 DEF Serves, ElseSame
  <2> QED
    BY <1>0, <2>1 DEF Holds, Controlled
<1>7. CASE \E d \in Conns : Clears(d)
  <2>1. UNCHANGED <<tx, at>> /\ hold[c] = h /\ alive[c]
    BY <1>0, <1>7 DEF Clears, ElseSame
  <2> QED
    BY <1>0, <2>1 DEF Holds, Controlled
<1>8. CASE Closes
  <2>1. UNCHANGED <<tx, at, alive>> /\ hold[c] = h
    BY <1>0, <1>8 DEF Closes
  <2> QED
    BY <1>0, <2>1 DEF Holds, Controlled
<1> QED
  BY <1>2, <1>3, <1>4, <1>5, <1>6, <1>7, <1>8 DEF Step

\* Nobody is ending the transaction of a pooled call that is not.
LEMMA NotControlled ==
  ASSUME IInv, NEW f \in Calls, kind[f] \in Pooled, at[f] \in {"get", "BEGIN", "WRITE"}
  PROVE  tx[f] = f /\ ~Controlled(f)
BY NotShared DEF Controlled

\* Who sends a statement has an open transaction that nobody is ending, and so has who
\* begins to end it.
LEMMA SenderReady ==
  ASSUME IInv, WireInv, NEW f \in Calls, NEW c \in Conns, NEW op, NEW n, Sends(f, c, op, n), alive[c],
         op = "WRITE" \/ kind[f] \in {"commit", "rollback"}
  PROVE  /\ Holds(tx[f], c) /\ WillWrite(tx[f])
         /\ kind[f] \in {"stmt", "many", "commit", "rollback"} => Opened(tx[f])
<1> USE AwaitedPlaces, NoSuchCall
<1>1. hold[c] = tx[f] /\ MaySend(f, op, n) /\ tx[f] \in Calls /\ CallShape /\ kind[f] \in Kinds
  BY Basics DEF Sends
<1>2. CASE at[f] = "lock"
  <2>1. kind[tx[f]] = "begin" /\ HasInner(tx[f])
    BY <1>1, <1>2 DEF MaySend, Awaited
  <2>2. ASSUME NEW g \in Calls, tx[g] = tx[f], at[g] \in {"COMMIT", "ROLLBACK"} PROVE FALSE
    <3>1. kind[g] \notin {"commit", "rollback"} /\ at[tx[f]] # "ROLLBACK"
      BY <2>1, <2>2 DEF HasInner, Control
    <3>2. kind[g] \in {"begin", "auto", "many", "script"} /\ tx[g] = g
      BY <1>1, <2>2, <3>1, Basics, KindAt DEF CallShape, Kinds, Pooled
    <3>3. g = tx[f] /\ kind[g] = "begin"
      BY <2>1, <2>2, <3>2
    <3> QED
      BY <1>1, <2>2, <3>1, <3>3 DEF CallShape
  <2>3. ~Controlled(tx[f])
    BY <2>2 DEF Controlled
  <2>4. at[tx[f]] # "BEGIN"
    BY <1>1, <1>2, Basics, KindAt DEF CallShape
  <2> QED
    BY <1>1, <2>1, <2>3, <2>4 DEF Holds, WillWrite, Opened
<1>3. CASE at[f] # "lock"
  <2>1. /\ kind[f] \in {"many", "script"} /\ tx[f] = f /\ ans[f] # "none" /\ at[f] \in {"BEGIN", "WRITE"}
        /\ kind[f] = "many" => ans[f] = "ok"
        /\ kind[f] = "script" => row[f] = 0
    BY <1>1, <1>3 DEF MaySend
  <2>2. kind[f] = "script" => at[f] = "BEGIN"
    BY <2>1 DEF WireInv, RowShape
  <2>3. ~Controlled(f)
    BY <2>1, NotControlled DEF Pooled
  <2> QED
    BY <1>1, <2>1, <2>2, <2>3 DEF Holds, WillWrite, Opened
<1> QED
  BY <1>2, <1>3

\* Nothing may become of a transaction of which nothing might.
LEMMA LiveStep ==
  ASSUME IInv, WireInv, Step, NEW h \in Calls, Live(h)'
  PROVE  Live(h)
<1> USE NoSuchCall
<1>1. CASE at'[h] \in {"new", "get"}
  BY <1>1, Onward DEF Live
<1>2. ASSUME NEW c \in Conns, session'[c] = h PROVE Live(h)
  BY <1>2, SessionMoves DEF Live, Sent
<1>3. ASSUME NEW c \in Conns, Sent(c, h)' PROVE Live(h)
  <2>1. PICK q \in Requests(c)' :
          tx'[q.f] = h /\ (q.op \in {"BEGIN", "WRITE"} \/ kind'[q.f] \in {"commit", "rollback"})
    BY <1>3 DEF Sent
  <2>2. tx[q.f] = h /\ (q.op \in {"BEGIN", "WRITE"} \/ kind[q.f] \in {"commit", "rollback"})
    BY <2>1, RequestKept
  <2>3. CASE q \in Requests(c)
    BY <2>2, <2>3 DEF Live, Sent
  <2>4. CASE q.f \in Calls /\ alive[c] /\ Sends(q.f, c, q.op, q.n)
    <3>1. q.op # "BEGIN"
      BY <2>4 DEF Sends, MaySend
    <3> QED
      BY <2>2, <2>4, <3>1, SenderReady DEF Live
  <2>5. CASE Takes(q.f, c, q.op)
    BY <2>2, <2>5 DEF Takes, Live
  <2> QED
    BY <2>2, <2>3, <2>4, <2>5, Arrivals
<1>4. ASSUME NEW c \in Conns, Holds(h, c)', WillWrite(h)' PROVE Live(h)
  <2>1. CASE \E op \in {"handle", "BEGIN", "WRITE"} : Takes(h, c, op)
    BY <2>1 DEF Takes, Live
  <2>2. CASE Holds(h, c) /\ at[h] # "get"
    <3>1. at[h] # "new"
      BY <2>2, Basics, KindAt DEF Holds, Ownership, Pooled
    <3>2. kind'[h] = kind[h] /\ (at'[h] = "BEGIN" => at[h] = "BEGIN")
      BY <2>2, <3>1, Onward
    <3> QED
      BY <1>4, <2>2, <3>2 DEF Live, WillWrite
  <2>3. CASE at[h] = "get"
    BY <2>3 DEF Live
  <2> QED
    BY <1>4, <2>1, <2>2, <2>3, HoldsStep
<1> QED
  BY <1>1, <1>2, <1>3, <1>4 DEF Live

\* How a transaction ends: its session does, by a request that says so, or with its
\* connection; or it was one statement in autocommit.
LEMMA Ending ==
  ASSUME Step, NEW h, h \in ended', h \notin ended
  PROVE  \E c \in Conns :
           \/ /\ session[c] = h /\ session'[c] = "none"
              /\ \/ \E f \in Calls, op \in {"handle", "BEGIN", "WRITE"} : Takes(f, c, op)
                 \/ Clears(c)
                 \/ \E q \in Request, r \in {"ok", "err"} :
                      Serves(c, q, r) /\ q.op \in {"COMMIT", "ROLLBACK", "GUARD"}
           \/ /\ session[c] = "none" /\ session' = session /\ ~ImplicitBegin
              /\ \E q \in Request : Serves(c, q, "ok") /\ q.op = "WRITE" /\ tx[q.f] = h
<1>1. CASE \E f \in Calls : Born(f) \/ Moves(f)
  BY <1>1 DEF Born, Moves, Quiet, storeVars
<1>2. CASE \E f \in Calls, d \in Conns, op \in Awaited, n \in Nat : Sends(f, d, op, n)
  BY <1>2 DEF Sends, Quiet, storeVars
<1>3. CASE \E f \in Calls, d \in Conns : GivesUp(f, d)
  BY <1>3 DEF GivesUp, Quiet, storeVars
<1>4. CASE \E f \in Calls, d \in Conns, op \in {"handle", "BEGIN", "WRITE"} : Takes(f, d, op)
  <2>1. PICK f \in Calls, d \in Conns, op \in {"handle", "BEGIN", "WRITE"} : Takes(f, d, op)
    BY <1>4
  <2>2. Ends(d)
    BY <2>1 DEF Takes
  <2>3. session[d] = h /\ session'[d] = "none"
    BY <2>2 DEF Ends
  <2> QED
    BY <2>1, <2>3
<1>5. CASE \E d \in Conns, q \in Request, r \in {"ok", "err"} : Serves(d, q, r)
  <2>1. PICK d \in Conns, q \in Request, r \in {"ok", "err"} : Serves(d, q, r)
    BY <1>5
  <2>2. Effect(d, q, r)
    BY <2>1 DEF Serves
  <2>3. \/ q.op \in {"COMMIT", "ROLLBACK", "GUARD"} /\ Ends(d)
        \/ /\ q.op = "WRITE" /\ r = "ok" /\ session[d] = "none" /\ ~ImplicitBegin
           /\ ended' = ended \cup {tx[q.f]} /\ session' = session
    BY <2>2 DEF Effect, storeVars
  <2> QED
    BY <2>1, <2>3 DEF Ends
<1>6. CASE \E d \in Conns : Clears(d)
  <2>1. PICK d \in Conns : Clears(d)
    BY <1>6
  <2>2. Ends(d)
    BY <2>1 DEF Clears
  <2>3. session[d] = h /\ session'[d] = "none"
    BY <2>2 DEF Ends
  <2> QED
    BY <2>1, <2>3
<1>7. CASE Closes
  BY <1>7 DEF Closes
<1> QED
  BY <1>1, <1>2, <1>3, <1>4, <1>5, <1>6, <1>7 DEF Step

\* Nothing more becomes of a transaction that ends.
LEMMA EndedStep ==
  ASSUME IInv, WireInv, OneSite, OpenSession, Step, NEW h \in Calls, h \in ended', h \notin ended
  PROVE  ~Live(h)'
<1> USE AwaitedPlaces, NoSuchCall
<1>1. SUFFICES ASSUME Live(h)' PROVE FALSE
  OBVIOUS
<1>2. PICK c \in Conns :
        \/ /\ session[c] = h /\ session'[c] = "none"
           /\ \/ \E f \in Calls, op \in {"handle", "BEGIN", "WRITE"} : Takes(f, c, op)
              \/ Clears(c)
              \/ \E q \in Request, r \in {"ok", "err"} :
                   Serves(c, q, r) /\ q.op \in {"COMMIT", "ROLLBACK", "GUARD"}
        \/ /\ session[c] = "none" /\ session' = session /\ ~ImplicitBegin
           /\ \E q \in Request : Serves(c, q, "ok") /\ q.op = "WRITE" /\ tx[q.f] = h
  BY Ending
<1>3. Site(c, h) /\ session'[c] # h
  BY <1>2 DEF Site, Serves
<1>4. at[h] \notin {"new", "get"} /\ at'[h] \notin {"new", "get"}
  BY <1>3, Onward DEF OneSite
<1>5. \A d \in Conns : Site(d, h)' => d = c
  BY <1>3, <1>4, SiteStep DEF OneSite
<1>6. Sent(c, h)' \/ (Holds(h, c)' /\ WillWrite(h)')
  <2>1. PICK d \in Conns : session'[d] = h \/ Sent(d, h)' \/ (Holds(h, d)' /\ WillWrite(h)')
    BY <1>1, <1>4 DEF Live
  <2>2. Site(d, h)'
    BY <2>1 DEF Site, Sent, Holds
  <2> QED
    BY <1>3, <1>5, <2>1, <2>2
<1>7. ASSUME Sent(c, h)'
      PROVE  \E q \in Requests(c)' : tx[q.f] = h /\ tx'[q.f] = h
               /\ (q.op \in {"BEGIN", "WRITE"} \/ kind[q.f] \in {"commit", "rollback"})
  BY <1>7, RequestKept DEF Sent
<1>8. ASSUME NEW f \in Calls, NEW op \in {"handle", "BEGIN", "WRITE"}, session[c] = h, Takes(f, c, op)
      PROVE  FALSE
  <2>1. f # h /\ tx[f] = f /\ hold'[c] = f /\ hold[c] \in {"pool", "closed"}
    BY <1>4, <1>8 DEF Takes
  <2>2. wire[c] = <<>>
    BY <1>8 DEF Takes, IInv, PoolClean
  <2>3. Requests(c) = {}
    BY <2>2 DEF Requests
  <2>4. Sent(c, h)'
    BY <1>6, <2>1 DEF Holds
  <2>5. PICK q \in Requests(c)' : tx[q.f] = h /\ (q.op \in {"BEGIN", "WRITE"} \/ kind[q.f] \in {"commit", "rollback"})
    BY <1>7, <2>4
  <2>6. ~(\E g \in Calls : Sends(g, c, q.op, q.n) \/ GivesUp(g, c))
    BY <2>1, Basics DEF Sends, GivesUp
  <2>7. q.f \in Calls /\ Takes(q.f, c, q.op)
    BY <2>3, <2>6, Arrivals
  <2>8. q.f = f
    BY <2>1, <2>7 DEF Takes
  <2> QED
    BY <2>1, <2>5, <2>8
<1>9. ASSUME session[c] = h, Clears(c)
      PROVE  FALSE
  <2>1. Requests(c)' = {} /\ ~(alive'[c] /\ hold'[c] = h)
    BY <1>9 DEF Clears, Requests
  <2> QED
    BY <1>6, <1>7, <2>1 DEF Holds
<1>10. ASSUME session[c] = h, NEW q \in Request, NEW r \in {"ok", "err"}, Serves(c, q, r),
              q.op \in {"COMMIT", "ROLLBACK", "GUARD"}
       PROVE  FALSE
  <2>1. /\ q \in Requests(c) /\ Requests(c)' \subseteq Requests(c) /\ UNCHANGED <<kind, tx, at>>
        /\ \A p \in Requests(c)' : p.op = "GUARD"
    BY <1>10 DEF Serves, Requests
  <2>2. \A p \in Requests(c)' : kind[p.f] \notin {"commit", "rollback"}
    BY <2>1 DEF WireInv, Asked, Asks
  <2>3. Holds(h, c)'
    BY <1>6, <1>7, <2>1, <2>2
  <2>4. hold[c] = h /\ q.op # "GUARD"
    BY <1>10, <2>1, <2>3, RequestShape DEF Holds, Serves
  <2>5. at[q.f] = q.op /\ q.f \in Calls /\ tx[q.f] = h
    BY <1>10, <2>1, <2>4, RequestShape DEF WireInv, StillAwaited
  <2> QED
    BY <1>10, <2>1, <2>3, <2>4, <2>5 DEF Holds, Controlled
<1>11. ASSUME session[c] = "none", ~ImplicitBegin, NEW q \in Request, Serves(c, q, "ok"),
              q.op = "WRITE", tx[q.f] = h
       PROVE  FALSE
  <2>1. /\ q \in Requests(c) /\ Requests(c)' \subseteq Requests(c) /\ UNCHANGED <<kind, tx, at>>
        /\ \A p \in Requests(c)' : p.f = q.f => p.op = "GUARD"
    BY <1>11 DEF Serves
  <2>2. q.f \in Calls /\ at[q.f] \in {"WRITE", "done", "cancelled"} /\ kind[q.f] \in Kinds
    BY <1>11, <2>1, RequestShape, Basics
  <2>3. kind[q.f] \in {"auto", "script"}
    <3>1. kind[q.f] \notin {"begin", "commit", "rollback"}
      BY <1>11, <2>1 DEF WireInv, Asked, Asks
    <3>2. kind[q.f] \notin {"stmt", "many"}
      BY <1>11, <2>1, Basics DEF OpenSession
    <3> QED
      BY <2>2, <3>1, <3>2, Basics, KindAt DEF Kinds
  <2>4. q.f = h /\ \A g \in Calls \ {h} : tx[g] # h
    BY <1>11, <2>2, <2>3, Alone DEF Pooled
  <2>5. ~Sent(c, h)'
    <3>1. \A p \in Requests(c)' : p.f \in Calls
      BY RequestKept
    <3> QED
      BY <1>7, <2>1, <2>3, <2>4, <3>1
  <2>6. ~WillWrite(h)'
    BY <2>1, <2>2, <2>3, <2>4 DEF WillWrite
  <2> QED
    BY <1>6, <2>5, <2>6
<1> QED
  BY <1>2, <1>8, <1>9, <1>10, <1>11

\* What is over stays over and what is durable durable; writes become durable by a
\* COMMIT, or in autocommit.
LEMMA DurableMoves ==
  ASSUME Step
  PROVE  /\ ended \subseteq ended' /\ durable \subseteq durable'
         /\ durable' = durable \/ \E c \in Conns, q \in Request :
              /\ Serves(c, q, "ok")
              /\ \/ /\ q.op = "WRITE" /\ session[c] = "none" /\ ~ImplicitBegin
                    /\ durable' = durable \cup {Write(tx[q.f], q.f, q.n)} /\ ended' = ended \cup {tx[q.f]}
                    /\ UNCHANGED <<session, work>>
                 \/ /\ q.op = "COMMIT" /\ ~failed[c] /\ Ends(c)
                    /\ durable' = durable \cup work[c]
<1>1. CASE \E f \in Calls : Born(f) \/ Moves(f)
  BY <1>1 DEF Born, Moves, Quiet, storeVars
<1>2. CASE \E f \in Calls, d \in Conns, op \in Awaited, n \in Nat : Sends(f, d, op, n)
  BY <1>2 DEF Sends, Quiet, storeVars
<1>3. CASE \E f \in Calls, d \in Conns : GivesUp(f, d)
  BY <1>3 DEF GivesUp, Quiet, storeVars
<1>4. CASE \E f \in Calls, d \in Conns, op \in {"handle", "BEGIN", "WRITE"} : Takes(f, d, op)
  BY <1>4 DEF Takes, Ends
<1>5. CASE \E d \in Conns, q \in Request, r \in {"ok", "err"} : Serves(d, q, r)
  <2>1. PICK d \in Conns, q \in Request, r \in {"ok", "err"} : Serves(d, q, r)
    BY <1>5
  <2>2. Effect(d, q, r)
    BY <2>1 DEF Serves
  <2>3. \/ UNCHANGED storeVars
        \/ /\ q.op = "WRITE" /\ r = "ok" /\ session[d] = "none" /\ ~ImplicitBegin
           /\ durable' = durable \cup {Write(tx[q.f], q.f, q.n)} /\ ended' = ended \cup {tx[q.f]}
           /\ UNCHANGED <<session, work>>
        \/ Ends(d) /\ durable' = durable
        \/ Ends(d) /\ q.op = "COMMIT" /\ r = "ok" /\ ~failed[d] /\ durable' = durable \cup work[d]
    BY <2>2 DEF Effect
  <2> QED
    BY <2>1, <2>3 DEF Ends, storeVars
<1>6. CASE \E d \in Conns : Clears(d)
  BY <1>6 DEF Clears, Ends
<1>7. CASE Closes
  BY <1>7 DEF Closes
<1> QED
  BY <1>1, <1>2, <1>3, <1>4, <1>5, <1>6, <1>7 DEF Step

LEMMA EndedOnceStep ==
  ASSUME IInv, WireInv, OneSite, SessionInv, Step, TypeOK'
  PROVE  EndedOnce'
<1>1. ASSUME NEW h \in ended' PROVE ~Live(h)'
  <2>1. h \in Calls
    BY DEF TypeOK
  <2>2. CASE h \in ended
    BY <2>1, <2>2, LiveStep DEF SessionInv, EndedOnce
  <2>3. CASE h \notin ended
    BY <2>1, <2>3, EndedStep DEF SessionInv
  <2> QED
    BY <2>2, <2>3
<1>2. ASSUME NEW w \in durable' PROVE w.of \in ended'
  <2>1. CASE w \in durable
    BY <2>1, DurableMoves DEF SessionInv, EndedOnce
  <2>2. CASE w \notin durable
    <3>1. PICK c \in Conns, q \in Request :
            \/ w = Write(tx[q.f], q.f, q.n) /\ ended' = ended \cup {tx[q.f]}
            \/ w \in work[c] /\ Ends(c)
      BY <2>2, DurableMoves
    <3>2. w \in work[c] => w.of = session[c] /\ session[c] # "none"
      BY DEF SessionInv, OwnWork
    <3> QED
      BY <3>1, <3>2 DEF Write, Ends
  <2> QED
    BY <2>1, <2>2
<1> QED
  BY <1>1, <1>2 DEF EndedOnce

LEMMA OwnWorkStep ==
  ASSUME IInv, WireInv, OwnWork, Step
  PROVE  OwnWork'
<1> USE NoSuchCall
<1> SUFFICES ASSUME NEW c \in Conns
             PROVE  /\ session'[c] = "none" => work'[c] = {} /\ ~failed'[c]
                    /\ \A w \in work'[c] : w.of = session'[c]
                    /\ session'[c] # "none" => \A q \in Requests(c)' : tx'[q.f] = session'[c]
  BY DEF OwnWork
<1>1. /\ session[c] = "none" => work[c] = {} /\ ~failed[c]
      /\ \A w \in work[c] : w.of = session[c]
      /\ session[c] # "none" => \A q \in Requests(c) : tx[q.f] = session[c]
  BY DEF OwnWork
<1>2. session'[c] # "none" => \A q \in Requests(c)' : tx'[q.f] = session'[c]
  <2> SUFFICES ASSUME session'[c] # "none", NEW q \in Requests(c)' PROVE tx[q.f] = session'[c]
    BY RequestKept
  <2>1. CASE session'[c] = session[c]
    <3>1. CASE q \in Requests(c)
      BY <1>1, <2>1, <3>1
    <3>2. CASE hold[c] = tx[q.f] /\ tx[q.f] \in Calls
      BY <2>1, <3>2 DEF IInv, OwnSession
    <3>3. CASE Takes(q.f, c, q.op)
      BY <3>3 DEF Takes, Ends
    <3> QED
      <4>1. q.f \in Calls /\ Sends(q.f, c, q.op, q.n) => hold[c] = tx[q.f] /\ tx[q.f] \in Calls
        BY Basics DEF Sends
      <4>2. tx[q.f] = q.f /\ (\E f \in Calls : GivesUp(f, c) /\ q.f = tx[f])
              => hold[c] = tx[q.f] /\ tx[q.f] \in Calls
        BY Basics DEF GivesUp
      <4> QED
        BY <3>1, <3>2, <3>3, <4>1, <4>2, Arrivals
  <2>2. CASE session'[c] # session[c]
    <3>1. PICK p \in Request : /\ p \in Requests(c) /\ p.op \in {"BEGIN", "WRITE"}
                               /\ session[c] = "none" /\ session'[c] = tx[p.f] /\ Serves(c, p, "ok")
      BY <2>2, SessionMoves
    <3>2. p.op = "BEGIN" \/ ImplicitBegin
      BY <2>2, <3>1 DEF Serves, Effect
    <3> QED
      BY <3>1, <3>2 DEF Serves
  <2> QED
    BY <2>1, <2>2
<1>3. CASE session'[c] = session[c] /\ work'[c] = work[c] /\ failed'[c] = failed[c]
  BY <1>1, <1>2, <1>3
<1>4. CASE Ends(c)
  BY <1>4 DEF Ends
<1>5. ASSUME NEW q \in Request, NEW r \in {"ok", "err"}, Serves(c, q, r)
      PROVE  /\ session'[c] = "none" => work'[c] = {} /\ ~failed'[c]
             /\ \A w \in work'[c] : w.of = session'[c]
  <2>1. Effect(c, q, r) /\ q \in Requests(c) /\ q.f \in Calls /\ tx[q.f] \in Calls
    BY <1>5, RequestShape DEF Serves
  <2>2. CASE q.op = "WRITE"
    <3>1. CASE session[c] # "none" \/ ImplicitBegin
      <4>1. tx[q.f] = IF session[c] = "none" THEN tx[q.f] ELSE session[c]
        BY <1>1, <2>1
      <4>2. \/ /\ work'[c] = work[c] \cup {Write(tx[q.f], q.f, q.n)}
               /\ session'[c] = tx[q.f]
            \/ /\ UNCHANGED <<session, work>>
               /\ failed'[c] => failed[c] \/ session[c] # "none"
        BY <2>1, <2>2, <3>1, <4>1 DEF Effect
      <4>3. session[c] = "none" => work[c] = {}
        BY <1>1
      <4> QED
        BY <1>1, <2>1, <4>1, <4>2, <4>3 DEF Write
    <3>2. CASE ~(session[c] # "none" \/ ImplicitBegin)
      BY <1>1, <2>1, <2>2, <3>2 DEF Effect
    <3> QED
      BY <3>1, <3>2
  <2>3. CASE q.op # "WRITE"
    <3>1. \/ UNCHANGED <<session, work, failed>>
          \/ session[c] = "none" /\ session'[c] = tx[q.f] /\ UNCHANGED <<work, failed>>
          \/ Ends(c)
      BY <2>1, <2>3 DEF Effect
    <3> QED
      BY <1>1, <1>4, <2>1, <3>1
  <2> QED
    BY <2>2, <2>3
<1>6. \/ session'[c] = session[c] /\ work'[c] = work[c] /\ failed'[c] = failed[c]
      \/ Ends(c)
      \/ \E q \in Request, r \in {"ok", "err"} : Serves(c, q, r)
  <2>1. CASE \E f \in Calls : Born(f) \/ Moves(f)
    BY <2>1 DEF Born, Moves, Quiet
  <2>2. CASE \E f \in Calls, d \in Conns, op \in Awaited, n \in Nat : Sends(f, d, op, n)
    BY <2>2 DEF Sends, Quiet
  <2>3. CASE \E f \in Calls, d \in Conns : GivesUp(f, d)
    BY <2>3 DEF GivesUp, Quiet
  <2>4. CASE \E f \in Calls, d \in Conns, op \in {"handle", "BEGIN", "WRITE"} : Takes(f, d, op)
    BY <2>4 DEF Takes, ElseSame
  <2>5. CASE \E d \in Conns, q \in Request, r \in {"ok", "err"} : Serves(d, q, r)
    <3>1. PICK d \in Conns, q \in Request, r \in {"ok", "err"} : Serves(d, q, r)
      BY <2>5
    <3> QED
      BY <3>1 DEF Serves, ElseSame
  <2>6. CASE \E d \in Conns : Clears(d)
    BY <2>6 DEF Clears, ElseSame
  <2>7. CASE Closes
    BY <2>7 DEF Closes
  <2> QED
    BY <2>1, <2>2, <2>3, <2>4, <2>5, <2>6, <2>7 DEF Step
<1> QED
  BY <1>2, <1>3, <1>4, <1>5, <1>6

\* Whoever keeps its connection got an answer to its BEGIN before, or gets it now.
LEMMA OpenedStep ==
  ASSUME IInv, WireInv, Step, NEW h \in Calls, NEW c \in Conns, Holds(h, c), Holds(h, c)', Opened(h)'
  PROVE  \/ Opened(h)
         \/ \E q \in Request : Serves(c, q, "ok") /\ q.f = h /\ q.op = "BEGIN" /\ at[h] = "BEGIN"
<1> USE AwaitedPlaces, NoSuchCall
<1>1. /\ hold[c] = h /\ hold'[c] = h
      /\ \A g \in Calls : tx'[g] = h => at'[g] \notin {"COMMIT", "ROLLBACK"}
  BY DEF Holds, Controlled
<1>2. at[h] # "new" /\ tx[h] = h
  BY <1>1, Basics, KindAt DEF Ownership, CallShape, Pooled
<1>3. kind'[h] = kind[h] /\ tx'[h] = h /\ kind[h] \in {"begin", "many"}
      /\ (at'[h] = "BEGIN" => ans'[h] = "ok")
  BY <1>2, Onward DEF Opened
<1>4. SUFFICES ASSUME at[h] = "BEGIN", ans[h] # "ok"
               PROVE  \E q \in Request :
                        Serves(c, q, "ok") /\ q.f = h /\ q.op = "BEGIN" /\ at[h] = "BEGIN"
  BY <1>3 DEF Opened
<1>5. at'[h] # at[h] \/ ans'[h] # ans[h]
  BY <1>3, <1>4
<1>6. CASE \E f \in Calls : Born(f) \/ Moves(f)
  BY <1>4, <1>5, <1>6 DEF Born, Moves, Quiet
<1>7. CASE \E f \in Calls, d \in Conns, op \in Awaited, n \in Nat : Sends(f, d, op, n)
  <2>1. PICK f \in Calls, d \in Conns, op \in Awaited, n \in Nat : Sends(f, d, op, n)
    BY <1>7
  <2>2. f = h
    BY <1>5, <2>1 DEF Sends, Quiet
  <2>3. at'[h] = op
    <3>1. at' = [at EXCEPT ![h] = op] /\ at \in [Calls -> Places]
      BY <2>1, <2>2, Basics DEF Sends, Send, TypeOK
    <3> QED
      BY <3>1
  <2>4. op = "ROLLBACK"
    BY <1>3, <1>4, <2>1, <2>2 DEF Sends, MaySend
  <2> QED
    BY <1>1, <1>3, <2>3, <2>4
<1>8. CASE \E f \in Calls, d \in Conns : GivesUp(f, d)
  <2>1. PICK f \in Calls, d \in Conns : GivesUp(f, d)
    BY <1>8
  <2>2. f = h
    BY <1>5, <2>1 DEF GivesUp, Quiet
  <2>3. d = c
    BY <1>1, <1>2, <2>1, <2>2, Basics DEF GivesUp
  <2> QED
    BY <1>1, <2>1, <2>3 DEF GivesUp, Leaves
<1>9. CASE \E f \in Calls, d \in Conns, op \in {"handle", "BEGIN", "WRITE"} : Takes(f, d, op)
  BY <1>4, <1>5, <1>9 DEF Takes
<1>10. CASE \E d \in Conns, q \in Request, r \in {"ok", "err"} : Serves(d, q, r)
  <2>1. PICK d \in Conns, q \in Request, r \in {"ok", "err"} : Serves(d, q, r)
    BY <1>10
  <2>2. at' = at /\ ans'[h] = "ok"
    BY <1>3, <1>4, <2>1 DEF Serves
  <2>3. q.f = h /\ q.op = "BEGIN"
    BY <1>4, <1>5, <2>1, <2>2 DEF Serves
  <2>4. r = "ok" /\ hold[d] = h
    BY <1>2, <1>4, <2>1, <2>2, <2>3 DEF Serves
  <2>5. d = c
    BY <1>1, <2>4, Basics
  <2> QED
    BY <1>4, <2>1, <2>3, <2>4, <2>5
<1>11. CASE \E d \in Conns : Clears(d)
  BY <1>3, <1>4, <1>5, <1>11 DEF Clears
<1>12. CASE Closes
  BY <1>5, <1>12 DEF Closes
<1> QED
  BY <1>6, <1>7, <1>8, <1>9, <1>10, <1>11, <1>12 DEF Step

\* Nobody is given an open session, nor sends to one that is not.
LEMMA OpenSessionStep ==
  ASSUME IInv, WireInv, OpenSession, Step
  PROVE  OpenSession'
<1> USE AwaitedPlaces, NoSuchCall
<1> SUFFICES ASSUME ~ImplicitBegin, NEW c \in Conns
             PROVE  /\ \A q \in Requests(c)' :
                         q.op = "WRITE" /\ kind'[q.f] \in {"stmt", "many"} => session'[c] = tx'[q.f]
                    /\ \A h \in Calls : Holds(h, c)' /\ Opened(h)' => session'[c] = h
  BY DEF OpenSession
<1>1. /\ \A q \in Requests(c) :
           q.op = "WRITE" /\ kind[q.f] \in {"stmt", "many"} => session[c] = tx[q.f]
      /\ \A h \in Calls : Holds(h, c) /\ Opened(h) => session[c] = h
  BY DEF OpenSession
\* An open session stays, for a statement on the wire.
<1>2. ASSUME NEW q \in Requests(c)', q.op = "WRITE", kind'[q.f] \in {"stmt", "many"}
      PROVE  session'[c] = tx'[q.f]
  <2>1. q.f \in Calls /\ tx'[q.f] = tx[q.f] /\ kind[q.f] \in {"stmt", "many"} /\ tx[q.f] \in Calls
    BY <1>2, RequestKept
  <2>2. CASE q \in Requests(c)
    <3>1. session[c] = tx[q.f]
      BY <1>1, <1>2, <2>1, <2>2
    <3>2. session'[c] = session[c] \/ session'[c] = "none"
      BY <2>1, <3>1, SessionMoves
    <3>3. session'[c] # "none"
      <4> SUFFICES ASSUME session'[c] = "none" PROVE FALSE
        OBVIOUS
      <4>1. ASSUME NEW p \in Request, NEW r \in {"ok", "err"}, Serves(c, p, r) PROVE FALSE
        <5>1. p.op \in {"COMMIT", "ROLLBACK", "GUARD"}
          BY <2>1, <3>1, <4>1 DEF Serves, Effect
        <5> QED
          BY <1>2, <4>1, <5>1 DEF Serves, Requests
      <4>2. ASSUME Clears(c) PROVE FALSE
        BY <4>2 DEF Clears, Requests
      <4>3. ASSUME NEW f, NEW op, Takes(f, c, op) PROVE FALSE
        <5>1. wire[c] # <<>>
          BY <2>2 DEF Requests
        <5> QED
          BY <2>1, <3>1, <4>3, <5>1 DEF Takes, IInv, PoolClean
      <4> QED
        BY <2>1, <3>1, <4>1, <4>2, <4>3, SessionEnds
    <3> QED
      BY <2>1, <3>1, <3>2, <3>3
  <2>3. CASE alive[c] /\ Sends(q.f, c, q.op, q.n)
    <3>1. Holds(tx[q.f], c) /\ Opened(tx[q.f])
      BY <1>2, <2>1, <2>3, SenderReady
    <3>2. session[c] = tx[q.f] /\ session' = session
      BY <1>1, <2>1, <2>3, <3>1 DEF Sends, Quiet
    <3> QED
      BY <2>1, <3>2
  <2>4. CASE Takes(q.f, c, q.op)
    BY <1>2, <2>1, <2>4 DEF Takes, Opening, Pooled
  <2> QED
    BY <1>2, <2>2, <2>3, <2>4, Arrivals

\* An open session stays, for whoever keeps its connection.
<1>3. ASSUME NEW h \in Calls, Holds(h, c)', Opened(h)'
      PROVE  session'[c] = h
  <2>1. CASE \E op \in {"handle", "BEGIN", "WRITE"} : Takes(h, c, op)
    <3>1. PICK op \in {"handle", "BEGIN", "WRITE"} : Takes(h, c, op)
      BY <2>1
    <3>2. kind'[h] = kind[h] /\ op \in Opening(h) /\ at'[h] = op /\ ans'[h] = "none"
      BY <3>1 DEF Takes
    <3> QED
      BY <1>3, <3>2 DEF Opening, Opened
  <2>2. CASE Holds(h, c) /\ Opened(h)
    <3>1. session[c] = h /\ hold[c] = h
      BY <1>1, <2>2 DEF Holds
    <3>2. session'[c] = session[c] \/ session'[c] = "none"
      BY <3>1, SessionMoves
    <3>3. session'[c] # "none"
      <4> SUFFICES ASSUME session'[c] = "none" PROVE FALSE
        OBVIOUS
      <4>1. ASSUME NEW q \in Request, NEW r \in {"ok", "err"}, Serves(c, q, r),
                   q.op \in {"COMMIT", "ROLLBACK", "GUARD"}
            PROVE  FALSE
        <5>1. q \in Requests(c)
          BY <4>1 DEF Serves
        <5>2. q.op # "GUARD"
          BY <3>1, <5>1, RequestShape
        <5>3. at[q.f] = q.op /\ q.f \in Calls /\ tx[q.f] = h
          BY <3>1, <4>1, <5>1, <5>2, RequestShape DEF WireInv, StillAwaited
        <5> QED
          BY <2>2, <4>1, <5>2, <5>3 DEF Holds, Controlled
      <4>2. ASSUME Clears(c) PROVE FALSE
        BY <1>3, <4>2 DEF Clears, Holds
      <4>3. ASSUME NEW f, NEW op, Takes(f, c, op) PROVE FALSE
        BY <3>1, <4>3 DEF Takes
      <4> QED
        BY <3>1, <4>1, <4>2, <4>3, SessionEnds
    <3> QED
      BY <3>1, <3>2, <3>3
  <2>3. ASSUME Holds(h, c), NEW q \in Request, Serves(c, q, "ok"), q.f = h, q.op = "BEGIN"
        PROVE  session'[c] = h
    <3>1. hold[c] = h /\ kind[h] \in Pooled
      BY <2>3, Basics DEF Holds, Ownership
    <3>2. tx[h] = h
      BY <3>1, Basics DEF CallShape
    <3>3. session[c] \in {"none", h}
      BY <3>1 DEF IInv, OwnSession
    <3>4. (session'[c] = session[c] /\ session[c] # "none") \/ session'[c] = tx[q.f]
      BY <2>3 DEF Serves, Effect
    <3> QED
      BY <2>3, <3>2, <3>3, <3>4
  <2>4. Holds(h, c) \/ \E op \in {"handle", "BEGIN", "WRITE"} : Takes(h, c, op)
    BY <1>3, HoldsStep
  <2> QED
    BY <1>3, <2>1, <2>2, <2>3, <2>4, OpenedStep
<1> QED
  BY <1>2, <1>3

-----------------------------------------------------------------------------
(* What is durable of a transaction, and what is about to be. *)

\* Only a pooled statement or a script is written in autocommit.
LEMMA AutocommitKind ==
  ASSUME IInv, WireInv, OpenSession, NEW c \in Conns, NEW q \in Requests(c), q.op = "WRITE",
         session[c] = "none", ~ImplicitBegin
  PROVE  q.f \in Calls /\ kind[q.f] \in {"auto", "script"} /\ tx[q.f] = q.f
<1> USE NoSuchCall
<1>1. q.f \in Calls /\ at[q.f] # "new" /\ kind[q.f] \in Kinds /\ tx[q.f] \in Calls
  BY RequestShape, Basics
<1>2. kind[q.f] \notin {"begin", "commit", "rollback"}
  BY DEF WireInv, Asked, Asks
<1>3. kind[q.f] \notin {"stmt", "many"}
  BY <1>1 DEF OpenSession
<1>4. kind[q.f] \in {"auto", "script"}
  BY <1>1, <1>2, <1>3, Basics, KindAt DEF Kinds
<1> QED
  BY <1>1, <1>4, Basics DEF CallShape, Pooled

\* A transaction becomes durable at once, out of its open session; or it was a statement in
\* autocommit.
LEMMA DurableStep ==
  ASSUME IInv, WireInv, SessionInv, Step, NEW h \in Calls, Durable(h)' # Durable(h)
  PROVE  \/ kind[h] \in {"auto", "script"}
         \/ /\ Durable(h) = {} /\ h \notin ended
            /\ \E c \in Conns, q \in Request :
                 /\ Serves(c, q, "ok") /\ q.op = "COMMIT" /\ session[c] = h /\ tx[q.f] = h
                 /\ durable' = durable \cup work[c]
<1> USE NoSuchCall
<1>1. durable' # durable
  BY DEF Durable
<1>2. PICK c \in Conns, q \in Request :
        /\ Serves(c, q, "ok")
        /\ \/ /\ q.op = "WRITE" /\ session[c] = "none" /\ ~ImplicitBegin
              /\ durable' = durable \cup {Write(tx[q.f], q.f, q.n)} /\ ended' = ended \cup {tx[q.f]}
              /\ UNCHANGED <<session, work>>
           \/ /\ q.op = "COMMIT" /\ ~failed[c] /\ Ends(c)
              /\ durable' = durable \cup work[c]
  BY <1>1, DurableMoves
<1>3. q \in Requests(c)
  BY <1>2 DEF Serves
<1>4. CASE q.op = "WRITE"
  <2>1. q.f \in Calls /\ kind[q.f] \in {"auto", "script"} /\ tx[q.f] = q.f
    BY <1>2, <1>3, <1>4, AutocommitKind DEF SessionInv
  <2>2. durable' = durable \cup {Write(q.f, q.f, q.n)}
    BY <1>2, <1>4, <2>1
  <2>3. q.f = h
    BY <2>2 DEF Durable, Write
  <2> QED
    BY <2>1, <2>3
<1>5. CASE q.op = "COMMIT"
  <2>1. durable' = durable \cup work[c] /\ \A w \in work[c] : w.of = session[c]
    BY <1>2, <1>5 DEF SessionInv, OwnWork
  <2>2. session[c] = h
    BY <2>1 DEF Durable
  <2>3. h \notin ended
    BY <2>2 DEF SessionInv, EndedOnce, Live
  <2>4. Durable(h) = {}
    BY <2>3 DEF SessionInv, EndedOnce, Durable
  <2>5. tx[q.f] = h
    BY <1>3, <2>2 DEF SessionInv, OwnWork
  <2> QED
    BY <1>2, <1>5, <2>1, <2>2, <2>3, <2>4, <2>5
<1> QED
  BY <1>2, <1>4, <1>5

\* What a statement does: it waits for the mutex, is sent, answered, and told; or abandoned.
LEMMA StmtStep ==
  ASSUME IInv, WireInv, Step, NEW g \in Calls, kind[g] = "stmt"
  PROVE  \/ at'[g] = at[g] /\ ans'[g] = ans[g]
         \/ at[g] = "lock" /\ (at'[g] \in {"WRITE", "done"} => ans'[g] # "ok")
         \/ at[g] = "WRITE" /\ at'[g] = "done" /\ ans'[g] = ans[g]
         \/ at[g] = "WRITE" /\ at'[g] = "cancelled"
         \/ at[g] = "WRITE" /\ at'[g] = "WRITE" /\ ans[g] = "none" /\ ans'[g] = "err"
         \/ /\ at[g] = "WRITE" /\ at'[g] = "WRITE" /\ ans[g] = "none"
            /\ \E c \in Conns, q \in Request :
                 Serves(c, q, "ok") /\ q \in Requests(c) /\ q.f = g /\ q.op = "WRITE" /\ q.n = 1
<1> USE AwaitedPlaces, NoSuchCall
<1>0. at[g] \in {"lock", "WRITE", "done", "cancelled"}
  BY Basics DEF CallShape
<1>1. CASE \E f \in Calls : Born(f) \/ Moves(f)
  BY <1>0, <1>1 DEF Born, Moves, Quiet
<1>2. CASE \E f \in Calls, d \in Conns, op \in Awaited, n \in Nat : Sends(f, d, op, n)
  <2>1. PICK f \in Calls, d \in Conns, op \in Awaited, n \in Nat : Sends(f, d, op, n)
    BY <1>2
  <2>2. Send(f, d, op, n)
    BY <2>1 DEF Sends
  <2>3. CASE f = g
    <3>1. at[g] = "lock"
      BY <2>1, <2>3 DEF Sends, MaySend
    <3>2. ans'[g] # "ok"
      BY <2>2, <2>3, Basics, SendFacts
    <3> QED
      BY <3>1, <3>2
  <2>4. CASE f # g
    BY <2>1, <2>4 DEF Sends, Quiet
  <2> QED
    BY <2>3, <2>4
<1>3. CASE \E f \in Calls, d \in Conns : GivesUp(f, d)
  BY <1>3 DEF GivesUp, Quiet
<1>4. CASE \E f \in Calls, d \in Conns, op \in {"handle", "BEGIN", "WRITE"} : Takes(f, d, op)
  BY <1>0, <1>4 DEF Takes
<1>5. CASE \E d \in Conns, q \in Request, r \in {"ok", "err"} : Serves(d, q, r)
  <2>1. PICK d \in Conns, q \in Request, r \in {"ok", "err"} : Serves(d, q, r)
    BY <1>5
  <2>2. at' = at /\ q \in Requests(d) /\ (g # q.f \/ at[q.f] # q.op => ans'[g] = ans[g])
    BY <2>1 DEF Serves
  <2>3. CASE g = q.f /\ at[q.f] = q.op
    <3>1. q.op = "WRITE" /\ q.n = 1
      BY <2>2, <2>3 DEF WireInv, Asked, Asks
    <3>2. ans[g] = "none" /\ ans'[g] = r
      BY <2>1, <2>3 DEF Serves
    <3> QED
      BY <2>1, <2>2, <2>3, <3>1, <3>2
  <2> QED
    BY <2>2, <2>3
<1>6. CASE \E d \in Conns : Clears(d)
  BY <1>0, <1>6 DEF Clears
<1>7. CASE Closes
  BY <1>7 DEF Closes
<1> QED
  BY <1>1, <1>2, <1>3, <1>4, <1>5, <1>6, <1>7 DEF Step

\* A statement that failed or was abandoned stays so, and its transaction keeps it.
LEMMA DoubtStays ==
  ASSUME IInv, WireInv, Step, NEW h \in Calls, NEW g \in Stmts(h), Doubtful(g)
  PROVE  g \in Stmts(h)' /\ Doubtful(g)'
<1>1. g \in Calls /\ kind[g] = "stmt" /\ tx[g] = h
  BY DEF Stmts
<1>2. at[g] # "new"
  BY <1>1, Basics DEF CallShape
<1>3. kind'[g] = "stmt" /\ tx'[g] = h
  BY <1>1, <1>2, Onward
<1>4. Doubtful(g)'
  BY <1>1, StmtStep DEF Doubtful
<1> QED
  BY <1>1, <1>3, <1>4 DEF Stmts

\* A statement is acknowledged when the database has run it in its transaction.
LEMMA NewlyAcked ==
  ASSUME IInv, WireInv, OpenSession, Step, NEW g \in Calls, Acked(g)'
  PROVE  /\ kind[g] = "stmt" /\ tx'[g] = tx[g] /\ tx[g] \in Calls /\ kind[tx[g]] = "begin"
         /\ \/ Acked(g)
            \/ \E c \in Conns, q \in Request :
                 /\ Serves(c, q, "ok") /\ q \in Requests(c) /\ q.f = g /\ q.op = "WRITE"
                 /\ work'[c] = work[c] \cup {Write(tx[g], g, 1)} /\ UNCHANGED storeVars
<1> USE NoSuchCall
<1>1. at[g] # "new"
  <2>1. at'[g] \in {"WRITE", "done"} /\ kind'[g] = "stmt" /\ ans'[g] = "ok"
    BY DEF Acked
  <2> SUFFICES ASSUME at[g] = "new" PROVE FALSE
    OBVIOUS
  <2>2. CASE \E f \in Calls : Born(f) \/ Moves(f)
    BY <2>1, <2>2 DEF Born, Moves, Quiet
  <2>3. CASE \E f \in Calls, d \in Conns, op \in Awaited, n \in Nat : Sends(f, d, op, n)
    BY <2>1, <2>3, AwaitedPlaces DEF Sends, MaySend, Quiet
  <2>4. CASE \E f \in Calls, d \in Conns : GivesUp(f, d)
    BY <2>1, <2>4, AwaitedPlaces DEF GivesUp, Quiet
  <2>5. CASE \E f \in Calls, d \in Conns, op \in {"handle", "BEGIN", "WRITE"} : Takes(f, d, op)
    BY <2>1, <2>5 DEF Takes
  <2>6. CASE \/ \E d \in Conns, q \in Request, r \in {"ok", "err"} : Serves(d, q, r)
             \/ \E d \in Conns : Clears(d)
             \/ Closes
    BY <2>1, <2>6 DEF Serves, Clears, Closes
  <2> QED
    BY <2>2, <2>3, <2>4, <2>5, <2>6 DEF Step
<1>2. kind[g] = "stmt" /\ tx'[g] = tx[g] /\ tx[g] \in Calls /\ kind[tx[g]] = "begin"
  BY <1>1, Onward, Basics DEF Acked, CallShape
<1>3. CASE ~Acked(g)
  <2>1. PICK c \in Conns, q \in Request :
          Serves(c, q, "ok") /\ q \in Requests(c) /\ q.f = g /\ q.op = "WRITE" /\ q.n = 1
    BY <1>2, <1>3, StmtStep DEF Acked
  <2>2. session[c] # "none" \/ ImplicitBegin
    BY <1>2, <2>1 DEF OpenSession
  <2>3. Effect(c, q, "ok")
    BY <2>1 DEF Serves
  <2>4. work'[c] = work[c] \cup {Write(tx[g], g, 1)} /\ UNCHANGED storeVars
    BY <2>1, <2>2, <2>3 DEF Effect
  <2> QED
    BY <1>2, <2>1, <2>4
<1> QED
  BY <1>2, <1>3

\* The writes of a session stay until the session ends.
LEMMA WorkKept ==
  ASSUME Step, OwnWork, NEW c \in Conns
  PROVE  work[c] \subseteq work'[c] \/ (session[c] # "none" /\ session'[c] = "none" /\ Ends(c))
<1>1. session[c] = "none" => work[c] = {}
  BY DEF OwnWork
<1>2. CASE \E f \in Calls : Born(f) \/ Moves(f)
  BY <1>2 DEF Born, Moves, Quiet
<1>3. CASE \E f \in Calls, d \in Conns, op \in Awaited, n \in Nat : Sends(f, d, op, n)
  BY <1>3 DEF Sends, Quiet
<1>4. CASE \E f \in Calls, d \in Conns : GivesUp(f, d)
  BY <1>4 DEF GivesUp, Quiet
<1>5. CASE \E f \in Calls, d \in Conns, op \in {"handle", "BEGIN", "WRITE"} : Takes(f, d, op)
  <2>1. PICK f \in Calls, d \in Conns, op \in {"handle", "BEGIN", "WRITE"} : Takes(f, d, op)
    BY <1>5
  <2> QED
    BY <1>1, <2>1 DEF Takes, ElseSame, Ends
<1>6. CASE \E d \in Conns, q \in Request, r \in {"ok", "err"} : Serves(d, q, r)
  <2>1. PICK d \in Conns, q \in Request, r \in {"ok", "err"} : Serves(d, q, r)
    BY <1>6
  <2>2. CASE d # c
    BY <2>1, <2>2 DEF Serves, ElseSame
  <2>3. CASE d = c
    <3>1. Effect(c, q, r)
      BY <2>1, <2>3 DEF Serves
    <3>2. work[c] \subseteq work'[c] \/ Ends(c)
      BY <3>1 DEF Effect
    <3> QED
      BY <1>1, <3>2 DEF Ends
  <2> QED
    BY <2>2, <2>3
<1>7. CASE \E d \in Conns : Clears(d)
  <2>1. PICK d \in Conns : Clears(d)
    BY <1>7
  <2> QED
    BY <1>1, <2>1 DEF Clears, ElseSame, Ends
<1>8. CASE Closes
  BY <1>8 DEF Closes
<1> QED
  BY <1>2, <1>3, <1>4, <1>5, <1>6, <1>7, <1>8 DEF Step

LEMMA AckedKeptStep ==
  ASSUME IInv, WireInv, OneSite, SessionInv, AckedKept, Step
  PROVE  AckedKept'
<1> USE NoSuchCall
<1> SUFFICES ASSUME NEW g \in Calls, Acked(g)', NEW h, h = tx'[g]
             PROVE  /\ h \notin ended' => \E c \in Conns : Write(h, g, 1) \in work'[c]
                    /\ Durable(h)' # {} => Write(h, g, 1) \in durable'
  BY DEF AckedKept, Durable, Write
<1>1. h \in Calls /\ h = tx[g] /\ kind[h] = "begin" /\ kind[g] = "stmt"
  BY NewlyAcked DEF SessionInv
<1>2. ended \subseteq ended' /\ durable \subseteq durable'
  BY DurableMoves
<1>3. CASE Acked(g)
  <2>1. h \notin ended => \E c \in Conns : Write(h, g, 1) \in work[c]
    BY <1>1, <1>3 DEF AckedKept
  <2>2. Durable(h) # {} => Write(h, g, 1) \in durable
    BY <1>1, <1>3 DEF AckedKept
  <2>3. ASSUME h \notin ended' PROVE \E c \in Conns : Write(h, g, 1) \in work'[c]
    <3>1. PICK c \in Conns : Write(h, g, 1) \in work[c]
      BY <1>2, <2>1, <2>3
    <3>2. session[c] = h
      BY <3>1 DEF SessionInv, OwnWork, Write
    <3>3. Ends(c) => h \in ended'
      BY <1>1, <3>2 DEF Ends
    <3> QED
      BY <2>3, <3>1, <3>3, WorkKept DEF SessionInv
  <2>4. ASSUME Durable(h)' # {} PROVE Write(h, g, 1) \in durable'
    <3>1. CASE Durable(h)' = Durable(h)
      BY <1>2, <2>2, <2>4, <3>1
    <3>2. CASE Durable(h)' # Durable(h)
      <4>1. h \notin ended /\ \E c \in Conns : session[c] = h /\ durable' = durable \cup work[c]
        BY <1>1, <3>2, DurableStep
      <4>2. PICK c \in Conns : session[c] = h /\ durable' = durable \cup work[c]
        BY <4>1
      <4>3. PICK d \in Conns : Write(h, g, 1) \in work[d]
        BY <2>1, <4>1
      <4>4. session[d] = h
        BY <4>3 DEF SessionInv, OwnWork, Write
      <4>5. d = c
        BY <1>1, <4>2, <4>4 DEF OneSite, Site
      <4> QED
        BY <4>2, <4>3, <4>5
    <3> QED
      BY <3>1, <3>2
  <2> QED
    BY <1>1, <2>3, <2>4
<1>4. CASE ~Acked(g)
  <2>1. PICK c \in Conns, q \in Request :
          /\ Serves(c, q, "ok") /\ q \in Requests(c) /\ q.f = g /\ q.op = "WRITE"
          /\ work'[c] = work[c] \cup {Write(h, g, 1)} /\ UNCHANGED storeVars
    BY <1>1, <1>4, NewlyAcked DEF SessionInv
  <2>2. Live(h)
    BY <1>1, <2>1 DEF Live, Sent
  <2>3. Durable(h) = {}
    BY <2>2 DEF SessionInv, EndedOnce, Durable
  <2>4. Durable(h)' = {}
    BY <2>1, <2>3 DEF Durable, storeVars
  <2> QED
    BY <1>1, <2>1, <2>4
<1> QED
  BY <1>3, <1>4

\* What aborts a transaction is a statement of its own.
LEMMA FailedByStep ==
  ASSUME IInv, WireInv, OneSite, SessionInv, FailedBy, Step, TypeOK'
  PROVE  FailedBy'
<1> USE NoSuchCall
<1> SUFFICES ASSUME NEW c \in Conns, failed'[c], NEW h, h = session'[c]
             PROVE  /\ Backend = "postgres"
                    /\ kind'[h] = "begin" => \E g \in Stmts(h)' : Doubtful(g)'
  BY DEF FailedBy, Stmts, Doubtful
<1>1. OwnWork'
  BY OwnWorkStep DEF SessionInv
<1>2. session'[c] # "none"
  BY <1>1 DEF OwnWork
<1>3. \/ failed'[c] = failed[c]
      \/ \E q \in Request : /\ Serves(c, q, "err") /\ q.op = "WRITE" /\ session' = session
                            /\ failed[c] \/ (Backend = "postgres" /\ session[c] # "none")
  <2>1. CASE \E f \in Calls : Born(f) \/ Moves(f)
    BY <2>1 DEF Born, Moves, Quiet
  <2>2. CASE \E f \in Calls, d \in Conns, op \in Awaited, n \in Nat : Sends(f, d, op, n)
    BY <2>2 DEF Sends, Quiet
  <2>3. CASE \E f \in Calls, d \in Conns : GivesUp(f, d)
    BY <2>3 DEF GivesUp, Quiet
  <2>4. CASE \E f \in Calls, d \in Conns, op \in {"handle", "BEGIN", "WRITE"} : Takes(f, d, op)
    <3>1. PICK f \in Calls, d \in Conns, op \in {"handle", "BEGIN", "WRITE"} : Takes(f, d, op)
      BY <2>4
    <3> QED
      BY <1>2, <3>1 DEF Takes, ElseSame, Ends
  <2>5. CASE \E d \in Conns, q \in Request, r \in {"ok", "err"} : Serves(d, q, r)
    <3>1. PICK d \in Conns, q \in Request, r \in {"ok", "err"} : Serves(d, q, r)
      BY <2>5
    <3>2. CASE d # c
      BY <3>1, <3>2 DEF Serves, ElseSame
    <3>3. CASE d = c
      <4>1. Effect(c, q, r)
        BY <3>1, <3>3 DEF Serves
      <4>2. \/ failed' = failed
            \/ /\ q.op = "WRITE" /\ r = "err" /\ session' = session
               /\ failed[c] \/ (Backend = "postgres" /\ session[c] # "none")
            \/ Ends(c)
        BY <4>1 DEF Effect
      <4> QED
        BY <1>2, <3>1, <3>3, <4>2 DEF Ends
    <3> QED
      BY <3>2, <3>3
  <2>6. CASE \E d \in Conns : Clears(d)
    BY <1>2, <2>6 DEF Clears, ElseSame, Ends
  <2>7. CASE Closes
    BY <2>7 DEF Closes
  <2> QED
    BY <2>1, <2>2, <2>3, <2>4, <2>5, <2>6, <2>7 DEF Step
<1>5. h \in Calls
  BY <1>2 DEF TypeOK
<1>6. CASE failed[c]
  <2>1. session[c] # "none" /\ Backend = "postgres"
        /\ (kind[session[c]] = "begin" => \E g \in Stmts(session[c]) : Doubtful(g))
    BY <1>6 DEF FailedBy, SessionInv, OwnWork
  <2>2. session[c] = h
    BY <1>2, <1>5, <2>1, SessionMoves
  <2>3. ASSUME kind'[h] = "begin" PROVE \E g \in Stmts(h)' : Doubtful(g)'
    <3>1. at[h] # "new"
      BY <1>5, <2>2 DEF OneSite, Site
    <3>2. kind[h] = "begin"
      BY <1>5, <2>3, <3>1, Onward
    <3>3. PICK g \in Stmts(h) : Doubtful(g)
      BY <2>1, <2>2, <3>2
    <3> QED
      BY <1>5, <3>3, DoubtStays
  <2> QED
    BY <1>5, <2>1, <2>3 DEF Stmts
<1>7. CASE ~failed[c]
  <2>1. failed[c] \in BOOLEAN /\ failed'[c] \in BOOLEAN
    BY Basics DEF TypeOK
  <2>2. PICK q \in Request : /\ Serves(c, q, "err") /\ q.op = "WRITE" /\ session' = session
                             /\ Backend = "postgres" /\ session[c] # "none"
    BY <1>3, <1>7, <2>1
  <2>3. q \in Requests(c) /\ tx[q.f] = h /\ UNCHANGED <<kind, tx, at>>
    BY <1>5, <2>2 DEF Serves, SessionInv, OwnWork
  <2>4. q.f \in Calls /\ kind[q.f] \in Kinds /\ at[q.f] # "new"
    BY <2>3, RequestShape, Basics
  <2>5. ASSUME kind[h] = "begin" PROVE q.f \in Stmts(h)' /\ Doubtful(q.f)'
    <3>1. kind[q.f] \notin {"begin", "commit", "rollback"}
      BY <2>2, <2>3 DEF WireInv, Asked, Asks
    <3>2. kind[q.f] \notin {"auto", "many", "script"}
      BY <2>3, <2>4, <2>5, Basics DEF CallShape, Pooled
    <3>3. kind[q.f] = "stmt"
      BY <2>4, <3>1, <3>2, Basics, KindAt DEF Kinds
    <3>4. at[q.f] \in {"WRITE", "cancelled"}
      BY <2>2, <2>3 DEF WireInv, Asked, Asks
    <3>5. at[q.f] = "WRITE" => ans'[q.f] = "err"
      BY <2>2 DEF Serves
    <3> QED
      BY <2>3, <2>4, <3>3, <3>4, <3>5 DEF Stmts, Doubtful
  <2> QED
    BY <1>5, <2>2, <2>3, <2>5 DEF Stmts
<1> QED
  BY <1>6, <1>7

\* A control call has done its work when the database has run its request.
LEMMA DoneStep ==
  ASSUME IInv, WireInv, Step, NEW f \in Calls, NEW k \in {"commit", "rollback"}, Done(f, k)'
  PROVE  /\ kind[f] = k /\ tx'[f] = tx[f] /\ tx[f] \in Calls /\ kind[tx[f]] = "begin" /\ at[tx[f]] # "new"
         /\ \/ Done(f, k)
            \/ \E c \in Conns, q \in Request :
                 /\ Serves(c, q, "ok") /\ q \in Requests(c) /\ q.f = f /\ hold[c] = tx[f]
                 /\ q.op = IF k = "commit" THEN "COMMIT" ELSE "ROLLBACK"
<1> USE AwaitedPlaces, NoSuchCall
<1>0. kind'[f] = k /\ ans'[f] = "ok" /\ at'[f] \in {"COMMIT", "ROLLBACK", "done"}
  BY DEF Done
<1>1. /\ at[f] # "new"
      /\ \/ ans[f] = "ok" /\ at[f] \in {"COMMIT", "ROLLBACK", "done"}
         \/ \E c \in Conns, q \in Request : Serves(c, q, "ok") /\ q.f = f /\ at[f] = q.op
  <2>1. CASE \E g \in Calls : Born(g) \/ Moves(g)
    BY <1>0, <2>1 DEF Born, Moves, Quiet, Kept
  <2>2. CASE \E g \in Calls, d \in Conns, op \in Awaited, n \in Nat : Sends(g, d, op, n)
    <3>1. PICK g \in Calls, d \in Conns, op \in Awaited, n \in Nat : Sends(g, d, op, n)
      BY <2>2
    <3>2. Send(g, d, op, n)
      BY <3>1 DEF Sends
    <3>3. g # f
      BY <1>0, <3>2, Basics, SendFacts
    <3> QED
      BY <1>0, <3>1, <3>3 DEF Sends, Quiet
  <2>3. CASE \E g \in Calls, d \in Conns : GivesUp(g, d)
    BY <1>0, <2>3 DEF GivesUp, Quiet, Kept, Good
  <2>4. CASE \E g \in Calls, d \in Conns, op \in {"handle", "BEGIN", "WRITE"} : Takes(g, d, op)
    BY <1>0, <2>4 DEF Takes
  <2>5. CASE \E d \in Conns, q \in Request, r \in {"ok", "err"} : Serves(d, q, r)
    <3>1. PICK d \in Conns, q \in Request, r \in {"ok", "err"} : Serves(d, q, r)
      BY <2>5
    <3>2. at' = at /\ (f # q.f \/ at[q.f] # q.op => ans'[f] = ans[f])
          /\ (at[q.f] = q.op => ans'[q.f] = r)
      BY <3>1 DEF Serves
    <3> QED
      BY <1>0, <3>1, <3>2
  <2>6. CASE \E d \in Conns : Clears(d)
    BY <1>0, <2>6 DEF Clears
  <2>7. CASE Closes
    BY <1>0, <2>7 DEF Closes
  <2> QED
    BY <2>1, <2>2, <2>3, <2>4, <2>5, <2>6, <2>7 DEF Step
<1>2. kind[f] = k /\ tx'[f] = tx[f] /\ tx[f] \in Calls /\ kind[tx[f]] = "begin" /\ at[tx[f]] # "new"
  <2>1. kind[f] = k /\ tx'[f] = tx[f] /\ tx[f] \in Calls
    BY <1>0, <1>1, Onward, Basics
  <2> QED
    BY <2>1, Basics DEF CallShape
<1>3. CASE ans[f] = "ok" /\ at[f] \in {"COMMIT", "ROLLBACK", "done"}
  BY <1>2, <1>3 DEF Done
<1>4. ASSUME NEW c \in Conns, NEW q \in Request, Serves(c, q, "ok"), q.f = f, at[f] = q.op
      PROVE  /\ q \in Requests(c) /\ hold[c] = tx[f]
             /\ q.op = IF k = "commit" THEN "COMMIT" ELSE "ROLLBACK"
  BY <1>2, <1>4 DEF Serves, WireInv, Asked, Asks
<1> QED
  BY <1>1, <1>2, <1>3, <1>4

\* Nothing of a transaction is left on a connection once its COMMIT or ROLLBACK succeeded.
LEMMA DoneClean ==
  ASSUME IInv, WireInv, OneSite, ToldOver, NEW f \in Calls, NEW k \in {"commit", "rollback"}, Done(f, k)
  PROVE  \A c \in Conns : session[c] # tx[f] /\ \A q \in Requests(c) : tx[q.f] # tx[f]
<1> USE AwaitedPlaces, NoSuchCall
<1>0. kind[f] = k /\ ans[f] = "ok" /\ tx[f] \in Calls
  BY Basics DEF Done
<1>1. CASE at[f] = "done"
  BY <1>0, <1>1 DEF ToldOver, Answered, Over, Site
<1>2. CASE at[f] \in {"COMMIT", "ROLLBACK"}
  <2>1. PICK c \in Conns : hold[c] = tx[f]
    BY <1>2 DEF WireInv, OneControl
  <2>2. wire[c] = <<>> /\ session[c] = "none"
    BY <1>0, <1>2, <2>1 DEF IInv, ControlLast
  <2>3. \A d \in Conns \ {c} : ~Site(d, tx[f])
    BY <1>0, <2>1 DEF OneSite, Site
  <2>4. Requests(c) = {}
    BY <2>2 DEF Requests
  <2> QED
    BY <1>0, <2>2, <2>3, <2>4 DEF Site
<1> QED
  BY <1>1, <1>2 DEF Done

LEMMA PromisedStep ==
  ASSUME IInv, WireInv, OneSite, ToldOver, SessionInv, AckedKept, FailedBy, Promised, Step
  PROVE  Promised'
<1> USE NoSuchCall
<1> SUFFICES ASSUME NEW f \in Calls, NEW h, h = tx'[f]
             PROVE  /\ Done(f, "rollback")' => Durable(h)' = {}
                    /\ Done(f, "commit")' /\ (Backend = "postgres" => \A g \in Stmts(h)' : ~Doubtful(g)') =>
                         \A g \in Stmts(h)' : Acked(g)' => Write(h, g, 1) \in durable'
  BY DEF Promised, Done, Durable, Stmts, Doubtful, Acked, Write
<1>1. ASSUME NEW k \in {"commit", "rollback"}, Done(f, k)'
      PROVE  /\ h \in Calls /\ h = tx[f] /\ kind[h] = "begin" /\ kind[f] = k
             /\ \/ Done(f, k)
                \/ \E c \in Conns, q \in Request :
                     /\ Serves(c, q, "ok") /\ q \in Requests(c) /\ q.f = f /\ hold[c] = h
                     /\ q.op = IF k = "commit" THEN "COMMIT" ELSE "ROLLBACK"
  BY <1>1, DoneStep
\* What was done stays: nothing is left that could change it.
<1>2. ASSUME NEW k \in {"commit", "rollback"}, Done(f, k)', Done(f, k) PROVE Durable(h)' = Durable(h)
  <2>1. h \in Calls /\ h = tx[f] /\ kind[h] = "begin"
    BY <1>1, <1>2
  <2>2. \A c \in Conns : session[c] # h
    BY <1>2, <2>1, DoneClean
  <2> QED
    BY <2>1, <2>2, DurableStep
\* Before the database ran its request the transaction was not over.
<1>3. ASSUME NEW k \in {"commit", "rollback"}, Done(f, k)', NEW c \in Conns, NEW q \in Requests(c), q.f = f
      PROVE  h \notin ended /\ Durable(h) = {}
  <2>1. h \in Calls /\ h = tx[f] /\ kind[f] = k
    BY <1>1, <1>3
  <2>2. Live(h)
    BY <1>3, <2>1 DEF Live, Sent
  <2> QED
    BY <2>1, <2>2 DEF SessionInv, EndedOnce, Durable
<1>4. ASSUME Done(f, "rollback")' PROVE Durable(h)' = {}
  <2>1. CASE Done(f, "rollback")
    BY <1>1, <1>2, <1>4, <2>1 DEF Promised
  <2>2. CASE ~Done(f, "rollback")
    <3>1. PICK c \in Conns, q \in Request :
            Serves(c, q, "ok") /\ q \in Requests(c) /\ q.f = f /\ q.op = "ROLLBACK"
      BY <1>1, <1>4, <2>2
    <3>2. durable' = durable
      <4>1. Effect(c, q, "ok")
        BY <3>1 DEF Serves
      <4> QED
        BY <3>1, <4>1 DEF Effect, storeVars
    <3>3. Durable(h) = {}
      BY <1>3, <1>4, <3>1
    <3> QED
      BY <3>2, <3>3 DEF Durable
  <2> QED
    BY <2>1, <2>2
<1>5. ASSUME Done(f, "commit")', Backend = "postgres" => \A g \in Stmts(h)' : ~Doubtful(g)',
             NEW g \in Stmts(h)', Acked(g)'
      PROVE  Write(h, g, 1) \in durable'
  <2>1. h \in Calls /\ h = tx[f] /\ kind[h] = "begin" /\ kind[f] = "commit"
    BY <1>1, <1>5
  <2>2. g \in Calls /\ kind[g] = "stmt" /\ tx[g] = h /\ g \in Stmts(h)
    BY <1>5, NewlyAcked DEF Stmts, SessionInv
  <2>3. Backend = "postgres" => \A s \in Stmts(h) : ~Doubtful(s)
    <3> SUFFICES ASSUME Backend = "postgres", NEW s \in Stmts(h), Doubtful(s) PROVE FALSE
      OBVIOUS
    <3>1. s \in Stmts(h)' /\ Doubtful(s)'
      BY <2>1, DoubtStays
    <3> QED
      BY <1>5, <3>1
  <2>4. CASE Done(f, "commit")
    <3>1. Acked(g)
      <4>1. ~(\E c \in Conns, q \in Request : q \in Requests(c) /\ q.f = g)
        BY <2>1, <2>2, <2>4, DoneClean
      <4> QED
        BY <1>5, <2>2, <4>1, NewlyAcked DEF SessionInv
    <3>2. Write(h, g, 1) \in durable
      BY <2>1, <2>2, <2>3, <2>4, <3>1 DEF Promised
    <3> QED
      BY <3>2, DurableMoves
  <2>5. CASE ~Done(f, "commit")
    <3>1. PICK c \in Conns, q \in Request :
            Serves(c, q, "ok") /\ q \in Requests(c) /\ q.f = f /\ hold[c] = h /\ q.op = "COMMIT"
      BY <1>1, <1>5, <2>5
    <3>2. h \notin ended
      BY <1>3, <1>5, <3>1
    <3>3. Acked(g)
      BY <1>5, <2>2, <3>1, NewlyAcked DEF SessionInv, Serves, Acked
    <3>4. PICK d \in Conns : Write(h, g, 1) \in work[d]
      BY <2>2, <3>2, <3>3 DEF AckedKept
    <3>5. session[d] = h
      BY <3>4 DEF SessionInv, OwnWork, Write
    <3>6. d = c
      BY <2>1, <3>1, <3>5 DEF OneSite, Site
    <3>7. ~failed[c]
      <4> SUFFICES ASSUME failed[c] PROVE FALSE
        OBVIOUS
      <4>1. Backend = "postgres" /\ \E s \in Stmts(h) : Doubtful(s)
        BY <2>1, <3>5, <3>6 DEF FailedBy
      <4> QED
        BY <2>3, <4>1
    <3>8. durable' = durable \cup work[c]
      <4>1. Effect(c, q, "ok")
        BY <3>1 DEF Serves
      <4> QED
        BY <3>1, <3>7, <4>1 DEF Effect
    <3> QED
      BY <3>4, <3>6, <3>8
  <2> QED
    BY <2>4, <2>5
<1> QED
  BY <1>4, <1>5

\* Once a commit was asked of the database it stays asked.
LEMMA CommitStep ==
  ASSUME IInv, Step, NEW f \in Calls, kind[f] = "commit", at[f] \in {"COMMIT", "done", "cancelled"}
  PROVE  kind'[f] = "commit" /\ tx'[f] = tx[f] /\ at'[f] \in {"COMMIT", "done", "cancelled"}
<1> USE AwaitedPlaces, NoSuchCall
<1>1. kind'[f] = "commit" /\ tx'[f] = tx[f]
  BY Onward
<1>2. CASE \E g \in Calls : Born(g) \/ Moves(g)
  BY <1>1, <1>2 DEF Born, Moves, Quiet
<1>3. CASE \E g \in Calls, d \in Conns, op \in Awaited, n \in Nat : Sends(g, d, op, n)
  BY <1>1, <1>3 DEF Sends, Quiet, MaySend
<1>4. CASE \E g \in Calls, d \in Conns : GivesUp(g, d)
  BY <1>1, <1>4 DEF GivesUp, Quiet
<1>5. CASE \E g \in Calls, d \in Conns, op \in {"handle", "BEGIN", "WRITE"} : Takes(g, d, op)
  BY <1>1, <1>5 DEF Takes
<1>6. CASE \/ \E d \in Conns, q \in Request, r \in {"ok", "err"} : Serves(d, q, r)
           \/ \E d \in Conns : Clears(d)
           \/ Closes
  BY <1>1, <1>6 DEF Serves, Clears, Closes
<1> QED
  BY <1>2, <1>3, <1>4, <1>5, <1>6 DEF Step

\* The COMMIT that makes a transaction durable is its own.
LEMMA OnlyOwnCommitStep ==
  ASSUME IInv, WireInv, SessionInv, OnlyOwnCommit, Step
  PROVE  OnlyOwnCommit'
<1> USE NoSuchCall
<1> SUFFICES ASSUME NEW h \in Calls, kind'[h] = "begin", Durable(h)' # {}
             PROVE  \E f \in Control(h)' : kind'[f] = "commit" /\ at'[f] \in {"COMMIT", "done", "cancelled"}
  BY DEF OnlyOwnCommit
<1>1. CASE \E f \in Control(h) : kind[f] = "commit" /\ at[f] \in {"COMMIT", "done", "cancelled"}
  <2>1. PICK f \in Control(h) : kind[f] = "commit" /\ at[f] \in {"COMMIT", "done", "cancelled"}
    BY <1>1
  <2>2. f \in Calls /\ tx[f] = h
    BY DEF Control
  <2>3. kind'[f] = "commit" /\ tx'[f] = tx[f] /\ at'[f] \in {"COMMIT", "done", "cancelled"}
    BY <2>1, <2>2, CommitStep
  <2> QED
    BY <2>2, <2>3 DEF Control
<1>2. CASE Durable(h)' # Durable(h)
  <2>1. /\ kind[h] \in {"auto", "script"} => kind'[h] = kind[h]
    BY Basics, KindAt, Onward
  <2>2. PICK c \in Conns, q \in Request :
          Serves(c, q, "ok") /\ q.op = "COMMIT" /\ session[c] = h /\ tx[q.f] = h
    BY <1>2, <2>1, DurableStep
  <2>3. q \in Requests(c) /\ UNCHANGED <<kind, tx, at>>
    BY <2>2 DEF Serves
  <2>4. q.f \in Calls /\ kind[q.f] \in Kinds /\ at[q.f] # "new"
    BY <2>3, RequestShape, Basics
  <2>5. kind[q.f] \notin {"begin", "stmt", "rollback"} /\ at[q.f] \in {"COMMIT", "cancelled"}
    BY <2>2, <2>3 DEF WireInv, Asked, Asks
  <2>6. kind[q.f] \notin {"auto", "many", "script"}
    BY <2>2, <2>3, <2>4, Basics DEF CallShape, Pooled
  <2>7. kind[q.f] = "commit"
    BY <2>4, <2>5, <2>6, Basics, KindAt DEF Kinds
  <2> QED
    BY <2>2, <2>3, <2>4, <2>5, <2>7 DEF Control
<1>3. CASE Durable(h)' = Durable(h)
  <2>1. kind[h] = "begin"
    <3>1. h \in ended
      BY <1>3 DEF SessionInv, EndedOnce, Durable
    <3>2. at[h] # "new"
      BY <3>1 DEF SessionInv, EndedOnce, Live
    <3> QED
      BY <3>2, Onward
  <2> QED
    BY <1>1, <1>3, <2>1 DEF OnlyOwnCommit
<1> QED
  BY <1>2, <1>3

\* A batch that keeps its connection keeps its transaction.
LEMMA BatchKept ==
  ASSUME IInv, WireInv, OwnWork, Step, NEW c \in Conns, NEW f \in Calls, kind[f] = "many",
         at[f] \in {"BEGIN", "WRITE"}, hold[c] = f, hold'[c] = f, alive'[c]
  PROVE  work[c] \subseteq work'[c]
<1> USE AwaitedPlaces, NoSuchCall
<1>1. SUFFICES ASSUME session[c] # "none", session'[c] = "none" PROVE FALSE
  BY WorkKept
<1>2. ASSUME NEW q \in Request, NEW r \in {"ok", "err"}, Serves(c, q, r),
             q.op \in {"COMMIT", "ROLLBACK", "GUARD"}
      PROVE  FALSE
  <2>1. q \in Requests(c)
    BY <1>2 DEF Serves
  <2>2. q.op # "GUARD"
    BY <2>1, RequestShape
  <2>3. at[q.f] = q.op /\ q.f \in Calls /\ tx[q.f] = f
    BY <1>2, <2>1, <2>2, RequestShape DEF WireInv, StillAwaited
  <2>4. q.f = f
    BY <2>3, NotShared DEF Pooled
  <2> QED
    BY <1>2, <2>3, <2>4
<1>3. ASSUME Clears(c) PROVE FALSE
  BY <1>3 DEF Clears
<1>4. ASSUME NEW g, NEW op, Takes(g, c, op) PROVE FALSE
  BY <1>4 DEF Takes
<1> QED
  BY <1>1, <1>2, <1>3, <1>4, SessionEnds

\* The rows that a batch sent before.
LEMMA RowsSent ==
  ASSUME IInv, WireInv, OneSite, SessionInv, RowsKept, Step, TypeOK', CallShape',
         NEW c \in Conns, NEW f \in Calls, kind'[f] = "many", hold'[c] = f, alive'[c], at'[f] = "WRITE", ans'[f] # "err",
         NEW n \in 1 .. row'[f], n < row'[f] \/ ans'[f] = "ok"
  PROVE  Write(f, f, n) \in work'[c]
<1> USE AwaitedPlaces, NoSuchCall
<1>1. CASE at[f] \in {"new", "get"}
  <2>1. CASE \E g \in Calls : Born(g) \/ Moves(g)
    BY <1>1, <2>1 DEF Born, Moves, Quiet
  <2>2. CASE \E g \in Calls, d \in Conns, op \in Awaited, k \in Nat : Sends(g, d, op, k)
    BY <1>1, <2>2 DEF Sends, Quiet, MaySend
  <2>3. CASE \E g \in Calls, d \in Conns : GivesUp(g, d)
    BY <1>1, <2>3 DEF GivesUp, Quiet
  <2>4. CASE \E g \in Calls, d \in Conns, op \in {"handle", "BEGIN", "WRITE"} : Takes(g, d, op)
    <3>1. PICK g \in Calls, d \in Conns, op \in {"handle", "BEGIN", "WRITE"} : Takes(g, d, op)
      BY <2>4
    <3>2. g = f /\ op = "WRITE"
      BY <1>1, <3>1 DEF Takes
    <3>3. row'[f] = 1 /\ ans'[f] = "none"
      BY <3>1, <3>2 DEF Takes
    <3> QED
      BY <3>3
  <2>5. CASE \/ \E d \in Conns, q \in Request, r \in {"ok", "err"} : Serves(d, q, r)
             \/ \E d \in Conns : Clears(d)
             \/ Closes
    BY <1>1, <2>5 DEF Serves, Clears, Closes
  <2> QED
    BY <2>1, <2>2, <2>3, <2>4, <2>5 DEF Step
<1>2. CASE at[f] \notin {"new", "get"}
  <2>1. kind[f] = "many" /\ tx[f] = f /\ row[f] \in 0 .. BatchRows
    BY <1>2, Onward, Basics DEF CallShape, Pooled, TypeOK
  <2>2. hold[c] = f /\ alive[c]
    <3>1. \A op : ~Takes(f, c, op)
      BY <1>2 DEF Takes
    <3>2. ASSUME NEW g \in Calls, tx'[g] = f PROVE at'[g] \notin {"COMMIT", "ROLLBACK"}
      <4>1. kind'[g] \in Kinds
        BY DEF TypeOK
      <4>2. CASE kind'[g] \in {"stmt", "commit", "rollback"}
        BY <3>2, <4>2 DEF CallShape
      <4>3. CASE kind'[g] \in Pooled \cup {"none"}
        BY <3>2, <4>3 DEF CallShape
      <4> QED
        BY <4>1, <4>2, <4>3 DEF Kinds, Pooled
    <3> QED
      BY <3>1, <3>2, HoldsStep DEF Holds, Controlled
  <2>3. at[f] \in {"BEGIN", "WRITE"} /\ work[c] \subseteq work'[c]
    <3>1. at[f] \in {"BEGIN", "WRITE"}
      <4>1. CASE \E g \in Calls : Born(g) \/ Moves(g)
        BY <1>2, <4>1 DEF Born, Moves, Quiet
      <4>2. CASE \E g \in Calls, d \in Conns, op \in Awaited, k \in Nat : Sends(g, d, op, k)
        <5>1. PICK g \in Calls, d \in Conns, op \in Awaited, k \in Nat : Sends(g, d, op, k)
          BY <4>2
        <5>2. at'[g] = op
          <6>1. at' = [at EXCEPT ![g] = op] /\ at \in [Calls -> Places]
            BY <5>1, Basics DEF Sends, Send, TypeOK
          <6> QED
            BY <6>1
        <5>3. g = f => at[f] \in {"BEGIN", "WRITE"}
          BY <2>1, <5>1, <5>2 DEF Sends, MaySend
        <5> QED
          BY <5>1, <5>3 DEF Sends, Quiet
      <4>3. CASE \E g \in Calls, d \in Conns : GivesUp(g, d)
        BY <4>3 DEF GivesUp, Quiet
      <4>4. CASE \E g \in Calls, d \in Conns, op \in {"handle", "BEGIN", "WRITE"} : Takes(g, d, op)
        BY <1>2, <4>4 DEF Takes
      <4>5. CASE \/ \E d \in Conns, q \in Request, r \in {"ok", "err"} : Serves(d, q, r)
                 \/ \E d \in Conns : Clears(d)
                 \/ Closes
        BY <4>5 DEF Serves, Clears, Closes
      <4> QED
        BY <4>1, <4>2, <4>3, <4>4, <4>5 DEF Step
    <3> QED
      BY <2>1, <2>2, <3>1, BatchKept DEF SessionInv
  <2>4. ASSUME at[f] = "WRITE", ans[f] # "err", NEW m \in 1 .. row[f], m < row[f] \/ ans[f] = "ok"
        PROVE  Write(f, f, m) \in work'[c]
    <3>1. Write(f, f, m) \in work[c]
      BY <2>1, <2>2, <2>4 DEF RowsKept
    <3> QED
      BY <2>3, <3>1
  <2>5. CASE \E g \in Calls : Born(g) \/ Moves(g)
    BY <1>2, <2>4, <2>5 DEF Born, Moves, Quiet, Kept
  <2>6. CASE \E g \in Calls, d \in Conns, op \in Awaited, k \in Nat : Sends(g, d, op, k)
    <3>1. PICK g \in Calls, d \in Conns, op \in Awaited, k \in Nat : Sends(g, d, op, k)
      BY <2>6
    <3>2. Send(g, d, op, k) /\ hold[d] = tx[g]
      BY <3>1 DEF Sends
    <3>3. CASE g # f
      <4>1. at'[f] = at[f] /\ ans'[f] = ans[f] /\ row'[f] = row[f]
        BY <3>1, <3>3 DEF Sends, Quiet
      <4> QED
        BY <2>4, <4>1
    <3>4. CASE g = f
      <4>1. d = c
        BY <2>1, <2>2, <3>2, <3>4, Basics
      <4>2. at'[f] = op /\ ans'[f] = "none" /\ row'[f] = k
        BY <2>2, <3>2, <3>4, <4>1, Basics, SendFacts
      <4>3. ans[f] = "ok" /\ k = row[f] + 1
        BY <2>1, <2>3, <3>1, <3>4, <4>2 DEF Sends, MaySend
      <4>4. at[f] = "BEGIN" => row[f] = 0
        BY <2>1 DEF WireInv, RowShape
      <4>5. n \in 1 .. row[f]
        BY <2>1, <4>2, <4>3
      <4>6. at[f] = "WRITE"
        BY <2>3, <4>4, <4>5
      <4> QED
        BY <2>4, <4>3, <4>5, <4>6
    <3> QED
      BY <3>3, <3>4
  <2>7. CASE \E g \in Calls, d \in Conns : GivesUp(g, d)
    BY <2>4, <2>7 DEF GivesUp, Quiet, Kept
  <2>8. CASE \E g \in Calls, d \in Conns, op \in {"handle", "BEGIN", "WRITE"} : Takes(g, d, op)
    BY <1>2, <2>4, <2>8 DEF Takes
  <2>9. CASE \E d \in Conns, q \in Request, r \in {"ok", "err"} : Serves(d, q, r)
    <3>1. PICK d \in Conns, q \in Request, r \in {"ok", "err"} : Serves(d, q, r)
      BY <2>9
    <3>2. UNCHANGED <<kind, tx, at, row>> /\ q \in Requests(d) /\ Effect(d, q, r)
      BY <3>1 DEF Serves
    <3>3. CASE f # q.f \/ at[q.f] # q.op
      BY <2>4, <3>1, <3>2, <3>3 DEF Serves
    <3>4. CASE f = q.f /\ at[q.f] = q.op
      <4>1. d = c /\ r = "ok" /\ ans[f] = "none" /\ q.op = "WRITE"
        BY <2>1, <2>2, <3>1, <3>2, <3>4, Basics DEF Serves
      <4>2. q.n = row[f]
        BY <3>2, <3>4 DEF WireInv, Asked, Asks
      <4>3. session[c] # "none" \/ ImplicitBegin
        BY <2>1, <3>2, <3>4, <4>1 DEF SessionInv, OpenSession
      <4>4. Write(f, f, row[f]) \in work'[c]
        BY <2>1, <3>2, <3>4, <4>1, <4>2, <4>3 DEF Effect
      <4>5. n \in 1 .. row[f] /\ (n < row[f] \/ n = row[f])
        BY <2>1, <3>2
      <4> QED
        BY <2>4, <3>2, <4>1, <4>4, <4>5
    <3> QED
      BY <3>3, <3>4
  <2>10. CASE \E d \in Conns : Clears(d)
    BY <2>4, <2>10 DEF Clears
  <2>11. CASE Closes
    BY <2>4, <2>11 DEF Closes
  <2> QED
    BY <2>5, <2>6, <2>7, <2>8, <2>9, <2>10, <2>11 DEF Step
<1> QED
  BY <1>1, <1>2

\* A batch commits all of its rows or none.
LEMMA RowsKeptStep ==
  ASSUME IInv, WireInv, OneSite, SessionInv, RowsKept, Step, TypeOK', CallShape'
  PROVE  RowsKept'
<1> USE AwaitedPlaces, NoSuchCall
<1>1. ASSUME NEW c \in Conns, NEW f \in Calls,
             kind'[f] = "many", hold'[c] = f, alive'[c], at'[f] = "WRITE", ans'[f] # "err",
             NEW n \in 1 .. row'[f], n < row'[f] \/ ans'[f] = "ok"
      PROVE  Write(f, f, n) \in work'[c]
  BY <1>1, RowsSent
<1>2. ASSUME NEW c \in Conns, NEW q \in Requests(c)', q.op = "COMMIT", kind'[q.f] = "many",
             NEW n \in 1 .. BatchRows
      PROVE  Write(q.f, q.f, n) \in work'[c]
  <2>1. q.f \in Calls /\ kind[q.f] = "many" /\ tx[q.f] \in Calls
    BY <1>2, RequestKept
  <2>2. CASE q \in Requests(c)
    <3>1. Write(q.f, q.f, n) \in work[c]
      BY <1>2, <2>1, <2>2 DEF RowsKept
    <3>2. ASSUME session[c] # "none", session'[c] = "none" PROVE FALSE
      <4>1. ASSUME NEW p \in Request, NEW r \in {"ok", "err"}, Serves(c, p, r),
                   p.op \in {"COMMIT", "ROLLBACK", "GUARD"}
            PROVE  FALSE
        BY <1>2, <4>1 DEF Serves, Requests
      <4>2. ASSUME Clears(c) PROVE FALSE
        BY <4>2 DEF Clears, Requests
      <4>3. ASSUME NEW g, NEW op, Takes(g, c, op) PROVE FALSE
        <5>1. wire[c] # <<>>
          BY <2>2 DEF Requests
        <5> QED
          BY <1>2, <2>2, <4>3, <5>1 DEF Takes, WireInv, OnlyWrites
      <4> QED
        BY <3>2, <4>1, <4>2, <4>3, SessionEnds
    <3> QED
      BY <3>1, <3>2, WorkKept DEF SessionInv
  <2>3. CASE alive[c] /\ Sends(q.f, c, q.op, q.n)
    <3>1. hold[c] = q.f
      BY <2>1, <2>3, Basics DEF Sends, CallShape, Pooled
    <3>2. at[q.f] \in {"BEGIN", "WRITE"} /\ ans[q.f] = "ok" /\ row[q.f] = BatchRows
      BY <1>2, <2>1, <2>3, Basics DEF Sends, MaySend, CallShape
    <3>3. at[q.f] = "WRITE"
      BY <2>1, <3>2, BatchAssumption DEF WireInv, RowShape
    <3>4. Write(q.f, q.f, n) \in work[c]
      BY <2>1, <2>3, <3>1, <3>2, <3>3 DEF RowsKept
    <3> QED
      BY <2>3, <3>4 DEF Sends, Quiet
  <2> QED
    BY <1>2, <2>2, <2>3, Arrivals
<1>3. ASSUME NEW h \in Calls, kind'[h] = "many", Durable(h)' # {}, NEW n \in 1 .. BatchRows
      PROVE  Write(h, h, n) \in durable'
  <2>1. CASE Durable(h)' = Durable(h)
    <3>1. h \in ended
      BY <1>3, <2>1 DEF SessionInv, EndedOnce, Durable
    <3>2. at[h] # "new"
      BY <3>1 DEF SessionInv, EndedOnce, Live
    <3>3. kind[h] = "many"
      BY <1>3, <3>2, Onward
    <3>4. Write(h, h, n) \in durable
      BY <1>3, <2>1, <3>3 DEF RowsKept
    <3> QED
      BY <3>4, DurableMoves
  <2>2. CASE Durable(h)' # Durable(h)
    <3>1. kind[h] \in {"auto", "script"} => kind'[h] = kind[h]
      BY Basics, KindAt, Onward
    <3>2. PICK c \in Conns, q \in Request :
            /\ Serves(c, q, "ok") /\ q.op = "COMMIT" /\ session[c] = h /\ tx[q.f] = h
            /\ durable' = durable \cup work[c]
      BY <1>3, <2>2, <3>1, DurableStep
    <3>3. q \in Requests(c) /\ kind' = kind
      BY <3>2 DEF Serves
    <3>4. q.f \in Calls /\ kind[q.f] \in Kinds /\ kind[h] = "many"
      BY <1>3, <3>3, RequestShape, Basics
    <3>5. q.f = h
      <4>1. kind[q.f] \notin {"stmt", "commit", "rollback"}
        BY <3>2, <3>4, Basics DEF CallShape
      <4> QED
        BY <3>2, <3>4, <4>1, Basics DEF CallShape, Pooled, Kinds
    <3>6. Write(h, h, n) \in work[c]
      BY <3>2, <3>3, <3>4, <3>5 DEF RowsKept
    <3> QED
      BY <3>2, <3>6
  <2> QED
    BY <2>1, <2>2
<1> QED
  BY <1>1, <1>2, <1>3 DEF RowsKept, Write, Durable

-----------------------------------------------------------------------------
(* The invariant. *)

LEMMA WriteInvStep ==
  ASSUME DataInv, Step, IInv'
  PROVE  WriteInv'
<1>1. /\ IInv /\ WireInv /\ OneSite /\ ToldOver /\ SessionInv
      /\ AckedKept /\ RowsKept /\ FailedBy /\ Promised /\ OnlyOwnCommit /\ TypeOK' /\ CallShape'
  BY DEF DataInv, WriteInv, IInv
<1> QED
  BY <1>1, AckedKeptStep, RowsKeptStep, FailedByStep, PromisedStep, OnlyOwnCommitStep DEF WriteInv

\* Whoever succeeds has the connection, so nobody succeeded before.
LEMMA ToldOnceStep ==
  ASSUME IInv, WireInv, ToldOver, ToldOnce, Step
  PROVE  ToldOnce'
<1> USE NoSuchCall
<1>1. ASSUME NEW f \in Calls, NEW g \in Calls, Answered(f, "ok"), kind[f] \in {"commit", "rollback"},
             Answered(g, "ok")', ~Answered(g, "ok"), kind'[g] \in {"commit", "rollback"}, tx'[f] = tx'[g]
      PROVE  FALSE
  <2>1. tx'[f] = tx[f] /\ tx[f] \in Calls
    BY <1>1, Onward, Basics DEF Answered
  <2>2. tx'[g] = tx[g] /\ \E c \in Conns : GivesUp(g, c)
    BY <1>1, Finishes
  <2>3. PICK c \in Conns : hold[c] = tx[g]
    BY <2>2 DEF GivesUp
  <2>4. Over(tx[f])
    BY <1>1 DEF ToldOver
  <2> QED
    BY <1>1, <2>1, <2>2, <2>3, <2>4 DEF Over, Site
<1>2. ASSUME NEW f \in Calls, Answered(f, "ok")', ~Answered(f, "ok"), kind'[f] \in {"commit", "rollback"}
      PROVE  \E c \in Conns : GivesUp(f, c)
  BY <1>2, Finishes
<1>3. ASSUME NEW f \in Calls, NEW g \in Calls, NEW c \in Conns, NEW d \in Conns,
             GivesUp(f, c), GivesUp(g, d)
      PROVE  f = g
  BY <1>3, AwaitedPlaces DEF GivesUp, Quiet
<1> SUFFICES ASSUME NEW f \in Calls, NEW g \in Calls,
                    Answered(f, "ok")', kind'[f] \in {"commit", "rollback"},
                    Answered(g, "ok")', kind'[g] \in {"commit", "rollback"}, tx'[f] = tx'[g]
             PROVE  f = g
  BY DEF ToldOnce, Answered
<1>4. CASE Answered(f, "ok") /\ Answered(g, "ok")
  <2>1. /\ kind'[f] = kind[f] /\ tx'[f] = tx[f] /\ kind'[g] = kind[g] /\ tx'[g] = tx[g]
    BY <1>4, Onward DEF Answered
  <2> QED
    BY <1>4, <2>1 DEF ToldOnce
<1>5. CASE Answered(f, "ok") /\ ~Answered(g, "ok")
  <2>1. kind'[f] = kind[f]
    BY <1>5, Onward DEF Answered
  <2> QED
    BY <1>1, <1>5, <2>1
<1>6. CASE ~Answered(f, "ok") /\ Answered(g, "ok")
  <2>1. kind'[g] = kind[g]
    BY <1>6, Onward DEF Answered
  <2> QED
    BY <1>1, <1>6, <2>1
<1>7. CASE ~Answered(f, "ok") /\ ~Answered(g, "ok")
  BY <1>2, <1>3, <1>7
<1> QED
  BY <1>4, <1>5, <1>6, <1>7

\* Nothing changes when the system does nothing.
LEMMA DataStutters ==
  ASSUME DataInv, UNCHANGED vars, IInv'
  PROVE  DataInv'
<1>1. UNCHANGED <<kind, tx, at, ans, row, hold, wire, session, work, failed, alive, durable, ended>>
  BY DEF vars, callVars, connVars, storeVars
<1>2. \A c \in Conns : Requests(c)' = Requests(c)
  BY <1>1 DEF Requests
<1>3. WireInv'
  <2>1. Asked' /\ InTurn'
    BY <1>1, <1>2 DEF DataInv, WireInv, Asked, Asks, InTurn
  <2>2. StillAwaited' /\ AnsweredLast' /\ OnlyWrites'
    BY <1>1, <1>2 DEF DataInv, WireInv, StillAwaited, AnsweredLast, OnlyWrites
  <2>3. OneControl' /\ RowShape'
    BY <1>1 DEF DataInv, WireInv, OneControl, RowShape
  <2> QED
    BY <2>1, <2>2, <2>3 DEF WireInv
<1>4. \A c \in Conns, h \in Calls : Site(c, h)' <=> Site(c, h)
  BY <1>1, <1>2 DEF Site
<1>5. OneSite' /\ ToldOver' /\ ToldOnce'
  <2>1. OneSite'
    BY <1>1, <1>4 DEF DataInv, OneSite
  <2>2. \A h \in Calls : Over(h)' <=> Over(h)
    BY <1>4 DEF Over
  <2>3. ToldOver'
    <3> SUFFICES ASSUME NEW f \in Calls, Answered(f, "ok")', NEW h, h = tx[f]
                 PROVE  /\ kind[f] \in {"commit", "rollback"} => Over(h)'
                        /\ kind[f] \in {"auto", "many"} => Over(f)'
      BY <1>1 DEF ToldOver, Over, Site
    <3>1. Answered(f, "ok") /\ h \in Calls
      BY <1>1, Basics DEF Answered, DataInv
    <3> QED
      BY <2>2, <3>1 DEF DataInv, ToldOver
  <2>4. ToldOnce'
    BY <1>1 DEF DataInv, ToldOnce, Answered
  <2> QED
    BY <2>1, <2>3, <2>4
<1>6. SessionInv'
  <2>1. OwnWork' /\ OpenSession'
    <3>1. \A h \in Calls, c \in Conns : (Holds(h, c)' <=> Holds(h, c)) /\ (Opened(h)' <=> Opened(h))
      BY <1>1 DEF Holds, Controlled, Opened
    <3> QED
      BY <1>1, <1>2, <3>1 DEF DataInv, SessionInv, OwnWork, OpenSession
  <2>2. EndedOnce'
    <3>1. \A h \in Calls, c \in Conns : (Holds(h, c)' <=> Holds(h, c)) /\ (WillWrite(h)' <=> WillWrite(h))
                                        /\ (Sent(c, h)' <=> Sent(c, h))
      BY <1>1, <1>2 DEF Holds, Controlled, WillWrite, Sent
    <3>2. \A h \in Calls : Live(h)' => Live(h)
      BY <1>1, <3>1 DEF Live
    <3>3. ended \subseteq Calls
      BY Basics DEF DataInv, TypeOK
    <3> QED
      BY <1>1, <3>2, <3>3 DEF DataInv, SessionInv, EndedOnce
  <2> QED
    BY <2>1, <2>2 DEF SessionInv
<1>7. WriteInv'
  <2>1. AckedKept' /\ FailedBy'
    BY <1>1 DEF DataInv, WriteInv, AckedKept, FailedBy, Acked, Doubtful, Durable, Stmts, Write
  <2>2. RowsKept' /\ OnlyOwnCommit'
    BY <1>1, <1>2 DEF DataInv, WriteInv, RowsKept, OnlyOwnCommit, Durable, Write, Control
  <2>3. Promised'
    BY <1>1 DEF DataInv, WriteInv, Promised, Done, Acked, Doubtful, Durable, Stmts, Write
  <2> QED
    BY <2>1, <2>2, <2>3 DEF WriteInv
<1> QED
  BY <1>3, <1>5, <1>6, <1>7 DEF DataInv

LEMMA DataInit == Init => DataInv
<1> SUFFICES ASSUME Init PROVE DataInv
  OBVIOUS
<1> USE NoSuchCall, AwaitedPlaces
<1>1. IInv
  BY InvInit
<1>2. /\ \A f \in Calls : kind[f] = "none" /\ tx[f] = f /\ at[f] = "new" /\ ans[f] = "none" /\ row[f] = 0
      /\ \A c \in Conns : /\ hold[c] = "pool" /\ wire[c] = <<>> /\ session[c] = "none"
                          /\ work[c] = {} /\ failed[c] = FALSE
      /\ durable = {} /\ ended = {}
  BY DEF Init
<1>3. \A c \in Conns : Requests(c) = {} /\ DOMAIN wire[c] = {}
  BY <1>2 DEF Requests
<1>4. WireInv
  BY <1>2, <1>3
  DEF WireInv, Asked, InTurn, StillAwaited, AnsweredLast, OnlyWrites, OneControl, RowShape
<1>5. OneSite /\ ToldOver /\ ToldOnce
  BY <1>2, <1>3 DEF OneSite, ToldOver, ToldOnce, Site, Answered
<1>6. SessionInv
  BY <1>2, <1>3 DEF SessionInv, OwnWork, EndedOnce, OpenSession, Holds
<1>7. WriteInv
  BY <1>2, <1>3 DEF WriteInv, AckedKept, RowsKept, FailedBy, Promised, OnlyOwnCommit, Acked, Done, Durable
<1> QED
  BY <1>1, <1>4, <1>5, <1>6, <1>7 DEF DataInv

\* What the requests, the sessions and the database have to do with each other stays so.
LEMMA DataInductive == InOrder /\ DataInv /\ [Next]_vars => DataInv'
<1> SUFFICES ASSUME InOrder, DataInv, [Next]_vars PROVE DataInv'
  OBVIOUS
<1>1. IInv'
  BY Inductive DEF DataInv
<1>2. CASE UNCHANGED vars
  BY <1>1, <1>2, DataStutters
<1>3. CASE Next
  <2>1. /\ IInv /\ WireInv /\ OneSite /\ ToldOver /\ ToldOnce
        /\ SessionInv /\ OwnWork /\ EndedOnce /\ OpenSession
    BY DEF DataInv, SessionInv
  <2>2. Step /\ TypeOK'
    BY <1>1, <1>3, <2>1, StepShape DEF IInv
  <2>3. WireInv'
    BY <2>1, <2>2, WireStep
  <2>4. OneSite' /\ ToldOver' /\ ToldOnce'
    BY <1>1, <2>1, <2>2, OneSiteStep, ToldOverStep, ToldOnceStep
  <2>5. SessionInv'
    BY <2>1, <2>2, EndedOnceStep, OwnWorkStep, OpenSessionStep DEF SessionInv
  <2>6. WriteInv'
    BY <1>1, <2>2, WriteInvStep
  <2> QED
    BY <1>1, <2>3, <2>4, <2>5, <2>6 DEF DataInv
<1> QED
  BY <1>2, <1>3

-----------------------------------------------------------------------------
(* What the invariant says of the writes. *)

\* The wires, the sessions and what is durable of a transaction agree in every state.
THEOREM DataInvariance ==
  ASSUME InOrder
  PROVE  Spec => []DataInv
<1>1. Init => DataInv
  BY DataInit
<1>2. DataInv /\ [Next]_vars => DataInv'
  BY DataInductive
<1> QED
  BY <1>1, <1>2, PTL DEF Spec

\* What survives of a transaction was committed by its own caller and is whole: with one of
\* its acknowledged statements every other, with one row of a batch all of them.
THEOREM WritesSurviveWhole ==
  ASSUME InOrder
  PROVE  Spec => []WritesAreWhole
<1>1. DataInv => WritesAreWhole
  <2> SUFFICES ASSUME DataInv PROVE WritesAreWhole
    OBVIOUS
  <2>1. OnlyOwnCommit
    BY DEF DataInv, WriteInv
  <2>2. ASSUME NEW h \in Calls, Durable(h) # {}, NEW g \in Stmts(h), Answered(g, "ok")
        PROVE  [of |-> h, by |-> g, n |-> 1] \in durable
    <3>1. Acked(g) /\ g \in Calls /\ tx[g] = h
      BY <2>2 DEF Acked, Stmts, Answered
    <3> QED
      BY <2>2, <3>1 DEF DataInv, WriteInv, AckedKept, Write
  <2>3. ASSUME NEW h \in Calls, Durable(h) # {}, kind[h] = "many", NEW n \in 1 .. BatchRows
        PROVE  [of |-> h, by |-> h, n |-> n] \in durable
    BY <2>3 DEF DataInv, WriteInv, RowsKept, Write
  <2> QED
    BY <2>1, <2>2, <2>3 DEF WritesAreWhole, AllOrNothing
<1> QED
  BY DataInvariance, <1>1, PTL

\* A commit() that returned means that every acknowledged statement survives; on PostgreSQL,
\* if none of them failed or was abandoned.
THEOREM CommitsAreTrue ==
  ASSUME InOrder
  PROVE  Spec => []CommitIsTrue
<1>1. DataInv => CommitIsTrue
  <2> SUFFICES ASSUME DataInv, NEW f \in Calls, kind[f] = "commit", Answered(f, "ok"),
                      Backend = "postgres" => \A g \in Stmts(tx[f]) : Answered(g, "ok"),
                      NEW g \in Stmts(tx[f]), Answered(g, "ok")
               PROVE  [of |-> tx[f], by |-> g, n |-> 1] \in durable
    BY DEF CommitIsTrue
  <2>1. Done(f, "commit") /\ Acked(g)
    BY DEF Done, Acked, Answered, Stmts
  <2>2. Backend = "postgres" => \A s \in Stmts(tx[f]) : ~Doubtful(s)
    BY DEF Doubtful, Answered
  <2>3. Promised
    BY DEF DataInv, WriteInv
  <2> QED
    BY <2>1, <2>2, <2>3 DEF Promised, Write
<1> QED
  BY DataInvariance, <1>1, PTL

-----------------------------------------------------------------------------
(* The engine implements AtomicTx. *)

\* A step ends one transaction at most, which had not ended, and only its writes survive by it.
LEMMA OutcomeStep ==
  ASSUME DataInv, Step
  PROVE  \/ durable' = durable /\ ended' = ended
         \/ \E h \in Calls, c \in Conns :
              /\ h \notin ended /\ Site(c, h) /\ ended' = ended \cup {h}
              /\ durable \subseteq durable' /\ \A w \in durable' \ durable : w.of = h
<1> USE NoSuchCall
<1>0. IInv /\ WireInv /\ OpenSession /\ OwnWork /\ EndedOnce
  BY DEF DataInv, SessionInv
<1>1. ASSUME NEW c \in Conns, Ends(c), durable' = durable \/ durable' = durable \cup work[c]
      PROVE  \/ durable' = durable /\ ended' = ended
             \/ \E h \in Calls :
                  /\ h \notin ended /\ Site(c, h) /\ ended' = ended \cup {h}
                  /\ durable \subseteq durable' /\ \A w \in durable' \ durable : w.of = h
  <2>1. CASE session[c] = "none"
    BY <1>0, <1>1, <2>1 DEF Ends, OwnWork
  <2>2. CASE session[c] # "none"
    <3>1. session[c] \in Calls /\ Site(c, session[c])
      BY <1>0, <2>2, Basics DEF TypeOK, Site
    <3>2. session[c] \notin ended
      BY <1>0, <3>1 DEF EndedOnce, Live
    <3>3. \A w \in work[c] : w.of = session[c]
      BY <1>0 DEF OwnWork
    <3> QED
      BY <1>1, <2>2, <3>1, <3>2, <3>3 DEF Ends
  <2> QED
    BY <2>1, <2>2
<1>2. CASE \E f \in Calls : Born(f) \/ Moves(f)
  BY <1>2 DEF Born, Moves, Quiet, storeVars
<1>3. CASE \E f \in Calls, d \in Conns, op \in Awaited, n \in Nat : Sends(f, d, op, n)
  BY <1>3 DEF Sends, Quiet, storeVars
<1>4. CASE \E f \in Calls, d \in Conns : GivesUp(f, d)
  BY <1>4 DEF GivesUp, Quiet, storeVars
<1>5. CASE \E f \in Calls, d \in Conns, op \in {"handle", "BEGIN", "WRITE"} : Takes(f, d, op)
  <2>1. PICK d \in Conns : Ends(d) /\ durable' = durable
    BY <1>5 DEF Takes
  <2> QED
    BY <1>1, <2>1
<1>6. CASE \E d \in Conns, q \in Request, r \in {"ok", "err"} : Serves(d, q, r)
  <2>1. PICK d \in Conns, q \in Request, r \in {"ok", "err"} : Serves(d, q, r)
    BY <1>6
  <2>2. Effect(d, q, r) /\ q \in Requests(d)
    BY <2>1 DEF Serves
  <2>3. \/ UNCHANGED storeVars
        \/ Ends(d) /\ (durable' = durable \/ durable' = durable \cup work[d])
        \/ /\ q.op = "WRITE" /\ session[d] = "none" /\ ~ImplicitBegin
           /\ durable' = durable \cup {Write(tx[q.f], q.f, q.n)} /\ ended' = ended \cup {tx[q.f]}
    BY <2>2 DEF Effect
  <2>4. CASE /\ q.op = "WRITE" /\ session[d] = "none" /\ ~ImplicitBegin
             /\ durable' = durable \cup {Write(tx[q.f], q.f, q.n)} /\ ended' = ended \cup {tx[q.f]}
    <3>1. q.f \in Calls /\ tx[q.f] = q.f
      BY <1>0, <2>2, <2>4, AutocommitKind
    <3>2. Site(d, q.f) /\ q.f \notin ended
      BY <1>0, <2>2, <2>4, <3>1 DEF Site, EndedOnce, Live, Sent
    <3>3. \A w \in durable' \ durable : w.of = q.f
      BY <2>4, <3>1 DEF Write
    <3> QED
      BY <2>4, <3>1, <3>2, <3>3
  <2> QED
    BY <1>1, <2>3, <2>4 DEF storeVars
<1>7. CASE \E d \in Conns : Clears(d)
  <2>1. PICK d \in Conns : Ends(d) /\ durable' = durable
    BY <1>7 DEF Clears
  <2> QED
    BY <1>1, <2>1
<1>8. CASE Closes
  BY <1>8 DEF Closes
<1> QED
  BY <1>2, <1>3, <1>4, <1>5, <1>6, <1>7, <1>8 DEF Step

\* The caller of o was told that o is committed, or rolled back.
Committed(o) ==
  \/ \E f \in Control(o) : kind[f] = "commit" /\ Answered(f, "ok")
  \/ kind[o] \in {"auto", "many"} /\ Answered(o, "ok")
RolledBack(o) == \E f \in Control(o) : kind[f] = "rollback" /\ Answered(f, "ok")

LEMMA ToldIs ==
  ASSUME DataInv, NEW o \in Calls
  PROVE  /\ ~(Committed(o) /\ RolledBack(o))
         /\ Committed(o) => Told(o) = "committed"
         /\ RolledBack(o) => Told(o) = "rolledback"
         /\ ~Committed(o) /\ ~RolledBack(o) => Told(o) = "nothing"
<1>1. ASSUME Committed(o), RolledBack(o) PROVE FALSE
  <2>1. PICK g \in Control(o) : kind[g] = "rollback" /\ Answered(g, "ok")
    BY <1>1 DEF RolledBack
  <2>2. g \in Calls /\ tx[g] = o
    BY DEF Control
  <2>3. kind[o] = "begin"
    BY <2>1, <2>2, Basics DEF DataInv, CallShape
  <2>4. PICK f \in Control(o) : kind[f] = "commit" /\ Answered(f, "ok")
    BY <1>1, <2>3 DEF Committed
  <2>5. f \in Calls /\ tx[f] = o
    BY DEF Control
  <2>6. f = g
    BY <2>1, <2>2, <2>4, <2>5 DEF DataInv, ToldOnce
  <2> QED
    BY <2>1, <2>4, <2>6
<1> QED
  BY <1>1 DEF Told, Committed, RolledBack

\* A transaction whose caller was told its end is nowhere.
LEMMA ToldNowhere ==
  ASSUME DataInv, NEW o \in Calls, Committed(o) \/ RolledBack(o)
  PROVE  Over(o)
<1>1. ToldOver
  BY DEF DataInv
<1>2. ASSUME NEW f \in Control(o), Answered(f, "ok") PROVE Over(o)
  <2>1. f \in Calls /\ tx[f] = o /\ kind[f] \in {"commit", "rollback"}
    BY DEF Control
  <2> QED
    BY <1>1, <1>2, <2>1 DEF ToldOver
<1>3. kind[o] \in {"auto", "many"} /\ Answered(o, "ok") => Over(o)
  BY <1>1 DEF ToldOver
<1> QED
  BY <1>2, <1>3 DEF Committed, RolledBack

\* What a caller was told is not taken back; it is told it by the call that gives the
\* transaction's connection up.
LEMMA ToldStep ==
  ASSUME DataInv, Step, NEW o \in Calls
  PROVE  /\ Committed(o) => Committed(o)'
         /\ RolledBack(o) => RolledBack(o)'
         /\ Committed(o)' /\ ~Committed(o) =>
              \E f \in Calls, c \in Conns : GivesUp(f, c) /\ tx[f] = o /\ Good(f)
         /\ RolledBack(o)' /\ ~RolledBack(o) =>
              \E f \in Calls, c \in Conns : GivesUp(f, c) /\ tx[f] = o /\ Good(f) /\ kind[f] = "rollback"
<1>0. IInv
  BY DEF DataInv
<1>1. ASSUME NEW f \in Calls, Answered(f, "ok"), kind[f] # "none"
      PROVE  Answered(f, "ok")' /\ kind'[f] = kind[f] /\ tx'[f] = tx[f]
  BY <1>0, <1>1, Onward DEF Answered
<1>2. ASSUME NEW f \in Calls, Answered(f, "ok")', ~Answered(f, "ok"),
             kind'[f] \in {"commit", "rollback", "auto", "many"}
      PROVE  kind'[f] = kind[f] /\ tx'[f] = tx[f] /\ \E c \in Conns : GivesUp(f, c) /\ Good(f)
  BY <1>0, <1>2, Finishes
<1>3. ASSUME NEW f \in Calls, Answered(f, "ok"), kind'[f] \in {"commit", "rollback", "auto", "many"}
      PROVE  kind'[f] = kind[f] /\ tx'[f] = tx[f]
  BY <1>0, <1>3, Onward DEF Answered
<1>4. Committed(o) => Committed(o)'
  <2>1. CASE \E f \in Control(o) : kind[f] = "commit" /\ Answered(f, "ok")
    <3>1. PICK f \in Calls : tx[f] = o /\ kind[f] = "commit" /\ Answered(f, "ok")
      BY <2>1 DEF Control
    <3>2. Answered(f, "ok")' /\ kind'[f] = "commit" /\ tx'[f] = o
      BY <1>1, <3>1
    <3>3. f \in Control(o)'
      BY <3>2 DEF Control
    <3> QED
      BY <3>2, <3>3 DEF Committed
  <2>2. CASE kind[o] \in {"auto", "many"} /\ Answered(o, "ok")
    BY <1>1, <2>2 DEF Committed
  <2> QED
    BY <2>1, <2>2 DEF Committed
<1>5. RolledBack(o) => RolledBack(o)'
  <2> SUFFICES ASSUME RolledBack(o) PROVE RolledBack(o)'
    OBVIOUS
  <2>1. PICK f \in Calls : tx[f] = o /\ kind[f] = "rollback" /\ Answered(f, "ok")
    BY DEF Control, RolledBack
  <2>2. Answered(f, "ok")' /\ kind'[f] = "rollback" /\ tx'[f] = o
    BY <1>1, <2>1
  <2>3. f \in Control(o)'
    BY <2>2 DEF Control
  <2> QED
    BY <2>2, <2>3 DEF RolledBack
<1>6. ASSUME Committed(o)', ~Committed(o)
      PROVE  \E f \in Calls, c \in Conns : GivesUp(f, c) /\ tx[f] = o /\ Good(f)
  <2>1. CASE \E f \in Calls : tx'[f] = o /\ kind'[f] = "commit" /\ Answered(f, "ok")'
    <3>1. PICK f \in Calls : tx'[f] = o /\ kind'[f] = "commit" /\ Answered(f, "ok")'
      BY <2>1
    <3>2. ~Answered(f, "ok")
      <4>1. Answered(f, "ok") => kind[f] = "commit" /\ tx[f] = o
        BY <1>3, <3>1
      <4> QED
        BY <1>6, <4>1 DEF Committed, Control
    <3> QED
      BY <1>2, <3>1, <3>2
  <2>2. CASE kind'[o] \in {"auto", "many"} /\ Answered(o, "ok")'
    <3>1. ~Answered(o, "ok")
      <4>1. Answered(o, "ok") => kind[o] \in {"auto", "many"}
        BY <1>3, <2>2
      <4> QED
        BY <1>6, <4>1 DEF Committed
    <3>2. kind'[o] = kind[o] /\ \E c \in Conns : GivesUp(o, c) /\ Good(o)
      BY <1>2, <2>2, <3>1
    <3>3. tx[o] = o
      BY <1>0, <2>2, <3>2, Basics DEF CallShape, Pooled
    <3> QED
      BY <3>2, <3>3
  <2> QED
    BY <1>6, <2>1, <2>2 DEF Committed, Control
<1>7. ASSUME RolledBack(o)', ~RolledBack(o)
      PROVE  \E f \in Calls, c \in Conns : GivesUp(f, c) /\ tx[f] = o /\ Good(f) /\ kind[f] = "rollback"
  <2>1. PICK f \in Calls : tx'[f] = o /\ kind'[f] = "rollback" /\ Answered(f, "ok")'
    BY <1>7 DEF RolledBack, Control
  <2>2. ~Answered(f, "ok")
    <3>1. Answered(f, "ok") => kind[f] = "rollback" /\ tx[f] = o
      BY <1>3, <2>1
    <3> QED
      BY <1>7, <3>1 DEF RolledBack, Control
  <2> QED
    BY <1>2, <2>1, <2>2
<1> QED
  BY <1>4, <1>5, <1>6, <1>7

\* The same of the next state.
LEMMA ToldIsNext ==
  DataInv' => \A o \in Calls :
    /\ ~(Committed(o)' /\ RolledBack(o)')
    /\ Committed(o)' => Told(o)' = "committed"
    /\ RolledBack(o)' => Told(o)' = "rolledback"
    /\ ~Committed(o)' /\ ~RolledBack(o)' => Told(o)' = "nothing"
<1>1. DataInv => \A o \in Calls :
        /\ ~(Committed(o) /\ RolledBack(o))
        /\ Committed(o) => Told(o) = "committed"
        /\ RolledBack(o) => Told(o) = "rolledback"
        /\ ~Committed(o) /\ ~RolledBack(o) => Told(o) = "nothing"
  BY ToldIs
<1>2. (DataInv => \A o \in Calls :
         /\ ~(Committed(o) /\ RolledBack(o))
         /\ Committed(o) => Told(o) = "committed"
         /\ RolledBack(o) => Told(o) = "rolledback"
         /\ ~Committed(o) /\ ~RolledBack(o) => Told(o) = "nothing")'
  BY <1>1, PTL
<1> QED
  BY <1>2

\* A caller that learns the end of its transaction: Tell of AtomicTx.
LEMMA TellStep ==
  ASSUME DataInv, DataInv', Step, NEW o \in Calls, Told(o)' # Told(o)
  PROVE  /\ Told(o) = "nothing" /\ Told(o)' \in {"committed", "rolledback"}
         /\ Told(o)' = "rolledback" => Durable(o) = {}
         /\ \A p \in Calls \ {o} : Told(p)' = Told(p)
         /\ UNCHANGED <<durable, ended>>
<1> USE NoSuchCall
<1>1. \A p \in Calls :
        /\ ~(Committed(p) /\ RolledBack(p))
        /\ Committed(p) => Told(p) = "committed"
        /\ RolledBack(p) => Told(p) = "rolledback"
        /\ ~Committed(p) /\ ~RolledBack(p) => Told(p) = "nothing"
  BY ToldIs
<1>2. \A p \in Calls :
        /\ ~(Committed(p)' /\ RolledBack(p)')
        /\ Committed(p)' => Told(p)' = "committed"
        /\ RolledBack(p)' => Told(p)' = "rolledback"
        /\ ~Committed(p)' /\ ~RolledBack(p)' => Told(p)' = "nothing"
  BY ToldIsNext
<1>3. ASSUME NEW p \in Calls, Told(p)' # Told(p)
      PROVE  /\ \E f \in Calls, c \in Conns : GivesUp(f, c) /\ tx[f] = p /\ Good(f)
             /\ Told(p)' \in {"committed", "rolledback"}
             /\ Told(p)' = "rolledback" =>
                  \E f \in Calls, c \in Conns : GivesUp(f, c) /\ tx[f] = p /\ Good(f) /\ kind[f] = "rollback"
  <2>1. /\ Committed(p) => Committed(p)'
        /\ RolledBack(p) => RolledBack(p)'
        /\ Committed(p)' /\ ~Committed(p) =>
             \E f \in Calls, c \in Conns : GivesUp(f, c) /\ tx[f] = p /\ Good(f)
        /\ RolledBack(p)' /\ ~RolledBack(p) =>
             \E f \in Calls, c \in Conns : GivesUp(f, c) /\ tx[f] = p /\ Good(f) /\ kind[f] = "rollback"
    BY ToldStep
  <2>2. CASE Committed(p)'
    <3>1. ~Committed(p) /\ Told(p)' = "committed"
      BY <1>1, <1>2, <1>3, <2>2
    <3> QED
      BY <2>1, <2>2, <3>1
  <2>3. CASE RolledBack(p)'
    <3>1. ~RolledBack(p) /\ Told(p)' = "rolledback"
      BY <1>1, <1>2, <1>3, <2>3
    <3>2. PICK f \in Calls, c \in Conns : GivesUp(f, c) /\ tx[f] = p /\ Good(f) /\ kind[f] = "rollback"
      BY <2>1, <2>3, <3>1
    <3> QED
      BY <3>1, <3>2
  <2>4. CASE ~Committed(p)' /\ ~RolledBack(p)'
    BY <1>1, <1>2, <1>3, <2>1, <2>4
  <2> QED
    BY <2>2, <2>3, <2>4
<1>4. PICK f \in Calls, c \in Conns : GivesUp(f, c) /\ tx[f] = o /\ Good(f)
  BY <1>3
<1>5. hold[c] = o /\ UNCHANGED <<durable, ended>>
  BY <1>4 DEF GivesUp, Quiet, storeVars
<1>6. Told(o) = "nothing"
  <2>1. ~Over(o)
    BY <1>5 DEF Over, Site
  <2> QED
    BY <1>1, <2>1, ToldNowhere
<1>7. ASSUME Told(o)' = "rolledback" PROVE Durable(o) = {}
  <2>1. PICK g \in Calls, d \in Conns : GivesUp(g, d) /\ tx[g] = o /\ Good(g) /\ kind[g] = "rollback"
    BY <1>3, <1>7
  <2>2. Done(g, "rollback")
    BY <2>1 DEF Good, Done
  <2> QED
    BY <2>1, <2>2 DEF DataInv, WriteInv, Promised
<1>8. ASSUME NEW p \in Calls \ {o}, Told(p)' # Told(p) PROVE FALSE
  <2>1. PICK g \in Calls, d \in Conns : GivesUp(g, d) /\ tx[g] = p
    BY <1>3, <1>8
  <2>2. g = f
    BY <1>4, <2>1, AwaitedPlaces DEF GivesUp, Quiet
  <2> QED
    BY <1>4, <2>1, <2>2
<1> QED
  BY <1>3, <1>5, <1>6, <1>7, <1>8

LEMMA AtomicInit == Init => Abstract!Init
<1> SUFFICES ASSUME Init PROVE Abstract!Init
  OBVIOUS
<1>1. DataInv
  BY DataInit
<1>2. durable = {} /\ ended = {} /\ \A f \in Calls : at[f] = "new"
  BY DEF Init
<1>3. \A o \in Calls : Told(o) = "nothing"
  <2>1. \A o \in Calls : ~Committed(o) /\ ~RolledBack(o)
    BY <1>2 DEF Committed, RolledBack, Control, Answered
  <2> QED
    BY <1>1, <2>1, ToldIs
<1> QED
  BY <1>2, <1>3 DEF Abstract!Init

\* Every step is a step of AtomicTx, or changes nothing of it.
LEMMA AtomicStep ==
  ASSUME DataInv, DataInv', Step
  PROVE  Abstract!Next \/ UNCHANGED Abstract!vars
<1> DEFINE over == ended \cup {o \in Calls : Told(o) # "nothing"}
           told == [o \in Calls |-> Told(o)]
<1>1. CASE \E o \in Calls : Told(o)' # Told(o)
  <2>1. PICK o \in Calls : Told(o)' # Told(o)
    BY <1>1
  <2>2. /\ Told(o) = "nothing" /\ Told(o)' \in {"committed", "rolledback"}
        /\ Told(o)' = "rolledback" => Durable(o) = {}
        /\ \A p \in Calls \ {o} : Told(p)' = Told(p)
        /\ UNCHANGED <<durable, ended>>
    BY <2>1, TellStep
  <2>3. told' = [told EXCEPT ![o] = Told(o)']
    BY <2>2
  <2>4. over' = over \cup {o}
    BY <2>2
  <2>5. Abstract!Tell(o, Told(o)')
    BY <2>2, <2>3, <2>4 DEF Abstract!Tell, Abstract!WritesOf, Durable
  <2> QED
    BY <2>2, <2>5 DEF Abstract!Next
<1>2. CASE \A o \in Calls : Told(o)' = Told(o)
  <2>1. told' = told
    BY <1>2
  <2>2. CASE durable' = durable /\ ended' = ended
    <3>1. over' = over
      BY <1>2, <2>2
    <3> QED
      BY <2>1, <2>2, <3>1 DEF Abstract!vars
  <2>3. CASE \E h \in Calls, c \in Conns :
               /\ h \notin ended /\ Site(c, h) /\ ended' = ended \cup {h}
               /\ durable \subseteq durable' /\ \A w \in durable' \ durable : w.of = h
    <3>1. PICK h \in Calls, c \in Conns :
               /\ h \notin ended /\ Site(c, h) /\ ended' = ended \cup {h}
               /\ durable \subseteq durable' /\ \A w \in durable' \ durable : w.of = h
      BY <2>3
    <3>2. Told(h) = "nothing"
      <4>1. ~Over(h)
        BY <3>1 DEF Over
      <4> QED
        BY <4>1, ToldNowhere, ToldIs
    <3>3. over' = over \cup {h} /\ h \notin over
      BY <1>2, <3>1, <3>2
    <3>4. Abstract!Commit(h)
      BY <2>1, <3>1, <3>3 DEF Abstract!Commit
    <3> QED
      BY <3>4 DEF Abstract!Next
  <2> QED
    BY <2>2, <2>3, OutcomeStep
<1> QED
  BY <1>1, <1>2

\* The engine implements AtomicTx: a transaction has its effects once and at once, and after
\* its caller was told "committed" or "rolled back" nothing of it changes any more.
THEOREM EffectsAreAtomic ==
  ASSUME InOrder
  PROVE  Spec => Atomicity
<1>1. Init => Abstract!Init
  BY AtomicInit
<1>2. DataInv /\ DataInv' /\ [Next]_vars => [Abstract!Next]_(Abstract!vars)
  <2> SUFFICES ASSUME DataInv, DataInv', [Next]_vars PROVE Abstract!Next \/ UNCHANGED Abstract!vars
    BY DEF Abstract!vars
  <2>1. CASE Next
    <3>1. Step
      BY <2>1, StepShape DEF DataInv, SessionInv
    <3> QED
      BY <3>1, AtomicStep
  <2>2. CASE UNCHANGED vars
    <3>1. durable' = durable /\ ended' = ended /\ \A o \in Calls : Told(o)' = Told(o)
      BY <2>2 DEF vars, callVars, storeVars, Told, Control, Answered
    <3> QED
      BY <3>1 DEF Abstract!vars
  <2> QED
    BY <2>1, <2>2
<1> QED
  BY <1>1, <1>2, DataInvariance, PTL DEF Spec, Atomicity, Abstract!Spec
=============================================================================
