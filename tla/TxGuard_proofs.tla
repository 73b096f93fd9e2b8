--------------------------- MODULE TxGuard_proofs ---------------------------
(***************************************************************************)
(* Proofs about TxGuard, for any sets of calls and connections: every      *)
(* variable keeps its type, and IInv is inductive for every backend whose  *)
(* connections serve their requests in order.                              *)
(*                                                                         *)
(* Most steps do one of three things to the connections: nothing, send one *)
(* more request, or give one connection up.  There is a lemma for each.    *)
(***************************************************************************)
EXTENDS TxGuard, SequenceTheorems, TLAPS

-----------------------------------------------------------------------------
(* Types. *)

\* Taking request i out of a wire leaves the others in order.
LEMMA RemoveAt ==
  ASSUME NEW S, NEW s \in Seq(S), NEW i \in DOMAIN s
  PROVE  LET t == SubSeq(s, 1, i - 1) \o SubSeq(s, i + 1, Len(s)) IN
         /\ t \in Seq(S)
         /\ Len(t) = Len(s) - 1
         /\ \A j \in 1 .. Len(t) : t[j] = IF j < i THEN s[j] ELSE s[j + 1]
<1> DEFINE a == SubSeq(s, 1, i - 1)
           b == SubSeq(s, i + 1, Len(s))
<1>1. i \in 1 .. Len(s) /\ Len(s) \in Nat
  OBVIOUS
<1>2. a \in Seq(S) /\ Len(a) = i - 1 /\ \A j \in 1 .. i - 1 : a[j] = s[j]
  BY <1>1
<1>3. b \in Seq(S) /\ Len(b) = Len(s) - i /\ \A j \in 1 .. Len(s) - i : b[j] = s[i + j]
  BY <1>1
<1> HIDE DEF a, b
<1>4. /\ a \o b \in Seq(S)
      /\ Len(a \o b) = Len(a) + Len(b)
      /\ \A j \in 1 .. Len(a) + Len(b) :
           (a \o b)[j] = IF j <= Len(a) THEN a[j] ELSE b[j - Len(a)]
  BY <1>2, <1>3, ConcatProperties
<1>5. Len(a \o b) = Len(s) - 1
  BY <1>1, <1>2, <1>3, <1>4
<1>6. ASSUME NEW j \in 1 .. Len(a \o b)
      PROVE  (a \o b)[j] = IF j < i THEN s[j] ELSE s[j + 1]
  <2>1. CASE j < i
    BY <2>1, <1>1, <1>2, <1>3, <1>4, <1>5
  <2>2. CASE j >= i
    <3>1. j - (i - 1) \in 1 .. Len(s) - i
      BY <2>2, <1>1, <1>5
    <3>2. (a \o b)[j] = b[j - (i - 1)]
      BY <2>2, <1>1, <1>2, <1>3, <1>4, <1>5
    <3>3. i + (j - (i - 1)) = j + 1
      BY <1>1, <1>5
    <3>4. b[j - (i - 1)] = s[i + (j - (i - 1))]
      BY <3>1, <1>3, Zenon
    <3>5. ~(j < i)
      BY <2>2, <1>1, <1>5
    <3>6. (a \o b)[j] = s[j + 1]
      BY <3>2, <3>3, <3>4, Zenon
    <3> QED
      BY <3>5, <3>6, Zenon
  <2> QED
    BY <2>1, <2>2, <1>1, <1>5
<1> QED
  BY <1>4, <1>5, <1>6, Zenon DEF a, b

\* Adding a request at the end of a wire.
LEMMA AppendLast ==
  ASSUME NEW S, NEW s \in Seq(S), NEW e \in S
  PROVE  /\ Append(s, e) \in Seq(S)
         /\ Len(Append(s, e)) = Len(s) + 1
         /\ \A j \in 1 .. Len(s) : Append(s, e)[j] = s[j]
         /\ Append(s, e)[Len(s) + 1] = e
BY AppendProperties

\* Sending keeps the types of what it changes.
LEMMA SendType ==
  ASSUME TypeOK, NEW f \in Calls, NEW c \in Conns, NEW op \in Awaited,
         NEW n \in 0 .. BatchRows, Send(f, c, op, n)
  PROVE  /\ at' \in [Calls -> Places] /\ row' \in [Calls -> 0 .. BatchRows]
         /\ ans' \in [Calls -> {"none", "ok", "err"}] /\ wire' \in [Conns -> Seq(Request)]
<1>1. [op |-> op, f |-> f, n |-> n] \in Request
  BY DEF Request
<1>2. wire[c] \in Seq(Request)
  BY DEF TypeOK
<1>3. Append(wire[c], [op |-> op, f |-> f, n |-> n]) \in Seq(Request)
  BY <1>1, <1>2, AppendLast
<1>4. wire' \in [Conns -> Seq(Request)]
  BY <1>3 DEF Send, TypeOK
<1> QED
  BY <1>4 DEF Send, TypeOK, Places

\* Giving a transaction's connection up keeps the types of what it changes.
LEMMA DropTxType ==
  ASSUME TypeOK, NEW h \in Calls, NEW c \in Conns, NEW st \in {"Active", "Finished", "Broken"},
         DropTx(h, c, st)
  PROVE  /\ hold' \in [Conns -> Calls \cup {"pool", "closed", "guard"}]
         /\ wire' \in [Conns -> Seq(Request)]
<1>1. BatchRows \in Nat
  BY BatchAssumption
<1>2. [op |-> "GUARD", f |-> h, n |-> 0] \in Request
  BY <1>1 DEF Request
<1>3. wire[c] \in Seq(Request)
  BY DEF TypeOK
<1>4. Append(wire[c], [op |-> "GUARD", f |-> h, n |-> 0]) \in Seq(Request)
  BY <1>2, <1>3, AppendLast
<1> QED
  BY <1>4 DEF DropTx, Return, ReturnTo, TypeOK

\* Serving a request keeps the types of the wires and the answers.
LEMMA ServeType ==
  ASSUME TypeOK, NEW c \in Conns, NEW i \in DOMAIN wire[c], NEW r \in {"ok", "err"},
         Serve(c, i, r)
  PROVE  /\ wire' \in [Conns -> Seq(Request)]
         /\ ans' \in [Calls -> {"none", "ok", "err"}]
         /\ wire[c][i] \in Request
<1>1. wire[c] \in Seq(Request)
  BY DEF TypeOK
<1>2. SubSeq(wire[c], 1, i - 1) \o SubSeq(wire[c], i + 1, Len(wire[c])) \in Seq(Request)
  BY <1>1, RemoveAt
<1>3. wire[c][i] \in Request
  BY <1>1
<1> QED
  BY <1>2, <1>3 DEF TypeOK, Serve

\* What a request does to the database keeps the types.
LEMMA RunType ==
  ASSUME TypeOK, NEW c \in Conns, NEW q \in Request, NEW r \in {"ok", "err"}, Run(c, q, r)
  PROVE  /\ session' \in [Conns -> Calls \cup {"none"}]
         /\ work' \in [Conns -> SUBSET Writes]
         /\ failed' \in [Conns -> BOOLEAN]
         /\ hold' \in [Conns -> Calls \cup {"pool", "closed", "guard"}]
         /\ durable' \subseteq Writes
         /\ ended' \subseteq Calls
<1> USE DEF TypeOK, EndSession
<1>1. q.f \in Calls /\ tx[q.f] \in Calls
  BY DEF Request
<1>2. CASE RunBegin(c, q, r)
  BY <1>1, <1>2 DEF RunBegin, storeVars
<1>3. CASE RunWrite(c, q, r)
  <2>1. [of |-> tx[q.f], by |-> q.f, n |-> q.n] \in Writes
    BY <1>1 DEF Request, Writes
  <2>2. CASE session[c] # "none" \/ ImplicitBegin
    <3>1. work' = [work EXCEPT ![c] = @ \cup {[of |-> tx[q.f], by |-> q.f, n |-> q.n]}]
          /\ session' = [session EXCEPT ![c] = IF @ = "none" THEN tx[q.f] ELSE @]
          /\ UNCHANGED <<hold, failed, durable, ended>>
      BY <1>3, <2>2 DEF RunWrite, storeVars
    <3> QED
      BY <1>1, <2>1, <3>1
  <2>3. CASE ~(session[c] # "none" \/ ImplicitBegin)
    BY <1>1, <1>3, <2>1, <2>3 DEF RunWrite, storeVars
  <2> QED
    BY <2>2, <2>3
<1>4. CASE RunWriteFails(c, q, r)
  BY <1>4 DEF RunWriteFails, storeVars
<1>5. CASE RunCommit(c, q, r)
  BY <1>5 DEF RunCommit
<1>6. CASE RunRollback(c, q, r)
  BY <1>6 DEF RunRollback
<1>7. CASE RunGuard(c, q, r)
  BY <1>7 DEF RunGuard, ReturnTo
<1> QED
  BY <1>2, <1>3, <1>4, <1>5, <1>6, <1>7 DEF Run

\* Ending a session keeps the types of what it changes.
LEMMA EndSessionType ==
  ASSUME TypeOK, NEW c \in Conns, EndSession(c)
  PROVE  /\ session' \in [Conns -> Calls \cup {"none"}]
         /\ work' \in [Conns -> SUBSET Writes]
         /\ failed' \in [Conns -> BOOLEAN]
         /\ ended' \subseteq Calls
BY DEF EndSession, TypeOK

\* The initial states have the types.
LEMMA TypeInit == Init => TypeOK
<1>1. 0 \in 0 .. BatchRows
  BY BatchAssumption
<1>2. <<>> \in Seq(Request)
  OBVIOUS
<1>3. "none" \in Kinds /\ "new" \in Places
  BY DEF Kinds, Places
<1> SUFFICES ASSUME Init PROVE TypeOK
  OBVIOUS
<1> USE DEF Init
<1>4. /\ kind \in [Calls -> Kinds] /\ tx \in [Calls -> Calls]
      /\ at \in [Calls -> Places] /\ ans \in [Calls -> {"none", "ok", "err"}]
      /\ row \in [Calls -> 0 .. BatchRows]
  BY <1>1, <1>3
<1>5. /\ hold \in [Conns -> Calls \cup {"pool", "closed", "guard"}]
      /\ wire \in [Conns -> Seq(Request)]
      /\ session \in [Conns -> Calls \cup {"none"}]
  BY <1>2
<1>6. /\ work \in [Conns -> SUBSET Writes] /\ failed \in [Conns -> BOOLEAN]
      /\ alive \in [Conns -> BOOLEAN] /\ closed \in BOOLEAN
  BY Zenon
<1>7. durable \subseteq Writes /\ ended \subseteq Calls
  OBVIOUS
<1> QED
  BY <1>4, <1>5, <1>6, <1>7 DEF TypeOK

\* Every step keeps the types.
LEMMA TypeStep == TypeOK /\ [Next]_vars => TypeOK'
<1> SUFFICES ASSUME TypeOK, Next PROVE TypeOK'
  <2>1. CASE UNCHANGED vars
    BY <2>1 DEF TypeOK, vars, callVars, connVars, storeVars
  <2> QED
    BY <2>1
<1> USE DEF callVars, connVars, storeVars
<1>1. ASSUME NEW f \in Calls, NEW x \in Pooled, AskPooled(f, x) PROVE TypeOK'
  BY <1>1 DEF AskPooled, TypeOK, Pooled, Kinds, Places
<1>2. ASSUME NEW f \in Calls, NEW x \in {"stmt", "commit", "rollback"}, NEW h \in Calls,
             AskTx(f, x, h)
      PROVE  TypeOK'
  BY <1>2 DEF AskTx, TypeOK, Kinds, Places
<1>3. ASSUME NEW f \in Calls, NEW c \in Conns, Checkout(f, c) PROVE TypeOK'
  <2>1. PICK op \in {"BEGIN", "WRITE", "handle"} :
          /\ at' = [at EXCEPT ![f] = op]
          /\ row' = [row EXCEPT ![f] = IF op = "WRITE" THEN 1 ELSE 0]
          /\ wire' = IF op = "handle" THEN wire
                     ELSE [wire EXCEPT ![c] = Append(@, [op |-> op, f |-> f, n |-> row'[f]])]
    BY <1>3 DEF Checkout, Opening, TypeOK
  <2>2. row' \in [Calls -> 0 .. BatchRows] /\ at' \in [Calls -> Places]
    BY <2>1, BatchAssumption DEF TypeOK, Places, Awaited
  <2>3. wire' \in [Conns -> Seq(Request)]
    <3>1. CASE op = "handle"
      BY <2>1, <3>1 DEF TypeOK
    <3>2. CASE op # "handle"
      <4>1. [op |-> op, f |-> f, n |-> row'[f]] \in Request
        BY <2>2, <3>2 DEF Request, Awaited
      <4>2. Append(wire[c], [op |-> op, f |-> f, n |-> row'[f]]) \in Seq(Request)
        BY <4>1, AppendLast DEF TypeOK
      <4> QED
        BY <2>1, <3>2, <4>2 DEF TypeOK
    <3> QED
      BY <3>1, <3>2
  <2>4. /\ session' \in [Conns -> Calls \cup {"none"}]
        /\ work' \in [Conns -> SUBSET Writes]
        /\ failed' \in [Conns -> BOOLEAN]
        /\ ended' \subseteq Calls
    BY <1>3, EndSessionType DEF Checkout, TypeOK
  <2> QED
    BY <1>3, <2>2, <2>3, <2>4 DEF Checkout, TypeOK
<1>4. ASSUME NEW f \in Calls, GetFails(f) PROVE TypeOK'
  BY <1>4 DEF GetFails, Finish, TypeOK, Places
<1>5. ASSUME NEW f \in Calls, LockAcquired(f) PROVE TypeOK'
  <2>1. CASE HasInner(tx[f])
    <3>1. PICK c \in Conns, op \in Awaited, n \in {0, 1} : Send(f, c, op, n)
      BY <1>5, <2>1 DEF LockAcquired, Awaited
    <3>2. n \in 0 .. BatchRows
      BY BatchAssumption
    <3> QED
      BY <1>5, <3>1, <3>2, <2>1, SendType DEF LockAcquired, TypeOK
  <2>2. CASE ~HasInner(tx[f])
    BY <1>5, <2>2 DEF LockAcquired, Finish, TypeOK, Places
  <2> QED
    BY <2>1, <2>2
<1>6. ASSUME NEW c \in Conns, Exec(c) PROVE TypeOK'
  <2>1. PICK i \in DOMAIN wire[c], r \in {"ok", "err"} :
          Serve(c, i, r) /\ Run(c, wire[c][i], r)
    BY <1>6 DEF Exec
  <2> HIDE DEF storeVars
  <2>2. wire[c][i] \in Request /\ wire' \in [Conns -> Seq(Request)]
        /\ ans' \in [Calls -> {"none", "ok", "err"}]
    BY <2>1, ServeType
  <2>3. /\ session' \in [Conns -> Calls \cup {"none"}]
        /\ work' \in [Conns -> SUBSET Writes]
        /\ failed' \in [Conns -> BOOLEAN]
        /\ hold' \in [Conns -> Calls \cup {"pool", "closed", "guard"}]
        /\ durable' \subseteq Writes
        /\ ended' \subseteq Calls
    BY <2>1, <2>2, RunType
  <2> QED
    BY <1>6, <2>2, <2>3 DEF Exec, TypeOK
<1>7. ASSUME NEW c \in Conns, Lose(c) PROVE TypeOK'
  BY <1>7, EndSessionType DEF Lose, ReturnTo, TypeOK
<1>8. ASSUME NEW c \in Conns, Hangup(c) PROVE TypeOK'
  BY <1>8, EndSessionType DEF Hangup, TypeOK
<1>9. ASSUME NEW f \in Calls, NEW c \in Conns, Reply(f, c) PROVE TypeOK'
  <2>1. at' \in [Calls -> Places] /\ row' \in [Calls -> 0 .. BatchRows]
        /\ ans' \in [Calls -> {"none", "ok", "err"}]
        /\ hold' \in [Conns -> Calls \cup {"pool", "closed", "guard"}]
        /\ wire' \in [Conns -> Seq(Request)]
    <3>1. CASE BeginReply(f, c)
      <4>1. DropTx(f, c, "Active") =>
              /\ hold' \in [Conns -> Calls \cup {"pool", "closed", "guard"}]
              /\ wire' \in [Conns -> Seq(Request)]
        BY DropTxType
      <4> QED
        BY <3>1, <4>1 DEF BeginReply, Finish, TypeOK, Places
    <3>2. CASE ControlReply(f, c)
      BY <3>2, DropTxType DEF ControlReply, Finish, TxStateOf, TypeOK, Places
    <3>3. CASE AutoReply(f, c)
      <4>1. row[f] \in 0 .. BatchRows /\ "COMMIT" \in Awaited
        BY DEF TypeOK, Awaited
      <4> QED
        BY <3>3, <4>1, SendType DEF AutoReply, Return, ReturnTo, Finish, TypeOK, Places
    <3>4. CASE ManyReply(f, c)
      <4>1. /\ row[f] \in 0 .. BatchRows /\ {"WRITE", "COMMIT", "ROLLBACK"} \subseteq Awaited
            /\ row[f] < BatchRows => row[f] + 1 \in 0 .. BatchRows
        BY BatchAssumption DEF TypeOK, Awaited
      <4>2. CASE (at[f] = "BEGIN" /\ ans[f] = "err") \/ at[f] \in {"COMMIT", "ROLLBACK"}
        <5>1. CASE at[f] = "COMMIT" /\ Backend = "sqlite" /\ ans[f] = "err"
          BY <3>4, <4>1, <5>1, SendType DEF ManyReply, RowFails, TypeOK
        <5>2. CASE ~(at[f] = "COMMIT" /\ Backend = "sqlite" /\ ans[f] = "err")
          <6>1. PICK st \in {"Active", "Finished", "Broken"}, r \in {"ok", "err"} :
                  Finish(f, r) /\ BatchOver(f, c, st)
            BY <3>4, <4>2, <5>2 DEF ManyReply, RowFails, TxStateOf, TypeOK
          <6>2. hold' \in [Conns -> Calls \cup {"pool", "closed", "guard"}] /\ wire' \in [Conns -> Seq(Request)]
            BY <6>1, DropTxType DEF BatchOver, Return, ReturnTo, TypeOK
          <6> QED
            BY <6>1, <6>2 DEF Finish, TypeOK, Places
        <5> QED
          BY <5>1, <5>2
      <4>3. CASE at[f] \in {"BEGIN", "WRITE"} /\ ans[f] = "ok"
        BY <3>4, <4>1, <4>3, SendType DEF ManyReply, RowFails, TypeOK
      <4>4. CASE at[f] = "WRITE" /\ ans[f] = "err"
        BY <3>4, <4>1, <4>4, SendType DEF ManyReply, RowFails, TypeOK
      <4> QED
        BY <3>4, <4>2, <4>3, <4>4 DEF ManyReply, RowFails
    <3>5. CASE ScriptReply(f, c)
      <4>1. /\ row[f] \in 0 .. BatchRows /\ {"WRITE", "COMMIT", "ROLLBACK"} \subseteq Awaited
            /\ 1 \in 0 .. BatchRows
        BY BatchAssumption DEF TypeOK, Awaited
      <4>2. CASE \E op \in {"WRITE", "COMMIT", "ROLLBACK"}, n \in {1, row[f]} :
                   Send(f, c, op, n) /\ UNCHANGED hold
        BY <4>1, <4>2, SendType DEF TypeOK
      <4>3. CASE Finish(f, ans[f]) /\ Return(c)
        BY <4>3 DEF Return, ReturnTo, Finish, TypeOK, Places
      <4> QED
        BY <3>5, <4>2, <4>3 DEF ScriptReply
    <3> QED
      BY <1>9, <3>1, <3>2, <3>3, <3>4, <3>5 DEF Reply
  <2>2. UNCHANGED <<kind, tx, session, work, failed, alive, closed, storeVars>>
    BY <1>9 DEF Reply, BeginReply, ControlReply, AutoReply, ManyReply, ScriptReply
  <2> QED
    BY <2>1, <2>2 DEF TypeOK
<1>10. ASSUME NEW f \in Calls, StmtReply(f) PROVE TypeOK'
  BY <1>10 DEF StmtReply, Finish, TypeOK, Places
<1>11. ASSUME NEW f \in Calls, Cancel(f) PROVE TypeOK'
  <2>1. /\ at' \in [Calls -> Places] /\ ans' \in [Calls -> {"none", "ok", "err"}]
        /\ UNCHANGED <<kind, tx, row, session, work, failed, alive, closed, storeVars>>
    BY <1>11 DEF Cancel, TypeOK, Places
  <2>2. /\ hold' \in [Conns -> Calls \cup {"pool", "closed", "guard"}]
        /\ wire' \in [Conns -> Seq(Request)]
    <3>1. CASE UNCHANGED <<hold, wire>>
      BY <3>1 DEF TypeOK
    <3>2. CASE \E c \in Conns : Return(c)
      BY <3>2 DEF Return, ReturnTo, TypeOK
    <3>3. CASE \E c \in Conns : DropTx(tx[f], c, "Active")
      BY <3>3, DropTxType DEF TypeOK
    <3> QED
      BY <1>11, <3>1, <3>2, <3>3 DEF Cancel
  <2> QED
    BY <2>1, <2>2 DEF TypeOK
<1>12. ASSUME NEW h \in Calls, DropHandle(h) PROVE TypeOK'
  BY <1>12 DEF DropHandle, TypeOK, Places
<1>13. ASSUME NEW h \in Calls, DropTask(h) PROVE TypeOK'
  <2>1. CASE HasInner(h)
    BY <1>13, <2>1, SendType, BatchAssumption DEF DropTask, TypeOK, Awaited
  <2>2. CASE ~HasInner(h)
    BY <1>13, <2>2 DEF DropTask, Finish, TypeOK, Places
  <2> QED
    BY <2>1, <2>2
<1>14. ASSUME Close PROVE TypeOK'
  BY <1>14 DEF Close, TypeOK
<1> QED
  BY <1>1, <1>2, <1>3, <1>4, <1>5, <1>6, <1>7, <1>8, <1>9, <1>10, <1>11, <1>12, <1>13, <1>14
  DEF Next, Ask, Progress

\* In every reachable state of every instance the variables have their types: no
\* step of the engine leaves a call or a connection in a state without a meaning.
THEOREM TypeCorrect == Spec => []TypeOK
BY TypeInit, TypeStep, PTL DEF Spec

-----------------------------------------------------------------------------
(* Who has a connection, and what it is clean of. *)

\* The parts of IInv that are about connections.
ConnInv ==
  /\ Ownership /\ DeadIsEmpty /\ WireShape /\ ControlLast
  /\ GuardLast /\ AutoClean /\ PoolClean /\ OwnRequests /\ OwnSession

\* What the definitions of the five backends imply of each other.
LEMMA BackendFacts ==
  /\ ClosesBroken => Guarded /\ ~ImplicitBegin
  /\ ~ClosesBroken => RollsBackOnCheckout
  /\ ImplicitBegin => ~Guarded
BY BackendAssumption DEF ClosesBroken, Guarded, ImplicitBegin, RollsBackOnCheckout, Backends

\* Only a live call past its lock is awaiting a request.
LEMMA AwaitedPlaces ==
  /\ Awaited \cap {"new", "get", "lock", "handle", "droplock", "done", "cancelled"} = {}
  /\ "GUARD" \notin Places
BY DEF Awaited, Places

\* No call is called like one of the other owners of a connection.
LEMMA NoSuchCall == "none" \notin Calls /\ "pool" \notin Calls /\ "closed" \notin Calls /\ "guard" \notin Calls
BY CallsAssumption

\* What is on a wire is a request of some call.
LEMMA WireRequest ==
  ASSUME TypeOK, NEW c \in Conns
  PROVE  /\ wire[c] \in Seq(Request) /\ Len(wire[c]) \in Nat
         /\ DOMAIN wire[c] = 1 .. Len(wire[c])
         /\ \A i \in DOMAIN wire[c] :
              /\ wire[c][i] \in Request /\ wire[c][i].f \in Calls
              /\ wire[c][i].op \in Awaited \cup {"GUARD"}
<1>1. wire[c] \in Seq(Request)
  BY DEF TypeOK
<1>2. /\ Len(wire[c]) \in Nat /\ DOMAIN wire[c] = 1 .. Len(wire[c])
      /\ \A i \in DOMAIN wire[c] : wire[c][i] \in Request
  BY <1>1
<1>3. \A q \in Request : q.f \in Calls /\ q.op \in Awaited \cup {"GUARD"}
  BY DEF Request
<1> QED
  BY <1>1, <1>2, <1>3

\* A call that does not await an answer has no request out, except a guard's.
LEMMA NoneOut ==
  ASSUME IInv, NEW f \in Calls,
         at[f] \in {"lock", "handle", "droplock"} \/ (at[f] \in Awaited /\ ans[f] # "none"),
         NEW c \in Conns, NEW i \in DOMAIN wire[c], wire[c][i].f = f
  PROVE  wire[c][i].op = "GUARD"
BY AwaitedPlaces, WireRequest DEF IInv, WireShape, Awaited

\* A call changes its own place only, between two requests.
LEMMA LocalStep ==
  ASSUME IInv, TypeOK', CallShape', NEW f \in Calls,
         UNCHANGED connVars,
         \A g \in Calls \ {f} :
           kind'[g] = kind[g] /\ tx'[g] = tx[g] /\ at'[g] = at[g] /\ ans'[g] = ans[g],
         \/ at[f] = "new" /\ at'[f] \in {"get", "lock"}
         \/ /\ kind'[f] = kind[f] /\ tx'[f] = tx[f]
            /\ at[f] = "BEGIN" /\ ans[f] # "none" /\ at'[f] = "handle"
         \/ /\ kind'[f] = kind[f] /\ tx'[f] = tx[f]
            /\ at[f] \in {"get", "lock", "handle", "droplock", "WRITE"}
            /\ at'[f] \in {"droplock", "done", "cancelled"}
            /\ at'[f] = "cancelled" => at[f] = "get" \/ kind[f] \notin Pooled
            /\ at'[f] = "droplock" => at[f] = "handle"
  PROVE  ConnInv'
<1> USE AwaitedPlaces, NoSuchCall
<1>1. UNCHANGED <<hold, wire, session, alive>>
  BY DEF connVars
<1>2. at[f] = "new" => \A c \in Conns : hold[c] # f /\ \A i \in DOMAIN wire[c] : wire[c][i].f # f
  BY DEF IInv, Ownership, CallShape, WireShape, Pooled
<1>3. Ownership'
  BY <1>1, <1>2 DEF IInv, Ownership, TypeOK
<1>4. DeadIsEmpty'
  BY <1>1 DEF IInv, DeadIsEmpty
<1>5. WireShape'
  <2> SUFFICES ASSUME NEW c \in Conns, NEW i \in DOMAIN wire[c], NEW q, q = wire[c][i]
               PROVE  /\ at'[q.f] \notin {"new", "get", "lock"}
                      /\ q.op # "GUARD" => at'[q.f] \in {q.op, "done", "cancelled"}
                      /\ at'[q.f] = q.op => i = Len(wire[c]) /\ ans'[q.f] = "none" /\ hold[c] = tx'[q.f]
                      /\ q.op = "BEGIN" =>
                           hold[c] \in {"guard", "closed"} \/ (hold[c] = q.f /\ at'[q.f] = "BEGIN")
                      /\ q.op = "GUARD" => i = Len(wire[c]) /\ hold[c] = "guard"
    BY <1>1 DEF WireShape
  <2>1. /\ at[q.f] \notin {"new", "get", "lock"}
        /\ q.op # "GUARD" => at[q.f] \in {q.op, "done", "cancelled"}
        /\ at[q.f] = q.op => i = Len(wire[c]) /\ ans[q.f] = "none" /\ hold[c] = tx[q.f]
        /\ q.op = "BEGIN" =>
             hold[c] \in {"guard", "closed"} \/ (hold[c] = q.f /\ at[q.f] = "BEGIN")
        /\ q.op = "GUARD" => i = Len(wire[c]) /\ hold[c] = "guard"
    BY DEF IInv, WireShape
  <2>2. q.f \in Calls /\ q.op \in Awaited \cup {"GUARD"}
    BY WireRequest DEF IInv
  <2>3. CASE q.f # f
    BY <2>1, <2>2, <2>3
  <2>4. CASE q.f = f
    <3>1. CASE at[f] = "BEGIN"
      <4>1. q.op = "GUARD"
        BY <3>1, <2>4, NoneOut DEF Awaited
      <4> QED
        BY <2>1, <2>4, <3>1, <4>1
    <3>2. CASE at[f] # "BEGIN"
      BY <2>1, <2>2, <2>4, <3>2 DEF Awaited
    <3> QED
      BY <3>1, <3>2
  <2> QED
    BY <2>3, <2>4
<1>6. ControlLast'
  BY <1>1 DEF IInv, ControlLast, Awaited
<1>7. GuardLast'
  BY <1>1 DEF IInv, GuardLast
<1>8. AutoClean'
  BY <1>1, <1>2 DEF IInv, AutoClean
<1>9. PoolClean'
  BY <1>1 DEF IInv, PoolClean
<1>10. OwnRequests'
  <2>1. \A c \in Conns : \A i \in DOMAIN wire[c] : wire[c][i].f \in Calls
    BY WireRequest DEF IInv
  <2> QED
    BY <1>1, <1>2, <2>1 DEF IInv, OwnRequests
<1>11. OwnSession'
  BY <1>1 DEF IInv, OwnSession
<1> QED
  BY <1>3, <1>4, <1>5, <1>6, <1>7, <1>8, <1>9, <1>10, <1>11 DEF ConnInv

\* A call sends one more request on the connection of its transaction, for which no
\* other call awaits anything.
LEMMA SendStep ==
  ASSUME IInv, TypeOK', CallShape', NEW f \in Calls, NEW c \in Conns,
         NEW op \in {"WRITE", "COMMIT", "ROLLBACK"}, NEW n \in 0 .. BatchRows,
         Send(f, c, op, n), hold[c] = tx[f],
         UNCHANGED <<kind, tx, hold, session, alive>>,
         at[f] \in {"lock", "droplock"} \/ (at[f] \in Awaited /\ ans[f] # "none"),
         \A g \in Calls \ {f} : tx[g] = tx[f] => at[g] \notin Awaited
  PROVE  ConnInv'
<1> USE AwaitedPlaces, NoSuchCall
<1> DEFINE e == [op |-> op, f |-> f, n |-> n]
<1>0. TypeOK
  BY DEF IInv
<1>a. e \in Request /\ e.f = f /\ e.op = op
  BY DEF Request, Awaited
<1>b. wire[c] \in Seq(Request) /\ Len(wire[c]) \in Nat /\ DOMAIN wire[c] = 1 .. Len(wire[c])
  BY <1>0, WireRequest
<1>1. /\ at' = [at EXCEPT ![f] = op]
      /\ \A g \in Calls \ {f} : at'[g] = at[g] /\ ans'[g] = ans[g]
      /\ at'[f] = op
      /\ \A d \in Conns \ {c} : wire'[d] = wire[d]
  BY <1>0 DEF Send, TypeOK
<1>2. CASE alive[c]
  <2>1. /\ ans'[f] = "none"
        /\ Len(wire'[c]) = Len(wire[c]) + 1 /\ DOMAIN wire'[c] = 1 .. Len(wire[c]) + 1
        /\ \A j \in 1 .. Len(wire[c]) : wire'[c][j] = wire[c][j]
        /\ wire'[c][Len(wire[c]) + 1] = e
    <3>1. wire'[c] = Append(wire[c], e) /\ ans'[f] = "none"
      BY <1>0, <1>2 DEF Send, TypeOK
    <3> HIDE DEF e
    <3> QED
      BY <3>1, <1>a, <1>b, AppendLast
  <2>2. \A d \in Conns : \A i \in DOMAIN wire[d] : wire[d][i].f = f => wire[d][i].op = "GUARD"
    BY NoneOut
  <2> HIDE DEF e
  <2>3. Ownership'
    BY <1>1 DEF IInv, Ownership, TypeOK
  <2>4. DeadIsEmpty'
    BY <1>1, <1>2 DEF IInv, DeadIsEmpty
  <2>5. WireShape'
    <3> SUFFICES ASSUME NEW d \in Conns, NEW i \in DOMAIN wire'[d], NEW q, q = wire'[d][i]
                 PROVE  /\ at'[q.f] \notin {"new", "get", "lock"}
                        /\ q.op # "GUARD" => at'[q.f] \in {q.op, "done", "cancelled"}
                        /\ at'[q.f] = q.op =>
                             i = Len(wire'[d]) /\ ans'[q.f] = "none" /\ hold[d] = tx[q.f]
                        /\ q.op = "BEGIN" =>
                             hold[d] \in {"guard", "closed"} \/ (hold[d] = q.f /\ at'[q.f] = "BEGIN")
                        /\ q.op = "GUARD" => i = Len(wire'[d]) /\ hold[d] = "guard"
      BY DEF WireShape
    <3>1. CASE d = c /\ i = Len(wire[c]) + 1
      BY <1>a, <1>1, <2>1, <3>1
    <3>2. CASE i \in DOMAIN wire[d] /\ q = wire[d][i]
      <4>1. /\ at[q.f] \notin {"new", "get", "lock"}
            /\ q.op # "GUARD" => at[q.f] \in {q.op, "done", "cancelled"}
            /\ at[q.f] = q.op => i = Len(wire[d]) /\ ans[q.f] = "none" /\ hold[d] = tx[q.f]
            /\ q.op = "BEGIN" =>
                 hold[d] \in {"guard", "closed"} \/ (hold[d] = q.f /\ at[q.f] = "BEGIN")
            /\ q.op = "GUARD" => i = Len(wire[d]) /\ hold[d] = "guard"
        BY <3>2 DEF IInv, WireShape
      <4>2. q.f \in Calls /\ q.op \in Awaited \cup {"GUARD"}
        BY <1>0, <3>2, WireRequest
      <4>3. CASE q.f = f
        <5>1. q.op = "GUARD" /\ d # c
          BY <1>0, <4>1, <4>3, <3>2, <2>2 DEF TypeOK
        <5> QED
          BY <4>1, <4>3, <5>1, <1>1
      <4>4. CASE q.f # f
        <5>1. at'[q.f] = at[q.f] /\ ans'[q.f] = ans[q.f]
          BY <1>1, <4>2, <4>4
        <5>2. CASE d # c
          BY <4>1, <5>1, <5>2, <1>1
        <5>3. CASE d = c
          <6>1. at[q.f] # q.op
            <7> SUFFICES ASSUME at[q.f] = q.op PROVE FALSE
              OBVIOUS
            <7>1. q.op \in Awaited /\ tx[q.f] = tx[f]
              BY <4>1, <4>2, <5>3, <1>0 DEF TypeOK
            <7> QED
              BY <7>1, <4>2, <4>4
          <6>2. hold[c] # "guard"
            BY <1>0 DEF TypeOK
          <6> QED
            BY <4>1, <5>1, <5>3, <6>1, <6>2
        <5> QED
          BY <5>2, <5>3
      <4> QED
        BY <4>3, <4>4
    <3> QED
      BY <3>1, <3>2, <1>1, <1>b, <2>1
  <2>6. ControlLast'
    <3> SUFFICES ASSUME NEW d \in Conns, NEW g \in Calls,
                        at'[g] \in {"COMMIT", "ROLLBACK"}, hold[d] = tx[g]
                 PROVE  IF ans'[g] = "none"
                          THEN /\ wire'[d] # <<>>
                               /\ wire'[d][Len(wire'[d])].f = g /\ wire'[d][Len(wire'[d])].op = at'[g]
                          ELSE /\ wire'[d] = <<>>
                               /\ at'[g] = "ROLLBACK" \/ ans'[g] = "ok" => session[d] = "none"
      BY DEF ControlLast
    <3>1. CASE g = f
      <4>1. d = c
        BY <3>1, <1>0 DEF IInv, Ownership, TypeOK
      <4>2. wire'[c] # <<>>
        BY <2>1, <1>b
      <4> QED
        BY <3>1, <4>1, <4>2, <2>1, <1>1, <1>a
    <3>2. CASE g # f
      <4>1. at[g] = at'[g] /\ ans[g] = ans'[g]
        BY <3>2, <1>1
      <4>2. d # c
        BY <3>2, <4>1 DEF Awaited
      <4> QED
        BY <4>1, <4>2, <1>1 DEF IInv, ControlLast
    <3> QED
      BY <3>1, <3>2
  <2>7. GuardLast'
    BY <1>0, <1>1 DEF IInv, GuardLast, TypeOK
  <2>8. AutoClean' /\ PoolClean'
    BY <1>0, <1>1 DEF IInv, AutoClean, PoolClean
  <2>9. ASSUME NEW d \in Conns, NEW i \in DOMAIN wire'[d]
        PROVE  \/ i \in DOMAIN wire[d] /\ wire'[d][i] = wire[d][i]
               \/ d = c /\ wire'[d][i] = e
    BY <1>b, <1>1, <2>1
  <2>10. OwnRequests'
    BY <1>a, <2>9 DEF IInv, OwnRequests
  <2>11. OwnSession'
    BY <1>a, <2>9 DEF IInv, OwnSession
  <2> QED
    BY <2>3, <2>4, <2>5, <2>6, <2>7, <2>8, <2>10, <2>11 DEF ConnInv
<1>3. CASE ~alive[c]
  <2>1. ans'[f] = "err" /\ wire' = wire /\ wire[c] = <<>> /\ session[c] = "none"
    BY <1>0, <1>3 DEF Send, TypeOK, IInv, DeadIsEmpty
  <2>2. \A d \in Conns : \A i \in DOMAIN wire[d] : wire[d][i].f = f => wire[d][i].op = "GUARD"
    BY NoneOut
  <2>3. Ownership'
    BY <1>1 DEF IInv, Ownership, TypeOK
  <2>4. DeadIsEmpty'
    BY <2>1 DEF IInv, DeadIsEmpty
  <2>5. WireShape'
    <3> SUFFICES ASSUME NEW d \in Conns, NEW i \in DOMAIN wire[d], NEW q, q = wire[d][i]
                 PROVE  /\ at'[q.f] \notin {"new", "get", "lock"}
                        /\ q.op # "GUARD" => at'[q.f] \in {q.op, "done", "cancelled"}
                        /\ at'[q.f] = q.op =>
                             i = Len(wire[d]) /\ ans'[q.f] = "none" /\ hold[d] = tx[q.f]
                        /\ q.op = "BEGIN" =>
                             hold[d] \in {"guard", "closed"} \/ (hold[d] = q.f /\ at'[q.f] = "BEGIN")
                        /\ q.op = "GUARD" => i = Len(wire[d]) /\ hold[d] = "guard"
      BY <2>1 DEF WireShape
    <3>1. /\ at[q.f] \notin {"new", "get", "lock"}
          /\ q.op # "GUARD" => at[q.f] \in {q.op, "done", "cancelled"}
          /\ at[q.f] = q.op => i = Len(wire[d]) /\ ans[q.f] = "none" /\ hold[d] = tx[q.f]
          /\ q.op = "BEGIN" =>
               hold[d] \in {"guard", "closed"} \/ (hold[d] = q.f /\ at[q.f] = "BEGIN")
          /\ q.op = "GUARD" => i = Len(wire[d]) /\ hold[d] = "guard"
      BY DEF IInv, WireShape
    <3>2. q.f \in Calls /\ q.op \in Awaited \cup {"GUARD"}
      BY <1>0, WireRequest
    <3>3. CASE q.f = f
      BY <3>1, <3>2, <3>3, <2>2, <1>1
    <3>4. CASE q.f # f
      BY <3>1, <3>2, <3>4, <1>1
    <3> QED
      BY <3>3, <3>4
  <2>6. ControlLast'
    <3> SUFFICES ASSUME NEW d \in Conns, NEW g \in Calls,
                        at'[g] \in {"COMMIT", "ROLLBACK"}, hold[d] = tx[g]
                 PROVE  IF ans'[g] = "none"
                          THEN /\ wire[d] # <<>>
                               /\ wire[d][Len(wire[d])].f = g /\ wire[d][Len(wire[d])].op = at'[g]
                          ELSE /\ wire[d] = <<>>
                               /\ at'[g] = "ROLLBACK" \/ ans'[g] = "ok" => session[d] = "none"
      BY <2>1 DEF ControlLast
    <3>1. CASE g = f
      <4>1. d = c
        BY <3>1, <1>0 DEF IInv, Ownership, TypeOK
      <4> QED
        BY <3>1, <4>1, <2>1
    <3>2. CASE g # f
      BY <3>2, <1>1 DEF IInv, ControlLast
    <3> QED
      BY <3>1, <3>2
  <2>7. GuardLast'
    BY <2>1 DEF IInv, GuardLast
  <2>8. AutoClean' /\ PoolClean'
    BY <1>0, <1>1 DEF IInv, AutoClean, PoolClean
  <2>9. OwnRequests'
    BY <2>1 DEF IInv, OwnRequests
  <2>10. OwnSession'
    BY <2>1 DEF IInv, OwnSession
  <2> QED
    BY <2>3, <2>4, <2>5, <2>6, <2>7, <2>8, <2>9, <2>10 DEF ConnInv
<1> QED
  BY <1>2, <1>3, <1>0 DEF TypeOK

\* A call is over and its transaction's connection is given up: to the guard task,
\* closed, or to the pool with nothing open on it.
LEMMA GiveUpStep ==
  ASSUME IInv, TypeOK', CallShape', NEW f \in Calls, NEW c \in Conns, hold[c] = tx[f],
         UNCHANGED <<kind, tx, session, alive>>,
         at'[f] \in {"done", "cancelled"},
         \A g \in Calls \ {f} : at'[g] = at[g] /\ ans'[g] = ans[g],
         \A d \in Conns \ {c} : hold'[d] = hold[d] /\ wire'[d] = wire[d],
         \A i \in DOMAIN wire[c] : wire[c][i].f # f => at[wire[c][i].f] # wire[c][i].op,
         \/ /\ hold'[c] = "guard" /\ alive[c]
            /\ wire'[c] = Append(wire[c], [op |-> "GUARD", f |-> tx[f], n |-> 0])
         \/ hold'[c] = "closed" /\ wire'[c] = wire[c]
         \/ /\ hold'[c] = "pool" /\ wire'[c] = wire[c]
            /\ \A i \in DOMAIN wire[c] : wire[c][i].op # "BEGIN"
            /\ ClosesBroken => session[c] = "none"
  PROVE  ConnInv'
<1> USE AwaitedPlaces, NoSuchCall
<1> DEFINE e == [op |-> "GUARD", f |-> tx[f], n |-> 0]
<1>0. TypeOK /\ Ownership /\ CallShape
  BY DEF IInv
<1>a. e \in Request /\ e.f = tx[f] /\ e.op = "GUARD"
  BY <1>0, BatchAssumption DEF Request, TypeOK
<1>b. wire[c] \in Seq(Request) /\ Len(wire[c]) \in Nat /\ DOMAIN wire[c] = 1 .. Len(wire[c])
  BY <1>0, WireRequest
<1>c. hold[c] \in Calls /\ hold'[c] \notin Calls
  BY <1>0 DEF TypeOK
<1>1. hold'[c] = "guard" =>
        /\ alive[c] /\ Len(wire'[c]) = Len(wire[c]) + 1 /\ wire'[c] # <<>>
        /\ DOMAIN wire'[c] = 1 .. Len(wire[c]) + 1
        /\ \A j \in 1 .. Len(wire[c]) : wire'[c][j] = wire[c][j]
        /\ wire'[c][Len(wire[c]) + 1] = e
  <2> SUFFICES ASSUME hold'[c] = "guard"
               PROVE  /\ alive[c] /\ Len(wire'[c]) = Len(wire[c]) + 1 /\ wire'[c] # <<>>
                      /\ DOMAIN wire'[c] = 1 .. Len(wire[c]) + 1
                      /\ \A j \in 1 .. Len(wire[c]) : wire'[c][j] = wire[c][j]
                      /\ wire'[c][Len(wire[c]) + 1] = e
    OBVIOUS
  <2>1. wire'[c] = Append(wire[c], e) /\ alive[c]
    OBVIOUS
  <2> HIDE DEF e
  <2> QED
    BY <2>1, <1>a, <1>b, AppendLast
<1> HIDE DEF e
<1>2. ASSUME NEW d \in Conns, NEW i \in DOMAIN wire'[d]
      PROVE  \/ i \in DOMAIN wire[d] /\ wire'[d][i] = wire[d][i]
                /\ (d # c => wire'[d] = wire[d])
             \/ d = c /\ hold'[c] = "guard" /\ i = Len(wire'[c]) /\ wire'[d][i] = e
  BY <1>1, <1>b
<1>3. \A d \in Conns : hold'[d] \in Calls => d # c /\ hold'[d] = hold[d] /\ hold[d] # f
  BY <1>c, <1>0 DEF Ownership, CallShape, TypeOK
<1>4. Ownership'
  BY <1>3, <1>0 DEF Ownership
<1>5. DeadIsEmpty'
  BY <1>1 DEF IInv, DeadIsEmpty
<1>6. WireShape'
  <2> SUFFICES ASSUME NEW d \in Conns, NEW i \in DOMAIN wire'[d], NEW q, q = wire'[d][i]
               PROVE  /\ at'[q.f] \notin {"new", "get", "lock"}
                      /\ q.op # "GUARD" => at'[q.f] \in {q.op, "done", "cancelled"}
                      /\ at'[q.f] = q.op =>
                           i = Len(wire'[d]) /\ ans'[q.f] = "none" /\ hold'[d] = tx[q.f]
                      /\ q.op = "BEGIN" =>
                           hold'[d] \in {"guard", "closed"} \/ (hold'[d] = q.f /\ at'[q.f] = "BEGIN")
                      /\ q.op = "GUARD" => i = Len(wire'[d]) /\ hold'[d] = "guard"
    BY DEF WireShape
  <2>1. CASE q = e /\ d = c /\ hold'[c] = "guard" /\ i = Len(wire'[c])
    <3>1. at'[tx[f]] \notin {"new", "get", "lock"} /\ at'[tx[f]] # "GUARD"
      <4>1. CASE tx[f] = f
        BY <4>1, <1>0
      <4>2. CASE tx[f] # f
        <5>1. tx[f] \in Calls /\ kind[f] \in Kinds
          BY <1>0 DEF TypeOK
        <5>2. at[tx[f]] \in {"handle", "droplock", "ROLLBACK", "done"}
          BY <4>2, <5>1, <1>0 DEF CallShape, Kinds, Pooled
        <5> QED
          BY <4>2, <5>1, <5>2
      <4> QED
        BY <4>1, <4>2
    <3> QED
      BY <2>1, <3>1, <1>a
  <2>2. CASE i \in DOMAIN wire[d] /\ q = wire[d][i] /\ (d # c => wire'[d] = wire[d])
    <3>1. /\ at[q.f] \notin {"new", "get", "lock"}
          /\ q.op # "GUARD" => at[q.f] \in {q.op, "done", "cancelled"}
          /\ at[q.f] = q.op => i = Len(wire[d]) /\ ans[q.f] = "none" /\ hold[d] = tx[q.f]
          /\ q.op = "BEGIN" =>
               hold[d] \in {"guard", "closed"} \/ (hold[d] = q.f /\ at[q.f] = "BEGIN")
          /\ q.op = "GUARD" => i = Len(wire[d]) /\ hold[d] = "guard"
      BY <2>2 DEF IInv, WireShape
    <3>2. q.f \in Calls /\ q.op \in Awaited \cup {"GUARD"}
      BY <1>0, <2>2, WireRequest
    <3>3. CASE d # c
      <4>1. hold'[d] = hold[d] /\ wire'[d] = wire[d]
        BY <3>3
      <4>2. CASE q.f = f
        <5>1. hold[d] # f
          BY <3>3, <1>0, <1>c DEF Ownership, CallShape, TypeOK
        <5> QED
          BY <3>1, <3>2, <4>1, <4>2, <5>1
      <4>3. CASE q.f # f
        BY <3>1, <3>2, <4>1, <4>3
      <4> QED
        BY <4>2, <4>3
    <3>4. CASE d = c
      <4>1. q.op # "GUARD"
        BY <3>1, <3>4, <1>c
      <4>2. CASE q.f = f
        <5>1. q.op = "BEGIN" => hold'[c] \in {"guard", "closed"}
          BY <2>2, <3>4
        <5> QED
          BY <3>1, <3>2, <3>4, <4>1, <4>2, <5>1
      <4>3. CASE q.f # f
        <5>1. at[q.f] # q.op /\ at'[q.f] = at[q.f]
          BY <2>2, <3>2, <3>4, <4>3
        <5>2. q.op # "BEGIN"
          BY <3>1, <3>4, <5>1, <1>c
        <5> QED
          BY <3>1, <4>1, <5>1, <5>2
      <4> QED
        BY <4>2, <4>3
    <3> QED
      BY <3>3, <3>4
  <2> QED
    BY <2>1, <2>2, <1>2
<1>7. ControlLast'
  <2> SUFFICES ASSUME NEW d \in Conns, NEW g \in Calls,
                      at'[g] \in {"COMMIT", "ROLLBACK"}, hold'[d] = tx[g]
               PROVE  IF ans'[g] = "none"
                        THEN /\ wire'[d] # <<>>
                             /\ wire'[d][Len(wire'[d])].f = g /\ wire'[d][Len(wire'[d])].op = at'[g]
                        ELSE /\ wire'[d] = <<>>
                             /\ at'[g] = "ROLLBACK" \/ ans'[g] = "ok" => session[d] = "none"
    BY DEF ControlLast
  <2>1. d # c /\ g # f
    BY <1>3, <1>0 DEF TypeOK
  <2>2. wire'[d] = wire[d] /\ hold'[d] = hold[d] /\ at'[g] = at[g] /\ ans'[g] = ans[g]
    BY <2>1
  <2>3. IF ans[g] = "none"
          THEN /\ wire[d] # <<>>
               /\ wire[d][Len(wire[d])].f = g /\ wire[d][Len(wire[d])].op = at[g]
          ELSE wire[d] = <<>> /\ (at[g] = "ROLLBACK" \/ ans[g] = "ok" => session[d] = "none")
    <3>1. ControlLast /\ at[g] \in {"COMMIT", "ROLLBACK"} /\ hold[d] = tx[g]
      BY <2>2 DEF IInv
    <3> QED
      BY <3>1, Zenon DEF ControlLast
  <2> QED
    BY <2>2, <2>3
<1>8. GuardLast'
  <2> SUFFICES ASSUME NEW d \in Conns, hold'[d] = "guard"
               PROVE  wire'[d] # <<>> /\ wire'[d][Len(wire'[d])].op = "GUARD"
    BY DEF GuardLast
  <2>1. CASE d = c
    <3>1. Len(wire'[c]) = Len(wire[c]) + 1 /\ wire'[c][Len(wire[c]) + 1] = e /\ wire'[c] # <<>>
      BY <2>1, <1>1
    <3> QED
      BY <2>1, <3>1, <1>a
  <2>2. CASE d # c
    BY <2>2 DEF IInv, GuardLast
  <2> QED
    BY <2>1, <2>2
<1>9. AutoClean'
  BY <1>3 DEF IInv, AutoClean
<1>10. PoolClean'
  BY DEF IInv, PoolClean
<1>11. OwnRequests'
  BY <1>2, <1>3 DEF IInv, OwnRequests
<1>12. OwnSession'
  BY <1>2, <1>3 DEF IInv, OwnSession
<1> QED
  BY <1>4, <1>5, <1>6, <1>7, <1>8, <1>9, <1>10, <1>11, <1>12 DEF ConnInv

\* What kind of call is found at the places outside the requests.
LEMMA KindAt ==
  ASSUME TypeOK, CallShape, NEW f \in Calls
  PROVE  /\ kind[f] \in Kinds
         /\ at[f] = "new" <=> kind[f] = "none"
         /\ at[f] = "get" => kind[f] \in Pooled
         /\ at[f] = "lock" => kind[f] \in {"stmt", "commit", "rollback"}
         /\ at[f] \in {"handle", "droplock"} => kind[f] = "begin"
<1>1. kind[f] \in Kinds
  BY DEF TypeOK
<1>2. CASE kind[f] = "none"
  BY <1>1, <1>2 DEF CallShape
<1>3. CASE kind[f] = "begin"
  BY <1>1, <1>3 DEF CallShape, Pooled
<1>4. CASE kind[f] \in {"stmt", "commit", "rollback"}
  BY <1>1, <1>4 DEF CallShape
<1>5. CASE kind[f] = "auto"
  BY <1>1, <1>5 DEF CallShape, Pooled
<1>6. CASE kind[f] \in {"many", "script"}
  <2>1. at[f] \in {"BEGIN", "WRITE", "COMMIT", "ROLLBACK", "get", "done", "cancelled"}
    BY <1>6 DEF CallShape, Awaited
  <2> QED
    BY <1>1, <1>6, <2>1 DEF Pooled
<1> QED
  BY <1>1, <1>2, <1>3, <1>4, <1>5, <1>6 DEF Kinds

\* A call moves to a place its kind allows; a Transaction never goes back.
LEMMA CallMove ==
  ASSUME TypeOK, CallShape, NEW f \in Calls, NEW p,
         UNCHANGED <<kind, tx>>, at' = [at EXCEPT ![f] = p],
         kind[f] # "none",
         kind[f] = "begin"  => p \in {"BEGIN", "handle", "droplock", "ROLLBACK", "done", "cancelled"},
         kind[f] = "stmt"   => p \in {"WRITE", "done", "cancelled"},
         kind[f] = "commit" => p \in {"COMMIT", "done", "cancelled"},
         kind[f] = "rollback" => p \in {"ROLLBACK", "done", "cancelled"},
         kind[f] = "auto"   => p \in {"WRITE", "COMMIT", "done", "cancelled"},
         kind[f] = "auto" /\ p = "COMMIT" => ImplicitBegin,
         kind[f] \in {"many", "script"} => p \in Awaited \cup {"done", "cancelled"},
         p = "BEGIN" => ~ImplicitBegin,
         kind[f] = "begin" /\ at[f] \in {"handle", "droplock", "ROLLBACK", "done"} =>
           p \in {"droplock", "ROLLBACK", "done"}
  PROVE  CallShape'
BY DEF CallShape, TypeOK, Kinds, Pooled

\* Every step keeps the calls in shape.
LEMMA CallShapeStep == IInv /\ Next => CallShape'
<1> SUFFICES ASSUME IInv, Next PROVE CallShape'
  OBVIOUS
<1>0. TypeOK /\ CallShape
  BY DEF IInv
<1> USE AwaitedPlaces
<1>1. ASSUME NEW f \in Calls, NEW x \in Pooled, AskPooled(f, x) PROVE CallShape'
  <2>1. /\ at[f] = "new" /\ tx' = tx
        /\ kind' = [kind EXCEPT ![f] = x] /\ at' = [at EXCEPT ![f] = "get"]
    BY <1>1 DEF AskPooled
  <2>2. kind[f] = "none"
    BY <1>0, <2>1, KindAt
  <2>3. \A g \in Calls \ {f} : kind'[g] = kind[g] /\ at'[g] = at[g]
    BY <1>0, <2>1 DEF TypeOK
  <2>4. kind'[f] = x /\ at'[f] = "get" /\ tx[f] = f
    BY <1>0, <2>1, <2>2 DEF TypeOK, CallShape
  <2>5. \A g \in Calls : kind[g] \in {"stmt", "commit", "rollback"} => tx[g] # f
    BY <1>0, <2>2 DEF CallShape
  <2>6. \A g \in Calls : tx[g] \in Calls
    BY <1>0 DEF TypeOK
  <2> QED
    BY <1>0, <2>1, <2>3, <2>4, <2>5, <2>6 DEF CallShape, Pooled
<1>2. ASSUME NEW f \in Calls, NEW x \in {"stmt", "commit", "rollback"}, NEW h \in Calls,
             AskTx(f, x, h)
      PROVE  CallShape'
  <2>1. /\ at[f] = "new" /\ kind[h] = "begin" /\ at[h] = "handle" /\ h # f
        /\ kind' = [kind EXCEPT ![f] = x] /\ tx' = [tx EXCEPT ![f] = h]
        /\ at' = [at EXCEPT ![f] = "lock"]
    BY <1>2 DEF AskTx
  <2>2. kind[f] = "none"
    BY <1>0, <2>1, KindAt
  <2>3. \A g \in Calls \ {f} : kind'[g] = kind[g] /\ tx'[g] = tx[g] /\ at'[g] = at[g]
    BY <1>0, <2>1 DEF TypeOK
  <2>4. kind'[f] = x /\ tx'[f] = h /\ at'[f] = "lock"
    BY <1>0, <2>1 DEF TypeOK
  <2>5. \A g \in Calls : kind[g] \in {"stmt", "commit", "rollback"} => tx[g] # f
    BY <1>0, <2>2 DEF CallShape
  <2>6. \A g \in Calls : tx[g] \in Calls
    BY <1>0 DEF TypeOK
  <2> QED
    BY <1>0, <2>1, <2>3, <2>4, <2>5, <2>6 DEF CallShape, Pooled
<1>3. ASSUME NEW f \in Calls, NEW c \in Conns, Checkout(f, c) PROVE CallShape'
  <2>1. kind[f] \in Pooled /\ UNCHANGED <<kind, tx>>
    <3>1. at[f] = "get" /\ UNCHANGED <<kind, tx>>
      BY <1>3 DEF Checkout
    <3> QED
      BY <1>0, <3>1, KindAt
  <2>2. PICK p \in {"handle", "BEGIN", "WRITE"} :
          /\ kind[f] = "begin"  => p = IF ImplicitBegin THEN "handle" ELSE "BEGIN"
          /\ kind[f] = "many"   => p = IF ImplicitBegin THEN "WRITE" ELSE "BEGIN"
          /\ kind[f] = "auto"   => p = "WRITE"
          /\ kind[f] = "script" => p \in (IF ImplicitBegin THEN {"WRITE"} ELSE {"BEGIN", "WRITE"})
          /\ at' = [at EXCEPT ![f] = p]
    BY <1>3 DEF Checkout, Opening
  <2>3. at[f] = "get"
    BY <1>3 DEF Checkout
  <2> QED
    BY <1>0, <2>1, <2>2, <2>3, CallMove DEF Pooled, Awaited
<1>4. ASSUME NEW f \in Calls, GetFails(f) PROVE CallShape'
  BY <1>0, <1>4, KindAt, CallMove DEF GetFails, Finish, Pooled
<1>5. ASSUME NEW f \in Calls, LockAcquired(f) PROVE CallShape'
  <2>1. at[f] = "lock" /\ UNCHANGED <<kind, tx>>
    BY <1>5 DEF LockAcquired
  <2>2. kind[f] \in {"stmt", "commit", "rollback"}
    BY <1>0, <2>1, KindAt
  <2>3. CASE HasInner(tx[f])
    <3>1. \/ kind[f] = "stmt" /\ at' = [at EXCEPT ![f] = "WRITE"]
          \/ kind[f] = "commit" /\ at' = [at EXCEPT ![f] = "COMMIT"]
          \/ kind[f] = "rollback" /\ at' = [at EXCEPT ![f] = "ROLLBACK"]
      BY <1>5, <2>3 DEF LockAcquired, Send
    <3> QED
      BY <1>0, <2>1, <3>1, CallMove
  <2>4. CASE ~HasInner(tx[f])
    <3>1. at' = [at EXCEPT ![f] = "done"]
      BY <1>5, <2>4 DEF LockAcquired, Finish
    <3> QED
      BY <1>0, <2>1, <2>2, <3>1, CallMove
  <2> QED
    BY <2>3, <2>4
<1>6. ASSUME UNCHANGED <<kind, tx, at>> PROVE CallShape'
  BY <1>0, <1>6 DEF CallShape
<1>7. ASSUME NEW c \in Conns, Exec(c) \/ Lose(c) \/ Hangup(c) PROVE CallShape'
  BY <1>6, <1>7 DEF Exec, Lose, Hangup, callVars
<1>8. ASSUME NEW f \in Calls, NEW c \in Conns, Reply(f, c) PROVE CallShape'
  <2>1. CASE BeginReply(f, c)
    <3>1. PICK p \in {"handle", "done"} : at' = [at EXCEPT ![f] = p]
      BY <2>1 DEF BeginReply, Finish
    <3> QED
      BY <1>0, <2>1, <3>1, CallMove DEF BeginReply
  <2>2. CASE ControlReply(f, c)
    BY <1>0, <2>2, CallMove DEF ControlReply, Finish, CallShape
  <2>3. CASE AutoReply(f, c)
    <3>1. PICK p \in {"done", "COMMIT"} :
            at' = [at EXCEPT ![f] = p] /\ (p = "done" \/ ImplicitBegin)
      <4>1. CASE ImplicitBegin /\ at[f] = "WRITE" /\ ans[f] = "ok"
        BY <2>3, <4>1 DEF AutoReply, Send
      <4>2. CASE ~(ImplicitBegin /\ at[f] = "WRITE" /\ ans[f] = "ok")
        BY <2>3, <4>2 DEF AutoReply, Finish
      <4> QED
        BY <4>1, <4>2
    <3>2. kind[f] = "auto" /\ UNCHANGED <<kind, tx>>
      BY <2>3 DEF AutoReply
    <3> QED
      BY <1>0, <3>1, <3>2, CallMove
  <2>4. CASE ManyReply(f, c)
    <3>1. PICK p \in {"WRITE", "COMMIT", "ROLLBACK", "done"} : at' = [at EXCEPT ![f] = p]
      BY <2>4 DEF ManyReply, RowFails, Finish, Send
    <3> QED
      BY <1>0, <2>4, <3>1, CallMove DEF ManyReply, Awaited
  <2>5. CASE ScriptReply(f, c)
    <3>1. PICK p \in {"WRITE", "COMMIT", "ROLLBACK", "done"} : at' = [at EXCEPT ![f] = p]
      BY <2>5 DEF ScriptReply, Finish, Send
    <3> QED
      BY <1>0, <2>5, <3>1, CallMove DEF ScriptReply, Awaited
  <2> QED
    BY <1>8, <2>1, <2>2, <2>3, <2>4, <2>5 DEF Reply
<1>9. ASSUME NEW f \in Calls, StmtReply(f) PROVE CallShape'
  BY <1>0, <1>9, CallMove DEF StmtReply, Finish
<1>10. ASSUME NEW f \in Calls, Cancel(f) PROVE CallShape'
  <2>1. at' = [at EXCEPT ![f] = "cancelled"] /\ UNCHANGED <<kind, tx>>
    BY <1>10 DEF Cancel
  <2>2. kind[f] # "none" /\ (kind[f] = "begin" => at[f] \notin {"handle", "droplock", "ROLLBACK", "done"})
    BY <1>0, <1>10 DEF Cancel, Cancellable, CallShape, Awaited
  <2> QED
    BY <1>0, <2>1, <2>2, CallMove
<1>11. ASSUME NEW h \in Calls, DropHandle(h) PROVE CallShape'
  BY <1>0, <1>11, KindAt, CallMove DEF DropHandle
<1>12. ASSUME NEW h \in Calls, DropTask(h) PROVE CallShape'
  <2>1. PICK p \in {"ROLLBACK", "done"} : at' = [at EXCEPT ![h] = p]
    BY <1>12 DEF DropTask, Send, Finish
  <2>2. kind[h] = "begin"
    BY <1>0, <1>12, KindAt DEF DropTask
  <2> QED
    BY <1>0, <1>12, <2>1, <2>2, CallMove DEF DropTask
<1>13. ASSUME Close PROVE CallShape'
  BY <1>6, <1>13 DEF Close, callVars
<1> QED
  BY <1>1, <1>2, <1>3, <1>4, <1>5, <1>7, <1>8, <1>9, <1>10, <1>11, <1>12, <1>13 DEF Next, Ask, Progress

\* Where the drop of a transaction leaves its connection.
LEMMA DropTxShape ==
  ASSUME IInv, NEW h \in Calls, NEW c \in Conns, hold[c] = h,
         NEW st \in {"Active", "Finished", "Broken"}, DropTx(h, c, st),
         st # "Active" => wire[c] = <<>>,
         st = "Finished" /\ ClosesBroken => session[c] = "none"
  PROVE  /\ \A d \in Conns \ {c} : hold'[d] = hold[d] /\ wire'[d] = wire[d]
         /\ \/ /\ hold'[c] = "guard" /\ alive[c]
               /\ wire'[c] = Append(wire[c], [op |-> "GUARD", f |-> h, n |-> 0])
            \/ hold'[c] = "closed" /\ wire'[c] = wire[c]
            \/ /\ hold'[c] = "pool" /\ wire'[c] = wire[c]
               /\ \A i \in DOMAIN wire[c] : wire[c][i].op # "BEGIN"
               /\ ClosesBroken => session[c] = "none"
<1> USE BackendFacts, NoSuchCall
<1>0. TypeOK
  BY DEF IInv
<1>1. ImplicitBegin => \A i \in DOMAIN wire[c] : wire[c][i].op # "BEGIN"
  <2>1. \A i \in DOMAIN wire[c] : wire[c][i].op = "BEGIN" =>
          wire[c][i].f \in Calls /\ at[wire[c][i].f] = "BEGIN"
    BY <1>0, WireRequest DEF IInv, WireShape
  <2> QED
    BY <2>1 DEF IInv, CallShape
<1>2. wire[c] = <<>> => \A i \in DOMAIN wire[c] : wire[c][i].op # "BEGIN"
  OBVIOUS
<1>3. ~alive[c] => wire[c] = <<>>
  BY DEF IInv, DeadIsEmpty
<1>4. ~Guarded <=> ImplicitBegin
  BY DEF Guarded, ImplicitBegin
<1>5. CASE ~Guarded \/ st = "Finished" \/ (st = "Broken" /\ ~ClosesBroken)
  <2>1. hold' = [hold EXCEPT ![c] = ReturnTo] /\ wire' = wire
    BY <1>5 DEF DropTx, Return
  <2> QED
    BY <1>0, <1>1, <1>2, <1>4, <1>5, <2>1 DEF ReturnTo, TypeOK
<1>6. CASE Guarded /\ st = "Broken" /\ ClosesBroken
  BY <1>0, <1>6 DEF DropTx, TypeOK
<1>7. CASE Guarded /\ st = "Active" /\ alive[c]
  BY <1>0, <1>7 DEF DropTx, TypeOK
<1>8. CASE Guarded /\ st = "Active" /\ ~alive[c]
  <2>1. hold' = [hold EXCEPT ![c] = IF ClosesBroken THEN "closed" ELSE ReturnTo] /\ wire' = wire
    BY <1>8 DEF DropTx
  <2> QED
    BY <1>0, <1>2, <1>3, <1>8, <2>1 DEF ReturnTo, TypeOK
<1> QED
  BY <1>5, <1>6, <1>7, <1>8

\* A pooled call other than begin is alone on its transaction.
LEMMA Alone ==
  ASSUME IInv, NEW f \in Calls,
         kind[f] \in Pooled, kind[f] = "begin" => at[f] \notin {"handle", "droplock", "ROLLBACK", "done"}
  PROVE  tx[f] = f /\ \A g \in Calls \ {f} : tx[g] # f
<1>1. TypeOK /\ CallShape
  BY DEF IInv
<1>2. tx[f] = f
  BY <1>1 DEF CallShape
<1>3. ASSUME NEW g \in Calls, g # f, tx[g] = f PROVE FALSE
  <2>1. kind[g] \in {"stmt", "commit", "rollback"}
    BY <1>1, <1>3 DEF CallShape, TypeOK, Kinds, Pooled
  <2> QED
    BY <1>1, <1>3, <2>1 DEF CallShape
<1> QED
  BY <1>2, <1>3

\* Nobody awaits a request on a connection that only f could use.
LEMMA OnlyMine ==
  ASSUME IInv, NEW f \in Calls, NEW c \in Conns, hold[c] = tx[f],
         \A g \in Calls \ {f} : tx[g] = tx[f] => at[g] \notin Awaited
  PROVE  \A i \in DOMAIN wire[c] : wire[c][i].f # f => at[wire[c][i].f] # wire[c][i].op
<1>1. SUFFICES ASSUME NEW i \in DOMAIN wire[c], wire[c][i].f # f, at[wire[c][i].f] = wire[c][i].op
               PROVE  FALSE
  OBVIOUS
<1>2. /\ wire[c][i].f \in Calls /\ wire[c][i].op \in Awaited \cup {"GUARD"}
  BY WireRequest DEF IInv
<1>3. at[wire[c][i].f] \in Places /\ tx[wire[c][i].f] = hold[c]
  BY <1>1, <1>2 DEF IInv, TypeOK, WireShape
<1> QED
  BY <1>1, <1>2, <1>3, AwaitedPlaces

\* The mutex is free and the connection in it: nobody awaits anything on it.
LEMMA NobodyAwaits ==
  ASSUME IInv, NEW h \in Calls, kind[h] = "begin",
         at[h] \in {"handle", "droplock", "ROLLBACK", "done"}, HasInner(h), LockFree(h)
  PROVE  /\ \A g \in Calls : tx[g] = h => at[g] \notin Awaited
         /\ \E c \in Conns : hold[c] = h
<1>1. TypeOK /\ CallShape
  BY DEF IInv
<1>2. ASSUME NEW g \in Calls, tx[g] = h PROVE at[g] \notin Awaited
  <2>1. CASE g = h
    BY <2>1 DEF HasInner, Awaited
  <2>2. CASE g # h
    <3>1. kind[g] \in {"stmt", "commit", "rollback"}
      BY <1>1, <1>2, <2>2 DEF CallShape, TypeOK, Kinds, Pooled
    <3>2. kind[g] = "stmt" => at[g] # "WRITE"
      BY <1>2 DEF LockFree
    <3>3. kind[g] # "stmt" => at[g] \notin {"COMMIT", "ROLLBACK"}
      BY <1>2, <3>1 DEF HasInner, Control
    <3> QED
      BY <1>1, <3>1, <3>2, <3>3 DEF CallShape, Awaited
  <2> QED
    BY <2>1, <2>2
<1> QED
  BY <1>2 DEF HasInner

\* Asking for a future touches no connection.
LEMMA AskStep ==
  ASSUME IInv, TypeOK', CallShape', NEW f \in Calls, Ask(f)
  PROVE  ConnInv'
<1>1. TypeOK
  BY DEF IInv
<1>2. /\ UNCHANGED connVars /\ ans' = ans
      /\ at[f] = "new" /\ \E x \in {"get", "lock"} : at' = [at EXCEPT ![f] = x]
      /\ \E x \in Kinds : kind' = [kind EXCEPT ![f] = x]
      /\ tx' = tx \/ \E h \in Calls : tx' = [tx EXCEPT ![f] = h]
  <2>1. CASE \E x \in Pooled : AskPooled(f, x)
    BY <2>1 DEF AskPooled, Pooled, Kinds
  <2>2. CASE \E x \in {"stmt", "commit", "rollback"}, h \in Calls : AskTx(f, x, h)
    BY <2>2 DEF AskTx, Kinds
  <2> QED
    BY <2>1, <2>2 DEF Ask
<1>3. /\ at'[f] \in {"get", "lock"}
      /\ \A g \in Calls \ {f} :
           kind'[g] = kind[g] /\ tx'[g] = tx[g] /\ at'[g] = at[g] /\ ans'[g] = ans[g]
  BY <1>1, <1>2 DEF TypeOK
<1> QED
  BY <1>2, <1>3, LocalStep

\* A call that fails before it owns a connection changes none.
LEMMA FinishStep ==
  ASSUME IInv, TypeOK', CallShape', NEW f \in Calls,
         GetFails(f) \/ StmtReply(f) \/ DropHandle(f)
  PROVE  ConnInv'
<1>1. TypeOK
  BY DEF IInv
<1>2. /\ UNCHANGED <<kind, tx, connVars>>
      /\ \A g \in Calls \ {f} : ans'[g] = ans[g] /\ at'[g] = at[g]
      /\ \/ at[f] \in {"get", "WRITE"} /\ at'[f] = "done"
         \/ at[f] = "handle" /\ at'[f] = "droplock"
  BY <1>1 DEF GetFails, StmtReply, DropHandle, Finish, TypeOK
<1> QED
  BY <1>2, LocalStep

\* A call that gets the mutex sends one request, or finds no connection.
LEMMA LockAcquiredStep ==
  ASSUME IInv, TypeOK', CallShape', NEW f \in Calls, LockAcquired(f)
  PROVE  ConnInv'
<1>1. TypeOK /\ CallShape
  BY DEF IInv
<1>2. /\ at[f] = "lock" /\ LockFree(tx[f])
      /\ UNCHANGED <<kind, tx, hold, session, work, failed, alive>>
  BY DEF LockAcquired
<1>3. CASE HasInner(tx[f])
  <2>1. PICK c \in Conns, op \in {"WRITE", "COMMIT", "ROLLBACK"}, n \in {0, 1} :
          hold[c] = tx[f] /\ Send(f, c, op, n)
    BY <1>3 DEF LockAcquired
  <2>2. n \in 0 .. BatchRows
    BY BatchAssumption
  <2>3. tx[f] \in Calls /\ kind[tx[f]] = "begin"
        /\ at[tx[f]] \in {"handle", "droplock", "ROLLBACK", "done"}
    BY <1>1, <1>2, KindAt DEF CallShape, TypeOK
  <2>4. \A g \in Calls : tx[g] = tx[f] => at[g] \notin Awaited
    BY <1>2, <1>3, <2>3, NobodyAwaits
  <2> QED
    BY <1>2, <2>1, <2>2, <2>4, SendStep
<1>4. CASE ~HasInner(tx[f])
  <2>1. /\ UNCHANGED connVars
        /\ at' = [at EXCEPT ![f] = "done"] /\ ans' = [ans EXCEPT ![f] = "err"]
    BY <1>2, <1>4 DEF LockAcquired, Finish, connVars
  <2> QED
    BY <1>1, <1>2, <2>1, LocalStep DEF TypeOK
<1> QED
  BY <1>3, <1>4

\* The Drop task sends the ROLLBACK nobody else is going to send.
LEMMA DropTaskStep ==
  ASSUME IInv, TypeOK', CallShape', NEW h \in Calls, DropTask(h)
  PROVE  ConnInv'
<1>1. TypeOK /\ CallShape
  BY DEF IInv
<1>2. /\ at[h] = "droplock" /\ LockFree(h)
      /\ UNCHANGED <<kind, tx, hold, session, work, failed, alive>>
  BY DEF DropTask
<1>3. kind[h] = "begin" /\ tx[h] = h
  BY <1>1, <1>2, KindAt DEF CallShape, Pooled
<1>4. CASE HasInner(h)
  <2>1. PICK c \in Conns : hold[c] = h /\ Send(h, c, "ROLLBACK", 0)
    BY <1>4 DEF DropTask
  <2>2. 0 \in 0 .. BatchRows
    BY BatchAssumption
  <2>3. \A g \in Calls : tx[g] = h => at[g] \notin Awaited
    BY <1>2, <1>3, <1>4, NobodyAwaits
  <2> QED
    BY <1>2, <1>3, <2>1, <2>2, <2>3, SendStep
<1>5. CASE ~HasInner(h)
  <2>1. /\ UNCHANGED connVars
        /\ at' = [at EXCEPT ![h] = "done"] /\ ans' = [ans EXCEPT ![h] = "ok"]
    BY <1>2, <1>5 DEF DropTask, Finish, connVars
  <2> QED
    BY <1>1, <1>2, <2>1, LocalStep DEF TypeOK
<1> QED
  BY <1>4, <1>5

\* A call finishes and its connection goes where the transaction's drop puts it.
LEMMA FinishDrop ==
  ASSUME IInv, TypeOK', CallShape', NEW f \in Calls, NEW c \in Conns, hold[c] = tx[f],
         NEW st \in {"Active", "Finished", "Broken"}, NEW r, Finish(f, r), DropTx(tx[f], c, st),
         UNCHANGED <<kind, tx, session, alive>>,
         st # "Active" => wire[c] = <<>>,
         st = "Finished" /\ ClosesBroken => session[c] = "none",
         wire[c] # <<>> => \A g \in Calls \ {f} : tx[g] = tx[f] => at[g] \notin Awaited
  PROVE  ConnInv'
<1>1. TypeOK
  BY DEF IInv
<1>2. tx[f] \in Calls
  BY <1>1 DEF TypeOK
<1>3. \A i \in DOMAIN wire[c] : wire[c][i].f # f => at[wire[c][i].f] # wire[c][i].op
  <2>1. CASE wire[c] = <<>>
    BY <2>1
  <2>2. CASE wire[c] # <<>>
    BY <2>2, OnlyMine
  <2> QED
    BY <2>1, <2>2
<1>4. at'[f] = "done" /\ \A g \in Calls \ {f} : at'[g] = at[g] /\ ans'[g] = ans[g]
  BY <1>1 DEF Finish, TypeOK
<1>5. /\ \A d \in Conns \ {c} : hold'[d] = hold[d] /\ wire'[d] = wire[d]
      /\ \/ /\ hold'[c] = "guard" /\ alive[c]
            /\ wire'[c] = Append(wire[c], [op |-> "GUARD", f |-> tx[f], n |-> 0])
         \/ hold'[c] = "closed" /\ wire'[c] = wire[c]
         \/ /\ hold'[c] = "pool" /\ wire'[c] = wire[c]
            /\ \A i \in DOMAIN wire[c] : wire[c][i].op # "BEGIN"
            /\ ClosesBroken => session[c] = "none"
  BY <1>2, DropTxShape
<1> QED
  BY <1>3, <1>4, <1>5, GiveUpStep

\* A call is over and returns its connection, on which nothing is open.
LEMMA OverReturn ==
  ASSUME IInv, TypeOK', CallShape', NEW f \in Calls, NEW c \in Conns, hold[c] = tx[f],
         Return(c), UNCHANGED <<kind, tx, session, alive>>,
         at'[f] \in {"done", "cancelled"},
         \A g \in Calls \ {f} : at'[g] = at[g] /\ ans'[g] = ans[g],
         \A g \in Calls \ {f} : tx[g] # tx[f],
         at[f] # "BEGIN" \/ ans[f] # "none", tx[f] = f,
         ClosesBroken => session[c] = "none"
  PROVE  ConnInv'
<1>1. TypeOK
  BY DEF IInv
<1>2. \A i \in DOMAIN wire[c] : wire[c][i].f # f => at[wire[c][i].f] # wire[c][i].op
  BY OnlyMine
<1>3. \A i \in DOMAIN wire[c] : wire[c][i].op # "BEGIN"
  BY NoSuchCall DEF IInv, WireShape
<1>4. /\ \A d \in Conns \ {c} : hold'[d] = hold[d] /\ wire'[d] = wire[d]
      /\ hold'[c] \in {"pool", "closed"} /\ wire'[c] = wire[c]
  BY <1>1 DEF Return, ReturnTo, TypeOK
<1> QED
  BY <1>2, <1>3, <1>4, GiveUpStep

\* Once COMMIT or ROLLBACK is answered nothing is on the wire.
LEMMA Answer ==
  ASSUME IInv, NEW f \in Calls, NEW c \in Conns, hold[c] = tx[f],
         at[f] \in {"COMMIT", "ROLLBACK"}, ans[f] # "none"
  PROVE  wire[c] = <<>> /\ (at[f] = "ROLLBACK" \/ ans[f] = "ok" => session[c] = "none")
BY DEF IInv, ControlLast

\* begin() resolves to a Transaction, or gives its connection to the guard task.
LEMMA BeginReplyStep ==
  ASSUME IInv, TypeOK', CallShape', NEW f \in Calls, NEW c \in Conns, BeginReply(f, c)
  PROVE  ConnInv'
<1>1. TypeOK /\ CallShape
  BY DEF IInv
<1>2. /\ kind[f] = "begin" /\ at[f] = "BEGIN" /\ ans[f] # "none" /\ hold[c] = f
      /\ UNCHANGED <<kind, tx, session, work, failed, alive>>
  BY DEF BeginReply
<1>3. tx[f] = f /\ \A g \in Calls \ {f} : tx[g] # f
  BY <1>2, Alone DEF Pooled
<1>4. CASE ans[f] = "ok"
  <2>1. /\ UNCHANGED connVars
        /\ at' = [at EXCEPT ![f] = "handle"] /\ ans' = [ans EXCEPT ![f] = "none"]
    BY <1>2, <1>4 DEF BeginReply, connVars
  <2> QED
    BY <1>1, <1>2, <2>1, LocalStep DEF TypeOK
<1>5. CASE ans[f] # "ok"
  <2>1. Finish(f, "err") /\ DropTx(f, c, "Active")
    BY <1>5 DEF BeginReply
  <2> QED
    BY <1>2, <1>3, <2>1, FinishDrop
<1> QED
  BY <1>4, <1>5

\* After COMMIT or ROLLBACK the connection is clean, or the guard closes it.
LEMMA ControlReplyStep ==
  ASSUME IInv, TypeOK', CallShape', NEW f \in Calls, NEW c \in Conns, ControlReply(f, c)
  PROVE  ConnInv'
<1>1. /\ at[f] \in {"COMMIT", "ROLLBACK"} /\ ans[f] # "none" /\ hold[c] = tx[f]
      /\ Finish(f, ans[f]) /\ DropTx(tx[f], c, TxStateOf(ans[f]))
      /\ UNCHANGED <<kind, tx, session, alive>>
  BY DEF ControlReply
<1>2. wire[c] = <<>> /\ (ans[f] = "ok" => session[c] = "none")
  BY <1>1, Answer
<1>3. TxStateOf(ans[f]) \in {"Finished", "Broken"} /\ (TxStateOf(ans[f]) = "Finished" => ans[f] = "ok")
  BY DEF TxStateOf
<1> QED
  BY <1>1, <1>2, <1>3, FinishDrop

\* A pooled statement returns its connection with nothing open on it.
LEMMA AutoReplyStep ==
  ASSUME IInv, TypeOK', CallShape', NEW f \in Calls, NEW c \in Conns, AutoReply(f, c)
  PROVE  ConnInv'
<1>1. TypeOK /\ CallShape
  BY DEF IInv
<1>2. /\ kind[f] = "auto" /\ at[f] \in {"WRITE", "COMMIT"} /\ ans[f] # "none" /\ hold[c] = f
      /\ UNCHANGED <<kind, tx, session, alive>>
  BY DEF AutoReply
<1>3. tx[f] = f /\ \A g \in Calls \ {f} : tx[g] # f
  BY <1>2, Alone DEF Pooled
<1>4. CASE ImplicitBegin /\ at[f] = "WRITE" /\ ans[f] = "ok"
  <2>1. Send(f, c, "COMMIT", row[f]) /\ UNCHANGED hold
    BY <1>4 DEF AutoReply
  <2>2. row[f] \in 0 .. BatchRows
    BY <1>1 DEF TypeOK
  <2> QED
    BY <1>2, <1>3, <2>1, <2>2, SendStep DEF Awaited
<1>5. CASE ~(ImplicitBegin /\ at[f] = "WRITE" /\ ans[f] = "ok")
  <2>1. Finish(f, ans[f]) /\ Return(c)
    BY <1>5 DEF AutoReply
  <2>2. ClosesBroken => session[c] = "none"
    BY <1>2, BackendFacts DEF IInv, AutoClean
  <2>3. at'[f] = "done" /\ \A g \in Calls \ {f} : at'[g] = at[g] /\ ans'[g] = ans[g]
    BY <1>1, <2>1 DEF Finish, TypeOK
  <2> QED
    BY <1>2, <1>3, <2>1, <2>2, <2>3, OverReturn
<1> QED
  BY <1>4, <1>5

\* A batch sends its next request, or is over and gives its connection up.
LEMMA ManyReplyStep ==
  ASSUME IInv, TypeOK', CallShape', NEW f \in Calls, NEW c \in Conns, ManyReply(f, c)
  PROVE  ConnInv'
<1>1. TypeOK /\ CallShape
  BY DEF IInv
<1>2. /\ kind[f] = "many" /\ at[f] \in Awaited /\ ans[f] # "none" /\ hold[c] = f
      /\ UNCHANGED <<kind, tx, session, alive>>
  BY DEF ManyReply
<1>3. tx[f] = f /\ \A g \in Calls \ {f} : tx[g] # f
  BY <1>2, Alone DEF Pooled
<1>4. /\ row[f] \in 0 .. BatchRows
      /\ row[f] < BatchRows => row[f] + 1 \in 0 .. BatchRows
  BY <1>1, BatchAssumption DEF TypeOK
<1>5. ASSUME NEW op \in {"WRITE", "COMMIT", "ROLLBACK"}, NEW n \in 0 .. BatchRows,
             Send(f, c, op, n), UNCHANGED hold
      PROVE  ConnInv'
  BY <1>2, <1>3, <1>5, SendStep
<1>6. CASE at[f] = "BEGIN" /\ ans[f] = "err"
  <2>1. Finish(f, "err") /\ BatchOver(f, c, "Active")
    BY <1>6 DEF ManyReply, RowFails
  <2>2. CASE Backend = "sqlite"
    <3>1. Return(c) /\ session[c] = "none"
      BY <1>2, <1>6, <2>1, <2>2 DEF BatchOver, IInv, AutoClean
    <3>2. at'[f] = "done" /\ \A g \in Calls \ {f} : at'[g] = at[g] /\ ans'[g] = ans[g]
      BY <1>1, <2>1 DEF Finish, TypeOK
    <3> QED
      BY <1>2, <1>3, <3>1, <3>2, OverReturn
  <2>3. CASE Backend # "sqlite"
    BY <1>2, <1>3, <2>1, <2>3, FinishDrop DEF BatchOver
  <2> QED
    BY <2>2, <2>3
<1>7. CASE at[f] \in {"BEGIN", "WRITE"} /\ ans[f] = "ok"
  BY <1>4, <1>5, <1>7 DEF ManyReply, RowFails
<1>8. CASE at[f] = "WRITE" /\ ans[f] = "err"
  BY <1>4, <1>5, <1>8 DEF ManyReply, RowFails
<1>9. CASE at[f] \in {"COMMIT", "ROLLBACK"}
  <2>2. wire[c] = <<>> /\ (at[f] = "ROLLBACK" \/ ans[f] = "ok" => session[c] = "none")
    BY <1>2, <1>3, <1>9, Answer
  <2>3. TxStateOf(ans[f]) \in {"Finished", "Broken"} /\ (TxStateOf(ans[f]) = "Finished" => ans[f] = "ok")
    BY DEF TxStateOf
  <2>4. CASE at[f] = "COMMIT" /\ Backend = "sqlite" /\ ans[f] = "err"
    BY <1>4, <1>5, <2>4 DEF ManyReply, RowFails
  <2>5. CASE ~(at[f] = "COMMIT" /\ Backend = "sqlite" /\ ans[f] = "err")
    <3>1. PICK r \in {"ok", "err"} : Finish(f, r) /\ BatchOver(f, c, TxStateOf(ans[f]))
      BY <1>1, <1>2, <1>9, <2>5 DEF ManyReply, RowFails, TypeOK
    <3>2. CASE Backend = "sqlite"
      <4>1. Return(c) /\ session[c] = "none"
        BY <1>1, <1>2, <1>9, <2>2, <2>5, <3>1, <3>2 DEF BatchOver, TypeOK
      <4>2. at'[f] = "done" /\ \A g \in Calls \ {f} : at'[g] = at[g] /\ ans'[g] = ans[g]
        BY <1>1, <3>1 DEF Finish, TypeOK
      <4> QED
        BY <1>2, <1>3, <4>1, <4>2, OverReturn
    <3>3. CASE Backend # "sqlite"
      BY <1>2, <1>3, <2>2, <2>3, <3>1, <3>3, FinishDrop DEF BatchOver
    <3> QED
      BY <3>2, <3>3
  <2> QED
    BY <2>4, <2>5
<1> QED
  BY <1>1, <1>2, <1>6, <1>7, <1>8, <1>9 DEF Awaited, TypeOK

\* A script sends its next request and returns the connection after the last.
LEMMA ScriptReplyStep ==
  ASSUME IInv, TypeOK', CallShape', NEW f \in Calls, NEW c \in Conns, ScriptReply(f, c)
  PROVE  ConnInv'
<1>1. TypeOK /\ CallShape
  BY DEF IInv
<1>2. /\ kind[f] = "script" /\ at[f] \in Awaited /\ ans[f] # "none" /\ hold[c] = f
      /\ UNCHANGED <<kind, tx, session, alive>>
  BY DEF ScriptReply
<1>3. tx[f] = f /\ \A g \in Calls \ {f} : tx[g] # f
  BY <1>2, Alone DEF Pooled
<1>4. row[f] \in 0 .. BatchRows /\ 1 \in 0 .. BatchRows
  BY <1>1, BatchAssumption DEF TypeOK
<1>5. CASE \E op \in {"WRITE", "COMMIT", "ROLLBACK"}, n \in {1, row[f]} :
             Send(f, c, op, n) /\ UNCHANGED hold
  BY <1>2, <1>3, <1>4, <1>5, SendStep
<1>6. CASE /\ at[f] \in {"COMMIT", "ROLLBACK"} /\ (at[f] = "COMMIT" => ImplicitBegin)
           /\ Finish(f, ans[f]) /\ Return(c)
  <2>1. ClosesBroken => session[c] = "none"
    BY <1>2, <1>3, <1>6, Answer, BackendFacts
  <2>2. at'[f] = "done" /\ \A g \in Calls \ {f} : at'[g] = at[g] /\ ans'[g] = ans[g]
    BY <1>1, <1>6 DEF Finish, TypeOK
  <2> QED
    BY <1>2, <1>3, <1>6, <2>1, <2>2, OverReturn
<1> QED
  BY <1>5, <1>6 DEF ScriptReply

\* A cancelled call leaves its connection to the drop guard.
LEMMA CancelStep ==
  ASSUME IInv, TypeOK', CallShape', NEW f \in Calls, Cancel(f)
  PROVE  ConnInv'
<1>1. TypeOK /\ CallShape
  BY DEF IInv
<1>2. /\ Cancellable(f) /\ UNCHANGED <<kind, tx, session, work, failed, alive>>
      /\ at'[f] = "cancelled"
      /\ \A g \in Calls \ {f} : at'[g] = at[g] /\ ans'[g] = ans[g]
  BY <1>1 DEF Cancel, TypeOK
<1>3. CASE at[f] \in {"get", "lock"} \/ kind[f] = "stmt"
  <2>1. UNCHANGED connVars
    BY <1>2, <1>3 DEF Cancel, connVars
  <2>2. at[f] = "lock" => kind[f] \notin Pooled
    BY <1>1, KindAt DEF Pooled
  <2>3. kind[f] = "stmt" => at[f] \in {"lock", "WRITE"} /\ kind[f] \notin Pooled
    BY <1>1, <1>2 DEF Cancellable, CallShape, Pooled, Awaited
  <2> QED
    BY <1>2, <1>3, <2>1, <2>2, <2>3, LocalStep
<1>4. CASE ~(at[f] \in {"get", "lock"} \/ kind[f] = "stmt")
  <2>1. at[f] \in Awaited /\ kind[f] \in {"begin", "commit", "rollback", "auto", "many"}
    BY <1>1, <1>2, <1>4, KindAt, AwaitedPlaces DEF Cancellable, Kinds
  <2>2. PICK c \in Conns :
          hold[c] = tx[f] /\ IF kind[f] = "auto" THEN Return(c) ELSE DropTx(tx[f], c, "Active")
    BY <1>4 DEF Cancel
  <2>3. kind[f] \in Pooled => tx[f] = f /\ \A g \in Calls \ {f} : tx[g] # f
    <3>1. kind[f] = "begin" => at[f] \notin {"handle", "droplock", "ROLLBACK", "done"}
      BY <1>2, <2>1, AwaitedPlaces DEF Cancellable, Awaited
    <3> QED
      BY <3>1, Alone
  <2>4. CASE kind[f] = "auto"
    <3>1. kind[f] \in Pooled /\ at[f] # "BEGIN"
      BY <1>1, <2>4 DEF Pooled, CallShape
    <3>2. ClosesBroken => session[c] = "none"
      BY <2>2, <2>3, <2>4, <3>1, BackendFacts DEF IInv, AutoClean
    <3> QED
      BY <1>2, <2>2, <2>3, <2>4, <3>1, <3>2, OverReturn
  <2>5. CASE kind[f] # "auto"
    <3>1. tx[f] \in Calls
      BY <1>1 DEF TypeOK
    <3>2. \A i \in DOMAIN wire[c] : wire[c][i].f # f => at[wire[c][i].f] # wire[c][i].op
      <4>1. CASE kind[f] \in Pooled
        BY <2>2, <2>3, <4>1, OnlyMine
      <4>2. CASE kind[f] \in {"commit", "rollback"}
        <5>1. at[f] \in {"COMMIT", "ROLLBACK"}
          BY <2>1, <4>2, <1>1 DEF CallShape, Awaited
        <5>2. wire[c] # <<>> => wire[c][Len(wire[c])].f = f
          BY <2>2, <5>1 DEF IInv, ControlLast
        <5>3. \A i \in DOMAIN wire[c] : at[wire[c][i].f] = wire[c][i].op => i = Len(wire[c])
          BY DEF IInv, WireShape
        <5>4. DOMAIN wire[c] = 1 .. Len(wire[c]) /\ wire[c] \in Seq(Request)
          BY <1>1, WireRequest
        <5> QED
          BY <5>2, <5>3, <5>4
      <4> QED
        BY <2>1, <4>1, <4>2 DEF Pooled
    <3>3. /\ \A d \in Conns \ {c} : hold'[d] = hold[d] /\ wire'[d] = wire[d]
          /\ \/ /\ hold'[c] = "guard" /\ alive[c]
                /\ wire'[c] = Append(wire[c], [op |-> "GUARD", f |-> tx[f], n |-> 0])
             \/ hold'[c] = "closed" /\ wire'[c] = wire[c]
             \/ /\ hold'[c] = "pool" /\ wire'[c] = wire[c]
                /\ \A i \in DOMAIN wire[c] : wire[c][i].op # "BEGIN"
                /\ ClosesBroken => session[c] = "none"
      BY <2>2, <2>5, <3>1, DropTxShape
    <3> QED
      BY <1>2, <2>2, <3>2, <3>3, GiveUpStep
  <2> QED
    BY <2>4, <2>5
<1> QED
  BY <1>3, <1>4

\* Closing the pool closes idle connections only.
LEMMA CloseStep ==
  ASSUME IInv, TypeOK', CallShape', Close
  PROVE  ConnInv'
<1> USE NoSuchCall
<1>1. TypeOK
  BY DEF IInv
<1>2. /\ UNCHANGED <<kind, tx, at, ans, wire, session, alive>>
      /\ \A c \in Conns : hold'[c] = IF hold[c] = "pool" THEN "closed" ELSE hold[c]
  BY DEF Close, callVars
<1>3. Ownership' /\ DeadIsEmpty'
  BY <1>2 DEF IInv, Ownership, DeadIsEmpty
<1>4. WireShape'
  BY <1>1, <1>2, WireRequest DEF IInv, WireShape, TypeOK
<1>5. ControlLast'
  BY <1>1, <1>2 DEF IInv, ControlLast, TypeOK
<1>6. GuardLast'
  BY <1>2 DEF IInv, GuardLast
<1>7. AutoClean' /\ PoolClean'
  BY <1>2 DEF IInv, AutoClean, PoolClean
<1>8. OwnRequests'
  BY <1>2 DEF IInv, OwnRequests
<1>9. OwnSession'
  BY <1>2 DEF IInv, OwnSession
<1> QED
  BY <1>3, <1>4, <1>5, <1>6, <1>7, <1>8, <1>9 DEF ConnInv

\* The server forgets a closed connection.
LEMMA HangupStep ==
  ASSUME IInv, TypeOK', CallShape', NEW c \in Conns, Hangup(c)
  PROVE  ConnInv'
<1> USE NoSuchCall
<1>1. TypeOK
  BY DEF IInv
<1>2. /\ UNCHANGED <<kind, tx, at, ans, hold, alive>> /\ hold[c] = "closed"
      /\ wire'[c] = <<>> /\ session'[c] = "none"
      /\ \A d \in Conns \ {c} : wire'[d] = wire[d] /\ session'[d] = session[d]
  BY <1>1 DEF Hangup, EndSession, callVars, TypeOK
<1>3. Ownership'
  BY <1>2 DEF IInv, Ownership
<1>4. DeadIsEmpty'
  BY <1>2 DEF IInv, DeadIsEmpty
<1>5. ASSUME NEW d \in Conns, NEW i \in DOMAIN wire'[d]
      PROVE  d # c /\ wire'[d] = wire[d]
  BY <1>2
<1>6. WireShape'
  BY <1>2, <1>5 DEF IInv, WireShape
<1>7. ControlLast'
  <2> SUFFICES ASSUME NEW d \in Conns, NEW g \in Calls,
                      at[g] \in {"COMMIT", "ROLLBACK"}, hold[d] = tx[g]
               PROVE  d # c /\ wire'[d] = wire[d] /\ session'[d] = session[d]
    BY <1>2 DEF IInv, ControlLast
  <2> QED
    BY <1>1, <1>2 DEF TypeOK
<1>8. GuardLast'
  BY <1>2 DEF IInv, GuardLast
<1>9. AutoClean' /\ PoolClean'
  BY <1>2 DEF IInv, AutoClean, PoolClean
<1>10. OwnRequests'
  BY <1>2, <1>5 DEF IInv, OwnRequests
<1>11. OwnSession'
  BY <1>2, <1>5 DEF IInv, OwnSession
<1> QED
  BY <1>3, <1>4, <1>6, <1>7, <1>8, <1>9, <1>10, <1>11 DEF ConnInv

\* A connection is handed out with nothing open on it.
LEMMA CheckoutStep ==
  ASSUME IInv, TypeOK', CallShape', NEW f \in Calls, NEW c \in Conns, Checkout(f, c)
  PROVE  ConnInv'
<1> USE NoSuchCall, AwaitedPlaces
<1>1. TypeOK /\ CallShape /\ Ownership
  BY DEF IInv
<1>2. at[f] = "get" /\ hold[c] \in {"pool", "closed"} /\ UNCHANGED <<kind, tx>>
      /\ hold' = [hold EXCEPT ![c] = f]
  BY DEF Checkout
<1>3. /\ kind[f] \in Pooled /\ tx[f] = f /\ \A g \in Calls \ {f} : tx[g] # f
  BY <1>1, <1>2, KindAt, Alone
<1>4. \A d \in Conns : hold[d] # f
  BY <1>1, <1>2 DEF Ownership
<1>5. ASSUME NEW d \in Conns, NEW i \in DOMAIN wire[d] PROVE wire[d][i].f # f
  BY <1>2, WireRequest DEF IInv, WireShape
<1>6. PICK op \in {"handle", "BEGIN", "WRITE"} :
        /\ at' = [at EXCEPT ![f] = op]
        /\ wire' = IF op = "handle" THEN wire
                     ELSE [wire EXCEPT ![c] = Append(@, [op |-> op, f |-> f, n |-> row'[f]])]
        /\ ans' = [ans EXCEPT ![f] = "none"]
  BY DEF Checkout, Opening
<1>7. /\ at'[f] = op /\ ans'[f] = "none" /\ \A g \in Calls \ {f} : at'[g] = at[g] /\ ans'[g] = ans[g]
      /\ hold'[c] = f /\ \A d \in Conns \ {c} : hold'[d] = hold[d] /\ wire'[d] = wire[d]
  BY <1>1, <1>2, <1>6 DEF TypeOK
<1>8. /\ alive'[c] = TRUE /\ session'[c] = "none"
      /\ \A d \in Conns \ {c} : alive'[d] = alive[d] /\ session'[d] = session[d]
      /\ hold[c] = "closed" => wire[c] = <<>>
      /\ ImplicitBegin => wire[c] = <<>>
  <2>1. CASE hold[c] = "closed" \/ ~alive[c]
    <3>1. /\ wire[c] = <<>> /\ session[c] = "none" /\ session' = session
          /\ alive' = [alive EXCEPT ![c] = TRUE]
      BY <2>1 DEF Checkout
    <3> QED
      BY <1>1, <3>1 DEF TypeOK
  <2>2. CASE ~(hold[c] = "closed" \/ ~alive[c]) /\ RollsBackOnCheckout
    <3>1. wire[c] = <<>> /\ EndSession(c) /\ alive' = alive
      BY <2>2 DEF Checkout
    <3> QED
      BY <1>1, <2>2, <3>1 DEF TypeOK, EndSession
  <2>3. CASE ~(hold[c] = "closed" \/ ~alive[c]) /\ ~RollsBackOnCheckout
    <3>1. session' = session /\ alive' = alive
      BY <2>3 DEF Checkout
    <3>2. ClosesBroken /\ ~ImplicitBegin
      BY <2>3, BackendFacts
    <3> QED
      BY <1>1, <1>2, <2>3, <3>1, <3>2 DEF TypeOK, IInv, PoolClean
  <2> QED
    BY <2>1, <2>2, <2>3
<1> DEFINE e == [op |-> op, f |-> f, n |-> row'[f]]
<1>9. op # "handle" =>
        /\ e \in Request /\ e.f = f /\ e.op = op
        /\ Len(wire'[c]) = Len(wire[c]) + 1 /\ DOMAIN wire'[c] = 1 .. Len(wire[c]) + 1
        /\ \A j \in 1 .. Len(wire[c]) : wire'[c][j] = wire[c][j]
        /\ wire'[c][Len(wire[c]) + 1] = e
  <2> SUFFICES ASSUME op # "handle"
               PROVE  /\ e \in Request /\ e.f = f /\ e.op = op
                      /\ Len(wire'[c]) = Len(wire[c]) + 1 /\ DOMAIN wire'[c] = 1 .. Len(wire[c]) + 1
                      /\ \A j \in 1 .. Len(wire[c]) : wire'[c][j] = wire[c][j]
                      /\ wire'[c][Len(wire[c]) + 1] = e
    OBVIOUS
  <2>1. e \in Request /\ e.f = f /\ e.op = op
    BY DEF TypeOK, Request, Awaited
  <2>2. wire'[c] = Append(wire[c], e) /\ wire[c] \in Seq(Request)
    BY <1>1, <1>6 DEF TypeOK
  <2> HIDE DEF e
  <2> QED
    BY <2>1, <2>2, AppendLast
<1> HIDE DEF e
<1>10. ASSUME NEW d \in Conns, NEW i \in DOMAIN wire'[d]
       PROVE  \/ i \in DOMAIN wire[d] /\ wire'[d][i] = wire[d][i] /\ (d # c => wire'[d] = wire[d])
              \/ /\ d = c /\ op # "handle" /\ i = Len(wire'[c]) /\ wire'[d][i] = e
                 /\ e.f = f /\ e.op = op
  <2>1. wire[c] \in Seq(Request) /\ DOMAIN wire[c] = 1 .. Len(wire[c]) /\ Len(wire[c]) \in Nat
    BY <1>1, WireRequest
  <2>2. CASE op = "handle"
    BY <1>6, <2>2
  <2>3. CASE op # "handle"
    BY <1>7, <1>9, <2>1, <2>3
  <2> QED
    BY <2>2, <2>3
<1>11. Ownership'
  BY <1>1, <1>2, <1>3, <1>4, <1>7 DEF Ownership
<1>12. DeadIsEmpty'
  BY <1>7, <1>8 DEF IInv, DeadIsEmpty
<1>13. WireShape'
  <2> SUFFICES ASSUME NEW d \in Conns, NEW i \in DOMAIN wire'[d], NEW q, q = wire'[d][i]
               PROVE  /\ at'[q.f] \notin {"new", "get", "lock"}
                      /\ q.op # "GUARD" => at'[q.f] \in {q.op, "done", "cancelled"}
                      /\ at'[q.f] = q.op =>
                           i = Len(wire'[d]) /\ ans'[q.f] = "none" /\ hold'[d] = tx[q.f]
                      /\ q.op = "BEGIN" =>
                           hold'[d] \in {"guard", "closed"} \/ (hold'[d] = q.f /\ at'[q.f] = "BEGIN")
                      /\ q.op = "GUARD" => i = Len(wire'[d]) /\ hold'[d] = "guard"
    BY <1>2 DEF WireShape
  <2>1. CASE d = c /\ op # "handle" /\ i = Len(wire'[c]) /\ q = e /\ e.f = f /\ e.op = op
    BY <1>3, <1>7, <2>1
  <2>2. CASE i \in DOMAIN wire[d] /\ q = wire[d][i] /\ (d # c => wire'[d] = wire[d])
    <3>1. /\ at[q.f] \notin {"new", "get", "lock"}
          /\ q.op # "GUARD" => at[q.f] \in {q.op, "done", "cancelled"}
          /\ at[q.f] = q.op => i = Len(wire[d]) /\ ans[q.f] = "none" /\ hold[d] = tx[q.f]
          /\ q.op = "BEGIN" =>
               hold[d] \in {"guard", "closed"} \/ (hold[d] = q.f /\ at[q.f] = "BEGIN")
          /\ q.op = "GUARD" => i = Len(wire[d]) /\ hold[d] = "guard"
      BY <2>2 DEF IInv, WireShape
    <3>2. q.f \in Calls /\ q.f # f /\ q.op \in Awaited \cup {"GUARD"}
      BY <1>1, <1>5, <2>2, WireRequest
    <3>3. at'[q.f] = at[q.f] /\ ans'[q.f] = ans[q.f] /\ tx[q.f] \in Calls
      BY <1>1, <1>7, <3>2 DEF TypeOK
    <3>4. CASE d # c
      BY <1>7, <2>2, <3>1, <3>3, <3>4
    <3>5. CASE d = c
      <4>1. hold[c] = "pool"
        BY <1>2, <1>8, <2>2, <3>5
      <4>2. q.op \notin {"BEGIN", "GUARD"} /\ at[q.f] # q.op
        BY <3>1, <3>2, <3>3, <3>5, <4>1
      <4> QED
        BY <3>1, <3>3, <4>2
    <3> QED
      BY <3>4, <3>5
  <2> QED
    BY <2>1, <2>2, <1>10
<1>14. ControlLast'
  <2> SUFFICES ASSUME NEW d \in Conns, NEW g \in Calls,
                      at'[g] \in {"COMMIT", "ROLLBACK"}, hold'[d] = tx[g]
               PROVE  IF ans'[g] = "none"
                        THEN /\ wire'[d] # <<>>
                             /\ wire'[d][Len(wire'[d])].f = g /\ wire'[d][Len(wire'[d])].op = at'[g]
                        ELSE /\ wire'[d] = <<>>
                             /\ at'[g] = "ROLLBACK" \/ ans'[g] = "ok" => session'[d] = "none"
    BY <1>2 DEF ControlLast
  <2>1. g # f /\ d # c
    BY <1>3, <1>7
  <2>2. /\ wire'[d] = wire[d] /\ hold'[d] = hold[d] /\ at'[g] = at[g] /\ ans'[g] = ans[g]
        /\ session'[d] = session[d]
    BY <1>7, <1>8, <2>1
  <2>3. ControlLast /\ at[g] \in {"COMMIT", "ROLLBACK"} /\ hold[d] = tx[g]
    BY <2>2 DEF IInv
  <2>4. IF ans[g] = "none"
          THEN /\ wire[d] # <<>>
               /\ wire[d][Len(wire[d])].f = g /\ wire[d][Len(wire[d])].op = at[g]
          ELSE wire[d] = <<>> /\ (at[g] = "ROLLBACK" \/ ans[g] = "ok" => session[d] = "none")
    BY <2>3, Zenon DEF ControlLast
  <2> QED
    BY <2>2, <2>4
<1>15. GuardLast'
  BY <1>7 DEF IInv, GuardLast
<1>16. AutoClean'
  BY <1>2, <1>4, <1>7, <1>8 DEF IInv, AutoClean
<1>17. PoolClean'
  BY <1>7, <1>8 DEF IInv, PoolClean
<1>18. OwnRequests'
  BY <1>2, <1>3, <1>7, <1>8, <1>10 DEF IInv, OwnRequests
<1>19. OwnSession'
  <2> SUFFICES ASSUME NEW d \in Conns, hold'[d] \in Calls
               PROVE  /\ session'[d] \in {"none", hold'[d]}
                      /\ \A i \in DOMAIN wire'[d] : wire'[d][i].op = "BEGIN" => wire'[d][i].f = hold'[d]
    BY DEF OwnSession
  <2>1. CASE d # c
    BY <1>7, <1>8, <2>1 DEF IInv, OwnSession
  <2>2. CASE d = c
    <3>1. \A i \in DOMAIN wire[c] : wire[c][i].op # "BEGIN"
      BY <1>1, <1>2, <1>8, WireRequest DEF IInv, WireShape
    <3> QED
      BY <1>7, <1>8, <1>10, <2>2, <3>1
  <2> QED
    BY <2>1, <2>2
<1> QED
  BY <1>11, <1>12, <1>13, <1>14, <1>15, <1>16, <1>17, <1>18, <1>19 DEF ConnInv

\* A lost connection has no session and no requests left.
LEMMA LoseStep ==
  ASSUME IInv, TypeOK', CallShape', NEW c \in Conns, Lose(c)
  PROVE  ConnInv'
<1> USE NoSuchCall
<1>1. TypeOK /\ Ownership /\ ControlLast
  BY DEF IInv
<1>2. /\ UNCHANGED <<kind, tx, at>> /\ hold[c] # "closed"
      /\ wire'[c] = <<>> /\ session'[c] = "none"
      /\ hold'[c] = hold[c] \/ (hold[c] = "guard" /\ hold'[c] \in {"pool", "closed"})
      /\ \A d \in Conns \ {c} : /\ wire'[d] = wire[d] /\ session'[d] = session[d]
                                /\ hold'[d] = hold[d] /\ alive'[d] = alive[d]
  BY <1>1 DEF Lose, EndSession, ReturnTo, TypeOK
<1>3. ASSUME NEW g \in Calls
      PROVE  \/ ans'[g] = ans[g] /\ \A i \in DOMAIN wire[c] : wire[c][i].f = g => at[g] # wire[c][i].op
             \/ ans'[g] = "err" /\ hold[c] = tx[g]
  <2>1. ans'[g] = IF \E i \in DOMAIN wire[c] : wire[c][i].f = g /\ wire[c][i].op = at[g]
                  THEN "err" ELSE ans[g]
    BY DEF Lose
  <2> QED
    BY <2>1 DEF IInv, WireShape
<1>4. \A d \in Conns \ {c} : hold[d] \in Calls => hold[d] # hold[c]
  BY <1>1 DEF Ownership
<1>5. ASSUME NEW d \in Conns, NEW i \in DOMAIN wire'[d]
      PROVE  d # c /\ wire'[d] = wire[d]
  BY <1>2
<1>6. Ownership'
  BY <1>1, <1>2 DEF Ownership
<1>7. DeadIsEmpty'
  BY <1>2 DEF IInv, DeadIsEmpty
<1>8. WireShape'
  <2> SUFFICES ASSUME NEW d \in Conns, NEW i \in DOMAIN wire'[d], NEW q, q = wire'[d][i]
               PROVE  /\ at[q.f] \notin {"new", "get", "lock"}
                      /\ q.op # "GUARD" => at[q.f] \in {q.op, "done", "cancelled"}
                      /\ at[q.f] = q.op =>
                           i = Len(wire'[d]) /\ ans'[q.f] = "none" /\ hold'[d] = tx[q.f]
                      /\ q.op = "BEGIN" =>
                           hold'[d] \in {"guard", "closed"} \/ (hold'[d] = q.f /\ at[q.f] = "BEGIN")
                      /\ q.op = "GUARD" => i = Len(wire'[d]) /\ hold'[d] = "guard"
    BY <1>2 DEF WireShape
  <2>1. d # c /\ wire'[d] = wire[d] /\ hold'[d] = hold[d]
    BY <1>2, <1>5
  <2>2. /\ at[q.f] \notin {"new", "get", "lock"}
        /\ q.op # "GUARD" => at[q.f] \in {q.op, "done", "cancelled"}
        /\ at[q.f] = q.op => i = Len(wire[d]) /\ ans[q.f] = "none" /\ hold[d] = tx[q.f]
        /\ q.op = "BEGIN" =>
             hold[d] \in {"guard", "closed"} \/ (hold[d] = q.f /\ at[q.f] = "BEGIN")
        /\ q.op = "GUARD" => i = Len(wire[d]) /\ hold[d] = "guard"
    BY <2>1 DEF IInv, WireShape
  <2>3. q.f \in Calls /\ tx[q.f] \in Calls
    BY <1>1, <2>1, WireRequest DEF TypeOK
  <2>4. at[q.f] = q.op => ans'[q.f] = ans[q.f]
    BY <1>3, <1>4, <2>1, <2>2, <2>3
  <2> QED
    BY <2>1, <2>2, <2>4
<1>9. ControlLast'
  <2> SUFFICES ASSUME NEW d \in Conns, NEW g \in Calls,
                      at[g] \in {"COMMIT", "ROLLBACK"}, hold'[d] = tx[g]
               PROVE  IF ans'[g] = "none"
                        THEN /\ wire'[d] # <<>>
                             /\ wire'[d][Len(wire'[d])].f = g /\ wire'[d][Len(wire'[d])].op = at[g]
                        ELSE /\ wire'[d] = <<>>
                             /\ at[g] = "ROLLBACK" \/ ans'[g] = "ok" => session'[d] = "none"
    BY <1>2 DEF ControlLast
  <2>1. tx[g] \in Calls /\ hold[d] = tx[g]
    BY <1>1, <1>2 DEF TypeOK
  <2>2. IF ans[g] = "none"
          THEN /\ wire[d] # <<>>
               /\ wire[d][Len(wire[d])].f = g /\ wire[d][Len(wire[d])].op = at[g]
          ELSE wire[d] = <<>> /\ (at[g] = "ROLLBACK" \/ ans[g] = "ok" => session[d] = "none")
    BY <1>1, <2>1, Zenon DEF ControlLast
  <2>3. CASE d = c
    <3>1. ans'[g] # "none"
      <4>1. CASE ans[g] = "none"
        <5>1. Len(wire[c]) \in DOMAIN wire[c]
          BY <1>1, <2>2, <2>3, <4>1, WireRequest
        <5> QED
          BY <1>3, <2>2, <2>3, <4>1, <5>1
      <4>2. CASE ans[g] # "none"
        BY <1>3, <4>2
      <4> QED
        BY <4>1, <4>2
    <3> QED
      BY <1>2, <2>3, <3>1
  <2>4. CASE d # c
    <3>1. ans'[g] = ans[g] /\ wire'[d] = wire[d] /\ session'[d] = session[d]
      BY <1>2, <1>3, <1>4, <2>1, <2>4
    <3> QED
      BY <2>2, <3>1
  <2> QED
    BY <2>3, <2>4
<1>10. GuardLast'
  <2> SUFFICES ASSUME NEW d \in Conns, hold'[d] = "guard"
               PROVE  wire'[d] # <<>> /\ wire'[d][Len(wire'[d])].op = "GUARD"
    BY DEF GuardLast
  <2>1. d # c
    BY <1>1, <1>2 DEF Lose, ReturnTo, TypeOK
  <2> QED
    BY <1>2, <2>1 DEF IInv, GuardLast
<1>11. AutoClean'
  <2> SUFFICES ASSUME NEW d \in Conns, hold'[d] \in Calls, d # c
               PROVE  /\ ~ImplicitBegin /\ kind[hold[d]] = "auto" => session[d] = "none"
                      /\ Backend = "sqlite" /\ kind[hold[d]] = "many" =>
                           (at[hold[d]] = "BEGIN" /\ ans'[hold[d]] # "ok" => session[d] = "none")
    BY <1>2 DEF AutoClean
  <2>1. hold[d] \in Calls /\ hold[d] # hold[c]
    BY <1>2, <1>4
  <2>2. kind[hold[d]] = "many" => tx[hold[d]] = hold[d]
    BY <1>1, <2>1 DEF IInv, CallShape, Pooled
  <2>3. kind[hold[d]] = "many" => ans'[hold[d]] = ans[hold[d]]
    BY <1>3, <2>1, <2>2
  <2> QED
    BY <2>1, <2>3 DEF IInv, AutoClean
<1>12. PoolClean'
  BY <1>2 DEF IInv, PoolClean
<1>13. OwnRequests'
  BY <1>2, <1>5 DEF IInv, OwnRequests
<1>14. OwnSession'
  BY <1>2, <1>5 DEF IInv, OwnSession
<1> QED
  BY <1>6, <1>7, <1>8, <1>9, <1>10, <1>11, <1>12, <1>13, <1>14 DEF ConnInv

\* The database serves the oldest request of a connection.
LEMMA ExecStep ==
  ASSUME IInv, TypeOK', CallShape', InOrder, NEW c \in Conns, Exec(c)
  PROVE  ConnInv'
<1> USE NoSuchCall, AwaitedPlaces
<1>1. TypeOK /\ CallShape /\ Ownership /\ ControlLast
  BY DEF IInv
<1>2. PICK r \in {"ok", "err"} :
        /\ 1 \in DOMAIN wire[c] /\ Serve(c, 1, r) /\ Run(c, wire[c][1], r)
        /\ UNCHANGED <<kind, tx, at, row, alive, closed>>
  BY DEF Exec, Serve
<1> DEFINE q == wire[c][1]
<1>3. /\ q.f \in Calls /\ q.op \in Awaited \cup {"GUARD"} /\ tx[q.f] \in Calls
      /\ wire[c] \in Seq(Request) /\ Len(wire[c]) \in Nat \ {0}
      /\ DOMAIN wire[c] = 1 .. Len(wire[c])
  BY <1>1, <1>2, WireRequest DEF TypeOK
<1>4. /\ at[q.f] \notin {"new", "get", "lock"}
      /\ at[q.f] = q.op => 1 = Len(wire[c]) /\ ans[q.f] = "none" /\ hold[c] = tx[q.f]
      /\ q.op = "BEGIN" =>
           hold[c] \in {"guard", "closed"} \/ (hold[c] = q.f /\ at[q.f] = "BEGIN")
      /\ q.op = "GUARD" => 1 = Len(wire[c]) /\ hold[c] = "guard"
  <2>1. PICK i \in DOMAIN wire[c] : i = 1
    BY <1>2
  <2>2. /\ at[wire[c][i].f] \notin {"new", "get", "lock"}
        /\ at[wire[c][i].f] = wire[c][i].op =>
             i = Len(wire[c]) /\ ans[wire[c][i].f] = "none" /\ hold[c] = tx[wire[c][i].f]
        /\ wire[c][i].op = "BEGIN" => \/ hold[c] \in {"guard", "closed"}
                                      \/ hold[c] = wire[c][i].f /\ at[wire[c][i].f] = "BEGIN"
        /\ wire[c][i].op = "GUARD" => i = Len(wire[c]) /\ hold[c] = "guard"
    BY DEF IInv, WireShape
  <2> QED
    BY <2>1, <2>2
<1>0. Len(wire[c]) = 1 \/ (Len(wire[c]) > 1 /\ Len(wire[c]) # 1)
  <2>1. \A n \in Nat \ {0} : n = 1 \/ (n > 1 /\ n # 1)
    OBVIOUS
  <2> QED
    BY <1>3, <2>1, Zenon
<1>5. /\ wire'[c] \in Seq(Request) /\ Len(wire'[c]) = Len(wire[c]) - 1
      /\ \A j \in 1 .. Len(wire'[c]) : wire'[c][j] = wire[c][j + 1]
      /\ \A d \in Conns \ {c} : wire'[d] = wire[d]
  <2>1. /\ wire'[c] = SubSeq(wire[c], 1, 1 - 1) \o SubSeq(wire[c], 1 + 1, Len(wire[c]))
        /\ \A d \in Conns \ {c} : wire'[d] = wire[d]
    BY <1>1, <1>2 DEF Serve, TypeOK
  <2>2. /\ wire'[c] \in Seq(Request) /\ Len(wire'[c]) = Len(wire[c]) - 1
        /\ \A j \in 1 .. Len(wire'[c]) : wire'[c][j] = IF j < 1 THEN wire[c][j] ELSE wire[c][j + 1]
    BY <1>2, <1>3, <2>1, RemoveAt
  <2> QED
    BY <2>1, <2>2
<1>6. ASSUME NEW d \in Conns, NEW j \in DOMAIN wire'[d]
      PROVE  \/ d # c /\ wire'[d] = wire[d]
             \/ /\ d = c /\ j + 1 \in DOMAIN wire[c] /\ wire'[c][j] = wire[c][j + 1]
                /\ Len(wire'[c]) = Len(wire[c]) - 1 /\ Len(wire[c]) > 1
                /\ (j = Len(wire'[c]) <=> j + 1 = Len(wire[c]))
  <2>1. CASE d # c
    BY <1>5, <2>1
  <2>2. CASE d = c
    <3>1. j \in 1 .. Len(wire'[c])
      BY <1>5, <2>2
    <3>2. Len(wire[c]) \in Nat /\ Len(wire'[c]) = Len(wire[c]) - 1 /\ wire'[c][j] = wire[c][j + 1]
      BY <1>3, <1>5, <3>1
    <3>3. j + 1 \in 1 .. Len(wire[c]) /\ Len(wire[c]) > 1
          /\ (j = Len(wire'[c]) <=> j + 1 = Len(wire[c]))
      BY <3>1, <3>2
    <3> QED
      BY <1>3, <2>2, <3>2, <3>3
  <2> QED
    BY <2>1, <2>2
<1>7. ASSUME NEW g \in Calls
      PROVE  \/ ans'[g] = ans[g] /\ ~(g = q.f /\ at[g] = q.op)
             \/ /\ g = q.f /\ at[g] = q.op /\ ans'[g] = r /\ ans[g] = "none"
                /\ Len(wire[c]) = 1 /\ hold[c] = tx[g]
  BY <1>1, <1>2, <1>4 DEF Serve, TypeOK
<1>8. /\ \A d \in Conns \ {c} : session'[d] = session[d] /\ hold'[d] = hold[d]
      /\ \/ hold'[c] = hold[c] /\ q.op # "GUARD"
         \/ /\ q.op = "GUARD" /\ hold[c] = "guard" /\ hold'[c] \in {"pool", "closed"}
            /\ session'[c] = "none"
      /\ \/ session'[c] \in {session[c], "none"}
         \/ /\ session'[c] = tx[q.f]
            /\ (q.op = "BEGIN" /\ r = "ok") \/ (q.op = "WRITE" /\ ImplicitBegin)
      /\ q.op = "ROLLBACK" \/ (q.op = "COMMIT" /\ r = "ok") => session'[c] = "none"
  <2>1. CASE RunBegin(c, q, r)
    BY <1>1, <2>1 DEF RunBegin, TypeOK
  <2>2. CASE RunWrite(c, q, r)
    <3>1. CASE session[c] # "none" \/ ImplicitBegin
      <4>1. /\ q.op = "WRITE" /\ UNCHANGED hold
            /\ session' = [session EXCEPT ![c] = IF @ = "none" THEN tx[q.f] ELSE @]
        BY <2>2, <3>1 DEF RunWrite
      <4> QED
        BY <1>1, <3>1, <4>1 DEF TypeOK
    <3>2. CASE ~(session[c] # "none" \/ ImplicitBegin)
      BY <1>1, <2>2, <3>2 DEF RunWrite, TypeOK
    <3> QED
      BY <3>1, <3>2
  <2>3. CASE RunWriteFails(c, q, r)
    BY <2>3 DEF RunWriteFails
  <2>4. CASE RunCommit(c, q, r)
    BY <1>1, <1>2, <2>4 DEF RunCommit, EndSession, TypeOK
  <2>5. CASE RunRollback(c, q, r)
    BY <1>1, <2>5 DEF RunRollback, EndSession, TypeOK
  <2>6. CASE RunGuard(c, q, r)
    <3>1. q.op = "GUARD" /\ hold[c] = "guard"
      BY <1>4, <2>6 DEF RunGuard
    <3> QED
      BY <1>1, <2>6, <3>1 DEF RunGuard, EndSession, ReturnTo, TypeOK
  <2> QED
    BY <1>2, <2>1, <2>2, <2>3, <2>4, <2>5, <2>6 DEF Run
<1>9. alive[c]
  <2>1. wire[c] # <<>>
    BY <1>3
  <2> QED
    BY <1>1, <2>1 DEF IInv, DeadIsEmpty
<1> HIDE DEF q
<1>10. \A d \in Conns \ {c} : hold[d] \in Calls => hold[d] # hold[c]
  BY <1>1 DEF Ownership
<1>11. Ownership'
  BY <1>1, <1>2, <1>8 DEF Ownership
<1>12. DeadIsEmpty'
  BY <1>2, <1>5, <1>8, <1>9 DEF IInv, DeadIsEmpty
<1>13. WireShape'
  <2> SUFFICES ASSUME NEW d \in Conns, NEW i \in DOMAIN wire'[d], NEW p, p = wire'[d][i]
               PROVE  /\ at[p.f] \notin {"new", "get", "lock"}
                      /\ p.op # "GUARD" => at[p.f] \in {p.op, "done", "cancelled"}
                      /\ at[p.f] = p.op =>
                           i = Len(wire'[d]) /\ ans'[p.f] = "none" /\ hold'[d] = tx[p.f]
                      /\ p.op = "BEGIN" =>
                           hold'[d] \in {"guard", "closed"} \/ (hold'[d] = p.f /\ at[p.f] = "BEGIN")
                      /\ p.op = "GUARD" => i = Len(wire'[d]) /\ hold'[d] = "guard"
    BY <1>2 DEF WireShape
  <2>1. CASE d # c /\ wire'[d] = wire[d]
    <3>1. /\ at[p.f] \notin {"new", "get", "lock"}
          /\ p.op # "GUARD" => at[p.f] \in {p.op, "done", "cancelled"}
          /\ at[p.f] = p.op => i = Len(wire[d]) /\ ans[p.f] = "none" /\ hold[d] = tx[p.f]
          /\ p.op = "BEGIN" =>
               hold[d] \in {"guard", "closed"} \/ (hold[d] = p.f /\ at[p.f] = "BEGIN")
          /\ p.op = "GUARD" => i = Len(wire[d]) /\ hold[d] = "guard"
      BY <2>1 DEF IInv, WireShape
    <3>2. p.f \in Calls /\ tx[p.f] \in Calls
      BY <1>1, <2>1, WireRequest DEF TypeOK
    <3>3. at[p.f] = p.op => ans'[p.f] = ans[p.f]
      BY <1>7, <1>10, <2>1, <3>1, <3>2
    <3> QED
      BY <1>8, <2>1, <3>1, <3>3
  <2>2. CASE /\ d = c /\ i + 1 \in DOMAIN wire[c] /\ wire'[c][i] = wire[c][i + 1]
             /\ Len(wire'[c]) = Len(wire[c]) - 1 /\ Len(wire[c]) > 1
             /\ (i = Len(wire'[c]) <=> i + 1 = Len(wire[c]))
    <3>1. /\ at[p.f] \notin {"new", "get", "lock"}
          /\ p.op # "GUARD" => at[p.f] \in {p.op, "done", "cancelled"}
          /\ at[p.f] = p.op => i + 1 = Len(wire[c]) /\ ans[p.f] = "none" /\ hold[c] = tx[p.f]
          /\ p.op = "BEGIN" =>
               hold[c] \in {"guard", "closed"} \/ (hold[c] = p.f /\ at[p.f] = "BEGIN")
          /\ p.op = "GUARD" => i + 1 = Len(wire[c]) /\ hold[c] = "guard"
      BY <2>2 DEF IInv, WireShape
    <3>2. p.f \in Calls
      BY <1>1, <2>2, WireRequest
    <3>3. q.op # "GUARD" /\ hold'[c] = hold[c]
      BY <1>4, <1>8, <2>2 DEF q
    <3>4. ans'[p.f] = ans[p.f]
      BY <1>7, <2>2, <3>2
    <3> QED
      BY <2>2, <3>1, <3>3, <3>4
  <2> QED
    BY <2>1, <2>2, <1>6
<1>14. ControlLast'
  <2> SUFFICES ASSUME NEW d \in Conns, NEW g \in Calls,
                      at[g] \in {"COMMIT", "ROLLBACK"}, hold'[d] = tx[g]
               PROVE  IF ans'[g] = "none"
                        THEN /\ wire'[d] # <<>>
                             /\ wire'[d][Len(wire'[d])].f = g /\ wire'[d][Len(wire'[d])].op = at[g]
                        ELSE /\ wire'[d] = <<>>
                             /\ at[g] = "ROLLBACK" \/ ans'[g] = "ok" => session'[d] = "none"
    BY <1>2 DEF ControlLast
  <2>1. tx[g] \in Calls /\ hold[d] = tx[g]
    BY <1>1, <1>8 DEF TypeOK
  <2>2. IF ans[g] = "none"
          THEN /\ wire[d] # <<>>
               /\ wire[d][Len(wire[d])].f = g /\ wire[d][Len(wire[d])].op = at[g]
          ELSE wire[d] = <<>> /\ (at[g] = "ROLLBACK" \/ ans[g] = "ok" => session[d] = "none")
    BY <1>1, <2>1, Zenon DEF ControlLast
  <2>3. CASE d # c
    <3>1. ans'[g] = ans[g] /\ wire'[d] = wire[d] /\ session'[d] = session[d]
      BY <1>5, <1>7, <1>8, <1>10, <2>1, <2>3
    <3> QED
      BY <2>2, <3>1
  <2>4. CASE d = c /\ Len(wire[c]) > 1 /\ Len(wire[c]) # 1
    <3>1. ans'[g] = ans[g]
      BY <1>7, <2>4
    <3>2. wire[c] # <<>> /\ wire'[c] # <<>> /\ wire'[c][Len(wire'[c])] = wire[c][Len(wire[c])]
      BY <1>3, <1>5, <2>4
    <3> QED
      BY <2>2, <2>4, <3>1, <3>2
  <2>5. CASE d = c /\ Len(wire[c]) = 1
    <3>1. wire[c] # <<>> /\ wire'[c] = <<>>
      BY <1>3, <1>5, <2>5
    <3>2. q.f = g /\ q.op = at[g]
      BY <2>2, <2>5, <3>1 DEF q
    <3>3. ans'[g] = r
      BY <1>7, <3>2
    <3> QED
      BY <1>8, <2>5, <3>1, <3>2, <3>3
  <2> QED
    BY <1>0, <2>3, <2>4, <2>5
<1>15. GuardLast'
  <2> SUFFICES ASSUME NEW d \in Conns, hold'[d] = "guard"
               PROVE  wire'[d] # <<>> /\ wire'[d][Len(wire'[d])].op = "GUARD"
    BY DEF GuardLast
  <2>1. CASE d # c
    BY <1>5, <1>8, <2>1 DEF IInv, GuardLast
  <2>2. CASE d = c
    <3>1. hold[c] = "guard" /\ q.op # "GUARD"
      BY <1>8, <2>2
    <3>2. wire[c][Len(wire[c])].op = "GUARD"
      BY <3>1 DEF IInv, GuardLast
    <3>3. Len(wire[c]) > 1
      BY <1>3, <3>1, <3>2 DEF q
    <3> QED
      BY <1>3, <1>5, <2>2, <3>2, <3>3
  <2> QED
    BY <2>1, <2>2
<1>16. AutoClean'
  <2> SUFFICES ASSUME NEW d \in Conns, hold'[d] \in Calls
               PROVE  /\ ~ImplicitBegin /\ kind[hold'[d]] = "auto" => session'[d] = "none"
                      /\ Backend = "sqlite" /\ kind[hold'[d]] = "many" =>
                           (at[hold'[d]] = "BEGIN" /\ ans'[hold'[d]] # "ok" => session'[d] = "none")
    BY <1>2 DEF AutoClean
  <2>1. hold'[d] = hold[d] /\ hold[d] \in Calls
    BY <1>8
  <2>2. ASSUME ~ImplicitBegin, kind[hold[d]] = "auto"
        PROVE  session'[d] = "none"
    <3>1. session[d] = "none"
      BY <2>1, <2>2 DEF IInv, AutoClean
    <3>2. d = c => q.op # "BEGIN"
      BY <1>1, <1>4, <2>1, <2>2 DEF CallShape, q
    <3> QED
      BY <1>8, <2>2, <3>1, <3>2
  <2>3. ASSUME Backend = "sqlite", kind[hold[d]] = "many", at[hold[d]] = "BEGIN", ans'[hold[d]] # "ok"
        PROVE  session'[d] = "none"
    <3>0. ans[hold[d]] # "ok"
      BY <1>7, <2>1, <2>3
    <3>1. session[d] = "none" /\ ~ImplicitBegin
      BY <2>1, <2>3, <3>0 DEF IInv, AutoClean, ImplicitBegin
    <3>2. d = c /\ q.op = "BEGIN" => r # "ok"
      BY <1>3, <1>4, <1>7, <2>1, <2>3
    <3> QED
      BY <1>8, <3>1, <3>2
  <2> QED
    BY <2>1, <2>2, <2>3
<1>17. PoolClean'
  <2> SUFFICES ASSUME ClosesBroken, NEW d \in Conns, hold'[d] = "pool"
               PROVE  session'[d] = "none"
    BY DEF PoolClean
  <2>1. CASE hold[d] = "pool"
    <3>1. session[d] = "none"
      BY <2>1 DEF IInv, PoolClean
    <3>2. d = c => q.op # "BEGIN" /\ ~ImplicitBegin
      BY <1>1, <1>3, <1>4, <2>1, BackendFacts DEF q
    <3> QED
      BY <1>8, <3>1, <3>2
  <2>2. CASE hold[d] # "pool"
    BY <1>8, <2>2
  <2> QED
    BY <2>1, <2>2
<1>18. OwnRequests'
  BY <1>2, <1>6, <1>8 DEF IInv, OwnRequests
<1>19. OwnSession'
  <2> SUFFICES ASSUME NEW d \in Conns, hold'[d] \in Calls
               PROVE  /\ session'[d] \in {"none", hold'[d]}
                      /\ \A i \in DOMAIN wire'[d] : wire'[d][i].op = "BEGIN" => wire'[d][i].f = hold'[d]
    BY DEF OwnSession
  <2>1. hold'[d] = hold[d] /\ session[d] \in {"none", hold[d]}
        /\ \A i \in DOMAIN wire[d] : wire[d][i].op = "BEGIN" => wire[d][i].f = hold[d]
    BY <1>8 DEF IInv, OwnSession
  <2>2. \A i \in DOMAIN wire'[d] : wire'[d][i].op = "BEGIN" => wire'[d][i].f = hold'[d]
    BY <1>6, <2>1
  <2>3. session'[d] \in {"none", hold'[d]}
    <3>1. CASE d # c
      BY <1>8, <2>1, <3>1
    <3>2. CASE d = c
      <4>1. q.op = "BEGIN" => tx[q.f] = hold[c]
        BY <1>1, <1>4, <2>1, <3>2 DEF q, Ownership, CallShape
      <4>2. ImplicitBegin => tx[q.f] = hold[c]
        BY <1>2, <2>1, <3>2 DEF q, IInv, OwnRequests
      <4> QED
        BY <1>8, <2>1, <3>2, <4>1, <4>2
    <3> QED
      BY <3>1, <3>2
  <2> QED
    BY <2>2, <2>3
<1> QED
  BY <1>11, <1>12, <1>13, <1>14, <1>15, <1>16, <1>17, <1>18, <1>19 DEF ConnInv

\* Every step of a backend that serves requests in order keeps the invariant.
LEMMA Inductive == InOrder /\ IInv /\ [Next]_vars => IInv'
<1> SUFFICES ASSUME InOrder, IInv, [Next]_vars PROVE IInv'
  OBVIOUS
<1>1. TypeOK'
  BY TypeStep DEF IInv
<1>2. CASE Next
  <2>1. CallShape'
    BY <1>2, CallShapeStep
  <2>2. ConnInv'
    <3>1. ASSUME NEW f \in Calls, Ask(f) \/ Progress(f) \/ Cancel(f) \/ DropHandle(f) PROVE ConnInv'
      <4>1. CASE Ask(f)
        BY <1>1, <2>1, <4>1, AskStep
      <4>2. CASE Cancel(f)
        BY <1>1, <2>1, <4>2, CancelStep
      <4>3. CASE GetFails(f) \/ StmtReply(f) \/ DropHandle(f)
        BY <1>1, <2>1, <4>3, FinishStep
      <4>4. CASE LockAcquired(f)
        BY <1>1, <2>1, <4>4, LockAcquiredStep
      <4>5. CASE DropTask(f)
        BY <1>1, <2>1, <4>5, DropTaskStep
      <4>6. ASSUME NEW c \in Conns, Checkout(f, c) PROVE ConnInv'
        BY <1>1, <2>1, <4>6, CheckoutStep
      <4>7. ASSUME NEW c \in Conns, Reply(f, c) PROVE ConnInv'
        BY <1>1, <2>1, <4>7, BeginReplyStep, ControlReplyStep, AutoReplyStep, ManyReplyStep,
           ScriptReplyStep
        DEF Reply
      <4> QED
        BY <3>1, <4>1, <4>2, <4>3, <4>4, <4>5, <4>6, <4>7 DEF Progress
    <3>2. ASSUME NEW c \in Conns, Exec(c) \/ Lose(c) \/ Hangup(c) PROVE ConnInv'
      BY <1>1, <2>1, <3>2, ExecStep, LoseStep, HangupStep
    <3>3. CASE Close
      BY <1>1, <2>1, <3>3, CloseStep
    <3> QED
      BY <1>2, <3>1, <3>2, <3>3 DEF Next
  <2> QED
    BY <1>1, <2>1, <2>2 DEF IInv, ConnInv
<1>3. CASE UNCHANGED vars
  <2> USE <1>3 DEF vars, callVars, connVars, storeVars
  <2>1. CallShape'
    BY DEF IInv, CallShape
  <2>2. Ownership' /\ DeadIsEmpty'
    BY DEF IInv, Ownership, DeadIsEmpty
  <2>3. WireShape'
    BY DEF IInv, WireShape
  <2>4. ControlLast'
    BY DEF IInv, ControlLast
  <2>5. GuardLast' /\ AutoClean' /\ PoolClean'
    BY DEF IInv, GuardLast, AutoClean, PoolClean
  <2>6. OwnRequests' /\ OwnSession'
    BY DEF IInv, OwnRequests, OwnSession
  <2> QED
    BY <1>1, <2>1, <2>2, <2>3, <2>4, <2>5, <2>6 DEF IInv
<1> QED
  BY <1>2, <1>3

\* The invariant holds when the pool has been created.
LEMMA InvInit == Init => IInv
<1> SUFFICES ASSUME Init PROVE IInv
  OBVIOUS
<1> USE NoSuchCall, AwaitedPlaces
<1>1. TypeOK
  BY TypeInit
<1>2. CallShape
  BY DEF Init, CallShape, Pooled
<1>3. \A c \in Conns : hold[c] = "pool" /\ wire[c] = <<>> /\ session[c] = "none" /\ alive[c] = TRUE
  BY DEF Init
<1>4. \A f \in Calls : at[f] = "new"
  BY DEF Init
<1> QED
  BY <1>1, <1>2, <1>3, <1>4
  DEF IInv, Ownership, DeadIsEmpty, WireShape, ControlLast, GuardLast, AutoClean, PoolClean,
      OwnRequests, OwnSession

\* On every backend that serves the requests of a connection in order, whatever is
\* cancelled, dropped, lost or closed, the invariant holds in every state.
THEOREM Invariance ==
  ASSUME InOrder
  PROVE  Spec => []IInv
<1>1. Init => IInv
  BY InvInit
<1>2. IInv /\ [Next]_vars => IInv'
  BY Inductive
<1> QED
  BY <1>1, <1>2, PTL DEF Spec

\* Whoever checks a connection out finds no other caller's transaction on it: the
\* drop guards and the recycle step never let one through.
THEOREM SessionIsOwn ==
  ASSUME InOrder
  PROVE  Spec => []OwnSession
<1>1. IInv => OwnSession
  BY DEF IInv
<1> QED
  BY Invariance, <1>1, PTL

\* Where the guard closes a connection whose COMMIT or ROLLBACK failed, a connection
\* in the pool has no open transaction, and no BEGIN is on its way to it.
THEOREM PoolIsClean ==
  ASSUME InOrder, ClosesBroken
  PROVE  Spec => []CleanPool
<1>1. IInv => CleanPool
  <2> SUFFICES ASSUME IInv, NEW c \in Conns, hold[c] = "pool"
               PROVE  ~MayBeOpen(c)
    BY DEF CleanPool
  <2>1. session[c] = "none"
    BY DEF IInv, PoolClean
  <2>2. \A i \in DOMAIN wire[c] : wire[c][i].op # "BEGIN"
    BY NoSuchCall, WireRequest DEF IInv, WireShape
  <2> QED
    BY <2>1, <2>2 DEF MayBeOpen
<1> QED
  BY Invariance, <1>1, PTL
=============================================================================
