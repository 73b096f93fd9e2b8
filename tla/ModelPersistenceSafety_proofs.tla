------------------- MODULE ModelPersistenceSafety_proofs -------------------
(***************************************************************************)
(* OneRowEach, AutomaticKept, AloneNeverFails, MemoryIsStored and          *)
(* BulkAnswers of ModelPersistence, whatever calls run at once, fail or    *)
(* are cancelled.                                                          *)
(*                                                                         *)
(* After the statement changed the rows and the answer the instances (see  *)
(* ModelPersistence_proofs), the call goes on or returns (GoesOn, Go),     *)
(* and leaves the world in order: this is Inv.                             *)
(* Then what a call that looks first relies on (Promised) while it is      *)
(* alone, and why its statements are accepted.                             *)
(* Then what an instance shows of its row (Remembered), with the           *)
(* statements that are at it.  Last what a bulk call is going to report    *)
(* (Telling), and that it stays true until the call returns.               *)
(***************************************************************************)
EXTENDS ModelPersistence_proofs

-----------------------------------------------------------------------------
(* After an answer: the other calls are left alone. *)

\* A call between the answer to its statement and its next statement.
Waiting(j, todo, results) ==
  [op |-> j.op, now |-> j.now, todo |-> todo, stmt |-> [kind |-> "none"],
   records |-> j.records, results |-> results, alone |-> j.alone]

\* A call that may have learnt that it is not alone.
Alike2(j, k) == k = j \/ k = [j EXCEPT !.alone = FALSE]

\* A call that only learnt that another one wrote is in order as before.
LEMMA AlikeKeeps ==
  ASSUME NEW j, NEW k, Alike2(j, k), NEW m, JobOK(j, m)
  PROVE  /\ JobOK(k, m) /\ k.stmt = j.stmt /\ k.todo = j.todo /\ k.results = j.results
         /\ Busied(k) = Busied(j) /\ Made(k) = Made(j)
         /\ \A U, n, os, sp, ls : JobInv(U, n, os, sp, ls, j) => JobInv(U, n, os, sp, ls, k)
         /\ \A i, sp : (Apart(i, j, sp) => Apart(i, k, sp)) /\ (Apart(j, i, sp) => Apart(k, i, sp))
<1>1. /\ k = [op |-> k.op, now |-> k.now, todo |-> k.todo, stmt |-> k.stmt, records |-> k.records,
              results |-> k.results, alone |-> k.alone]
      /\ k.op = j.op /\ k.now = j.now /\ k.todo = j.todo /\ k.stmt = j.stmt /\ k.records = j.records
      /\ k.results = j.results /\ (k.alone = j.alone \/ k.alone = FALSE)
  BY DEF Alike2, JobOK
<1>2. JobOK(k, m)
  BY <1>1 DEF JobOK
<1>3. Later(k) = Later(j) /\ Made(k) = Made(j) /\ Busied(k) = Busied(j)
  BY <1>1 DEF Later, Made, Busied
<1>4. \A U, n, os, sp, ls : JobInv(U, n, os, sp, ls, j) => JobInv(U, n, os, sp, ls, k)
  BY <1>1, <1>3 DEF JobInv, JobOwn
<1>5. \A i, sp : (Apart(i, j, sp) => Apart(i, k, sp)) /\ (Apart(j, i, sp) => Apart(k, i, sp))
  BY <1>3 DEF Apart
<1> QED BY <1>1, <1>2, <1>3, <1>4, <1>5

\* The answer to t is in: the table, the instances and the other calls are in order.
LEMMA Turned ==
  ASSUME NEW T, NEW U, World(T, rows, serial, objs, job, spoilt, lost, {}), NEW t \in Tasks,
         NEW e, Executed(T, U, e, job[t].stmt), NEW os, NEW rd, Moved(U, e, t, os, rd),
         NEW js, DOMAIN js = Tasks, \A u \in Tasks \ {t} : Alike2(job[u], js[u]),
         js[t].stmt.kind = "none", JobOK(js[t], Len(os)), JobInv(U, e.serial, os, spoilt, lost, js[t]),
         \A u \in Tasks \ {t} : Apart(js[t], job[u], spoilt) /\ Apart(job[u], js[t], spoilt)
  PROVE  World(U, e.rows, e.serial, os, js, spoilt, lost, rd)
<1>1. /\ Base(T, rows, serial, objs, spoilt) /\ Lines(T) /\ serial \in Nat /\ ObjsOK(objs)
      /\ spoilt \subseteq 1 .. Len(objs) /\ Len(objs) \in Nat /\ decl \in Declarations
  BY DEF World, Base, ObjsOK
<1>2. /\ ObjsOK(os) /\ Len(os) \in Nat /\ Len(objs) <= Len(os)
      /\ Extends(T, U, serial) /\ Lines(U) /\ e.serial \in Nat /\ serial <= e.serial /\ RowsLin(U, e.serial, e.rows)
  BY DEF Moved, ObjsOK, Executed, Extends, TableStep, TableOK
<1>3. Base(U, e.rows, e.serial, os, spoilt)
  <2>1. RowsOK(e.rows, Len(os))
    BY <1>1, <1>2 DEF Executed, RowsOK
  <2>2. spoilt \subseteq 1 .. Len(os)
    BY <1>1, <1>2
  <2> QED BY <1>2, <2>1, <2>2 DEF Base, Moved
<1>4. \A u \in Tasks \ {t} : JobOK(js[u], Len(os)) /\ JobInv(U, e.serial, os, spoilt, lost, js[u])
  <2> SUFFICES ASSUME NEW u \in Tasks \ {t}
               PROVE  JobOK(js[u], Len(os)) /\ JobInv(U, e.serial, os, spoilt, lost, js[u])
    OBVIOUS
  <2>1. JobOK(job[u], Len(objs)) /\ JobInv(T, serial, objs, spoilt, lost, job[u])
        /\ Apart(job[t], job[u], spoilt) /\ JobOK(job[t], Len(objs))
    BY DEF World
  <2>2. \A x \in Busied(job[u]) : x \in DOMAIN objs
    <3>1. \A x \in UsedBy(job[u].stmt) : x \in 1 .. Len(objs)
      BY <2>1 DEF JobOK, StmtOK, UsedBy, ToSet, InsertOK, BatchOK, Kinds, Targeted
    <3>2. \A x \in Later(job[u]) : x \in 1 .. Len(objs)
      BY <2>1 DEF JobOK, Later, BatchOK, ToSet
    <3> QED BY <1>1, <3>1, <3>2 DEF Busied, ObjsOK
  <2>3. \A x \in Busied(job[u]) : (x \in spoilt \/ Same(objs[x], os[x])) /\ Evolves(objs[x], os[x])
    BY <2>1, <2>2 DEF Moved, Apart, Busied
  <2>4. Made(job[u]) \cap spoilt = {}
    BY <2>1 DEF JobInv, JobOwn
  <2>5. JobOK(job[u], Len(os)) /\ JobInv(U, e.serial, os, spoilt, lost, job[u])
    BY <1>1, <1>2, <2>1, <2>3, <2>4, JobKeeps
  <2> QED BY <2>5, AlikeKeeps
<1>5. \A u, v \in Tasks : u # v => Apart(js[u], js[v], spoilt)
  <2> SUFFICES ASSUME NEW u \in Tasks, NEW v \in Tasks, u # v PROVE Apart(js[u], js[v], spoilt)
    OBVIOUS
  <2>1. \A x \in Tasks : JobOK(job[x], Len(objs))
    BY DEF World
  <2>2. CASE u = t
    BY <2>1, <2>2, AlikeKeeps
  <2>3. CASE v = t
    BY <2>1, <2>3, AlikeKeeps
  <2>4. CASE u # t /\ v # t
    <3>1. Apart(job[u], job[v], spoilt)
      BY DEF World
    <3>2. Apart(js[u], job[v], spoilt)
      BY <2>1, <2>4, <3>1, AlikeKeeps
    <3> QED BY <2>1, <2>4, <3>2, AlikeKeeps
  <2> QED BY <2>2, <2>3, <2>4
<1>6. ~lost => Read(e.rows, os, js, rd)
  <2> SUFFICES ASSUME ~lost PROVE Read(e.rows, os, js, rd)
    OBVIOUS
  <2>1. \A p \in DOMAIN e.rows : e.rows[p].state # None
    BY DEF World, Read, Executed, TableStep, JobInv
  <2>2. \A o : AwaitedElse(t, o) => Awaited(js, o)
    <3>1. \A u \in Tasks \ {t} : js[u].stmt = job[u].stmt
      BY AlikeKeeps DEF World
    <3> QED BY <3>1 DEF AwaitedElse, Awaited
  <2> QED BY <2>1, <2>2 DEF Moved, Known2, Read
<1>7. \A u \in Tasks : JobOK(js[u], Len(os)) /\ JobInv(U, e.serial, os, spoilt, lost, js[u])
  BY <1>4
<1> QED BY <1>1, <1>3, <1>5, <1>6, <1>7 DEF World

\* The answered call has work left, for instances nobody else touched.
LEMMA TurnedKept ==
  ASSUME NEW T, NEW U, World(T, rows, serial, objs, job, spoilt, lost, {}), NEW t \in Tasks,
         NEW e, Executed(T, U, e, job[t].stmt), NEW os, NEW rd, Moved(U, e, t, os, rd),
         NEW js, DOMAIN js = Tasks, \A u \in Tasks \ {t} : Alike2(job[u], js[u]),
         js[t] = Waiting(job[t], job[t].todo, job[t].results)
  PROVE  World(U, e.rows, e.serial, os, js, spoilt, lost, rd)
<1> DEFINE j == job[t]
           w == js[t]
<1>1. /\ JobOK(j, Len(objs)) /\ JobInv(T, serial, objs, spoilt, lost, j) /\ Len(objs) \in Nat
      /\ Len(os) \in Nat /\ Len(objs) <= Len(os)
  BY DEF World, Base, ObjsOK, Moved
<1>2. /\ w.stmt = [kind |-> "none"] /\ w.todo = j.todo /\ w.results = j.results /\ w.op = j.op /\ w.now = j.now
      /\ w.records = j.records /\ w.alone = j.alone
      /\ w = [op |-> w.op, now |-> w.now, todo |-> w.todo, stmt |-> w.stmt, records |-> w.records,
              results |-> w.results, alone |-> w.alone]
  BY DEF Waiting
<1>3. Later(w) = Later(j) /\ Made(w) = Made(j) /\ UsedBy(w.stmt) = {}
  BY <1>2 DEF Later, Made, UsedBy
<1>4. JobOK(j, Len(os))
  BY <1>1, JobGrows
<1>5. StmtOK(w.stmt, Len(os))
  BY <1>2 DEF StmtOK, Kinds, Targeted
<1>6. JobOK(w, Len(os))
  <2>1. w.stmt.kind # "find"
    BY <1>2
  <2> HIDE DEF w, j
  <2> QED BY <1>2, <1>4, <1>5, <2>1 DEF JobOK
<1>7. \A x \in Later(j) : Same(objs[x], os[x])
  <2>1. Later(j) \subseteq DOMAIN objs
    <3>1. \A x \in Later(j) : x \in 1 .. Len(objs)
      BY <1>1 DEF JobOK, Later, BatchOK, ToSet
    <3> QED BY <3>1 DEF World, Base, ObjsOK
  <2>2. Later(j) \cap UsedBy(j.stmt) = {}
    BY <1>1 DEF JobInv, JobOwn
  <2> QED BY <2>1, <2>2 DEF Moved
<1>8. TodoLin(j.todo, os) /\ TodoFits(j.todo, os) /\ (~lost => TodoCareful(j.todo, os))
  <2> HIDE DEF j
  <2> QED BY <1>1, <1>7, TodoKeeps DEF JobInv
<1>9. JobInv(U, e.serial, os, spoilt, lost, w)
  <2>1. StmtLin(U, e.serial, w.stmt, os) /\ Agrees(w.stmt, os, spoilt) /\ StateGiven(w.stmt)
    BY <1>2 DEF StmtLin, Agrees, Writing, StateGiven
  <2>2. JobOwn(spoilt, w)
    <3> HIDE DEF w, j
    <3> QED BY <1>1, <1>2, <1>3 DEF JobInv, JobOwn
  <2> HIDE DEF w, j
  <2> QED BY <1>2, <1>8, <2>1, <2>2 DEF JobInv
<1>10. \A u \in Tasks \ {t} : Apart(w, job[u], spoilt) /\ Apart(job[u], w, spoilt)
  <2>1. \A u \in Tasks \ {t} : Apart(j, job[u], spoilt) /\ Apart(job[u], j, spoilt)
    BY DEF World
  <2>2. Busied(w) \subseteq Busied(j)
    BY <1>3 DEF Busied
  <2> HIDE DEF w, j
  <2> QED BY <1>3, <2>1, <2>2 DEF Apart
<1>11. js[t].stmt.kind = "none"
  BY <1>2
<1> HIDE DEF w, j
<1> QED BY <1>6, <1>9, <1>10, <1>11, Turned DEF w

\* The part of a plan that others rely on.
Planned(todo, os, n) ==
  /\ todo \in Seq(Items)
  /\ \A i \in DOMAIN todo : Work(todo[i], os, n)
  /\ \A i, k \in DOMAIN todo : i # k => ToSet(todo[i].os) \cap ToSet(todo[k].os) = {}

\* A call that has just made instances, and has work left for some of them.
LEMMA TurnedMade ==
  ASSUME NEW T, NEW U, World(T, rows, serial, objs, job, spoilt, lost, {}), NEW t \in Tasks,
         NEW e, Executed(T, U, e, job[t].stmt), NEW os, Moved(U, e, t, os, {}),
         NEW js, DOMAIN js = Tasks, \A u \in Tasks \ {t} : Alike2(job[u], js[u]),
         NEW todo, NEW results, js[t] = Waiting(job[t], todo, results),
         Planned(todo, os, Len(objs)), TodoLin(todo, os), ~lost => TodoCareful(todo, os),
         Made(js[t]) = (Len(objs) + 1) .. Len(os)
  PROVE  World(U, e.rows, e.serial, os, js, spoilt, lost, {})
<1> DEFINE j == job[t]
           w == js[t]
           n == Len(objs)
<1>1. /\ JobOK(j, n) /\ n \in Nat /\ Len(os) \in Nat /\ DOMAIN os = 1 .. Len(os) /\ n <= Len(os) /\ spoilt \subseteq 1 .. n
  BY DEF World, Base, ObjsOK, Moved
<1>2. /\ w.stmt = [kind |-> "none"] /\ w.todo = todo /\ w.results = results /\ w.op = j.op /\ w.now = j.now
      /\ w.records = j.records /\ w.alone = j.alone
      /\ w = [op |-> w.op, now |-> w.now, todo |-> w.todo, stmt |-> w.stmt, records |-> w.records,
              results |-> w.results, alone |-> w.alone]
  BY DEF Waiting
<1>3. UsedBy(w.stmt) = {} /\ w.stmt.kind = "none" /\ StmtOK(w.stmt, Len(os))
  BY <1>2 DEF UsedBy, StmtOK, Kinds, Targeted
<1>4. \A i \in DOMAIN todo : /\ todo[i] \in Items /\ BatchOK(todo[i].os, Len(os)) /\ Work(todo[i], os, n)
  BY DEF Planned, Work
<1>5. Later(w) \subseteq Made(w)
  <2> SUFFICES ASSUME NEW i \in DOMAIN todo, NEW x \in ToSet(todo[i].os) PROVE x \in (n + 1) .. Len(os)
    BY <1>2 DEF Later
  <2>1. x \in 1 .. Len(os)
    BY <1>4 DEF BatchOK, ToSet
  <2>2. n < x
    BY <1>4 DEF Work
  <2> HIDE DEF n
  <2> QED BY <1>1, <2>1, <2>2
<1>6. JobOK(w, Len(os))
  <2>1. \A i \in DOMAIN w.results : w.results[i].o \in 1 .. Len(os)
    <3>1. \A i \in DOMAIN w.results : w.results[i].o \in Made(w)
      BY DEF Made, ToSet
    <3> HIDE DEF n, w
    <3> QED BY <1>1, <3>1 DEF w, n
  <2>2. todo \in Seq(Items)
    BY DEF Planned
  <2> HIDE DEF w, j, n
  <2> QED BY <1>1, <1>2, <1>3, <1>4, <2>1, <2>2 DEF JobOK
<1>7. TodoFits(todo, os)
  <2> SUFFICES ASSUME NEW i \in DOMAIN todo PROVE ItemFits(todo[i], os)
    BY DEF TodoFits
  <2> QED BY <1>4 DEF Work, ItemFits, Items
<1>8. JobInv(U, e.serial, os, spoilt, lost, w)
  <2>1. StmtLin(U, e.serial, w.stmt, os) /\ Agrees(w.stmt, os, spoilt) /\ StateGiven(w.stmt)
    BY <1>3 DEF StmtLin, Agrees, Writing, StateGiven
  <2>2. JobOwn(spoilt, w)
    <3>1. Made(w) \cap spoilt = {}
      <4> HIDE DEF n, w
      <4> QED BY <1>1 DEF w, n
    <3>2. \A i, k \in DOMAIN w.todo : i # k => ToSet(w.todo[i].os) \cap ToSet(w.todo[k].os) = {}
      BY <1>2 DEF Planned
    <3> HIDE DEF w, n
    <3> QED BY <1>3, <1>5, <3>1, <3>2 DEF JobOwn
  <2> HIDE DEF w, j, n
  <2> QED BY <1>2, <1>7, <2>1, <2>2 DEF JobInv
<1>9. \A u \in Tasks \ {t} : Apart(w, job[u], spoilt) /\ Apart(job[u], w, spoilt)
  <2> SUFFICES ASSUME NEW u \in Tasks \ {t} PROVE Apart(w, job[u], spoilt) /\ Apart(job[u], w, spoilt)
    OBVIOUS
  <2>1. JobOK(job[u], n)
    BY DEF World
  <2>2. Busied(job[u]) \subseteq 1 .. n
    <3>1. \A x \in UsedBy(job[u].stmt) : x \in 1 .. n
      BY <2>1 DEF JobOK, StmtOK, UsedBy, ToSet, InsertOK, BatchOK, Kinds, Targeted
    <3>2. \A x \in Later(job[u]) : x \in 1 .. n
      BY <2>1 DEF JobOK, Later, BatchOK, ToSet
    <3> QED BY <3>1, <3>2 DEF Busied
  <2>3. Made(job[u]) \subseteq 1 .. n
    BY <2>1 DEF JobOK, Made, ToSet
  <2>4. Busied(w) \subseteq Made(w)
    BY <1>3, <1>5 DEF Busied
  <2>5. Made(w) \cap (1 .. n) = {}
    <3> HIDE DEF n, w
    <3> QED BY <1>1 DEF w, n
  <2> HIDE DEF w, n
  <2> QED BY <2>2, <2>3, <2>4, <2>5 DEF Apart
<1> HIDE DEF j, n
<1> QED BY <1>3, <1>6, <1>8, <1>9, Turned

-----------------------------------------------------------------------------
(* A call goes on, or returns. *)

\* What is left of some work is a part of it.
LEMMA Tails ==
  ASSUME NEW S, NEW q \in Seq(S), q # <<>>
  PROVE  /\ Tail(q) \in Seq(S) /\ Head(q) = q[1] /\ 1 \in DOMAIN q /\ Len(q) \in Nat
         /\ \A i \in DOMAIN Tail(q) : i + 1 \in DOMAIN q /\ Tail(q)[i] = q[i + 1] /\ i + 1 # 1
         /\ \A i, k \in DOMAIN Tail(q) : i # k => i + 1 # k + 1
  OBVIOUS

\* The call returns, or raises.
LEMMA Dropped ==
  ASSUME NEW T, NEW rs, NEW n, NEW os, NEW js, NEW sp, NEW ls, NEW rd, World(T, rs, n, os, js, sp, ls, rd),
         NEW t \in Tasks, js[t].stmt.kind # "defaults"
  PROVE  World(T, rs, n, os, [js EXCEPT ![t] = Idle], sp, ls, rd)
<1> DEFINE k == [js EXCEPT ![t] = Idle]
<1>1. DOMAIN k = Tasks /\ k[t] = Idle /\ \A u \in Tasks \ {t} : k[u] = js[u]
  BY DEF World
<1>2. /\ Idle.stmt.kind = "none" /\ Idle.todo = <<>> /\ Idle.results = <<>>
      /\ Later(Idle) = {} /\ Made(Idle) = {} /\ UsedBy(Idle.stmt) = {} /\ Busied(Idle) = {}
  BY DEF Idle, Later, Made, UsedBy, Busied, ToSet
<1>3. JobOK(Idle, Len(os))
  BY IdleOK DEF World, Base, ObjsOK
<1>4. JobInv(T, n, os, sp, ls, Idle)
  <2> HIDE DEF k
  <2> QED BY <1>2 DEF JobInv, StmtLin, TodoLin, Agrees, Writing, TodoFits, JobOwn, StateGiven, TodoCareful
<1>5. \A u, v \in Tasks : u # v => Apart(k[u], k[v], sp)
  <2> HIDE DEF k
  <2> QED BY <1>1, <1>2 DEF World, Apart
<1>6. \A u \in Tasks : JobOK(k[u], Len(os)) /\ JobInv(T, n, os, sp, ls, k[u])
  <2> HIDE DEF k
  <2> QED BY <1>1, <1>3, <1>4 DEF World
<1>7. ~ls => Read(rs, os, k, rd)
  <2>1. \A o : Awaited(js, o) => Awaited(k, o)
    <3> HIDE DEF k
    <3> QED BY <1>1 DEF Awaited
  <2> HIDE DEF k
  <2> QED BY <2>1 DEF World, Read
<1> HIDE DEF k
<1>8. World(T, rs, n, os, k, sp, ls, rd)
  BY <1>1, <1>5, <1>6, <1>7 DEF World
<1> QED BY <1>8 DEF k

\* A call between two statements has none on the wire.
LEMMA WaitingIs ==
  ASSUME NEW j, NEW rest, NEW results
  PROVE  Waiting(j, rest, results).stmt.kind = "none" /\ Waiting(j, rest, results).now = j.now
BY DEF Waiting

\* A record of a call.
Shaped(j) == j = [op |-> j.op, now |-> j.now, todo |-> j.todo, stmt |-> j.stmt, records |-> j.records,
                  results |-> j.results, alone |-> j.alone]

With(j, s) == [j EXCEPT !.stmt = s]
Turning(j, rest, s, results) == [j EXCEPT !.todo = rest, !.stmt = s, !.results = results]

\* The call goes on with the statement of its next item.
LEMMA WaitingBound ==
  ASSUME NEW j, NEW rest, NEW results, NEW stmt, Shaped(j)
  PROVE  With(Waiting(j, rest, results), stmt) = Turning(j, rest, stmt, results)
<1>1. SUFFICES ASSUME NEW a, NEW b, NEW c, NEW d, NEW e, NEW f, NEW g,
                      j = [op |-> a, now |-> b, todo |-> c, stmt |-> d, records |-> e, results |-> f, alone |-> g]
               PROVE  With(Waiting(j, rest, results), stmt) = Turning(j, rest, stmt, results)
  BY DEF Shaped
<1>2. With(Waiting(j, rest, results), stmt)
        = [op |-> a, now |-> b, todo |-> rest, stmt |-> stmt, records |-> e, results |-> results, alone |-> g]
  BY <1>1 DEF Waiting, With
<1> DEFINE k == [j EXCEPT !.todo = rest, !.stmt = stmt, !.results = results]
<1>3. k = [x \in {"op", "now", "todo", "stmt", "records", "results", "alone"} |-> k[x]]
  BY <1>1
<1>4. k.op = a /\ k.now = b /\ k.todo = rest
  BY <1>1
<1>5. k.stmt = stmt /\ k.records = e
  BY <1>1
<1>6. k.results = results /\ k.alone = g
  BY <1>1
<1> HIDE DEF k
<1>7. k = [op |-> a, now |-> b, todo |-> rest, stmt |-> stmt, records |-> e, results |-> results, alone |-> g]
  BY <1>3, <1>4, <1>5, <1>6
<1> QED BY <1>2, <1>7 DEF k, Turning

\* The call takes the next item of its work.
LEMMA TakeItem ==
  ASSUME NEW T, NEW rs, NEW n, NEW os, NEW js, NEW sp, NEW ls, World(T, rs, n, os, js, sp, ls, {}),
         NEW t \in Tasks, NEW j, NEW todo, NEW results, js[t] = Waiting(j, todo, results), todo # <<>>,
         NEW k, k = [js EXCEPT ![t] = Waiting(j, Tail(todo), results)]
  PROVE  World(T, rs, n, os, k, sp, ls, {}) /\ Ready(Head(todo), t, os, k, sp, ls, {})
<1> DEFINE w == js[t]
           v == Waiting(j, Tail(todo), results)
           it == Head(todo)
<1>1. DOMAIN k = Tasks /\ k[t] = v /\ \A u \in Tasks \ {t} : k[u] = js[u]
  BY DEF World
<1>2. JobOK(w, Len(os)) /\ JobInv(T, n, os, sp, ls, w)
  BY DEF World
<1>3. /\ w.stmt = [kind |-> "none"] /\ w.todo = todo /\ w.results = results /\ w.op = v.op /\ w.now = v.now
      /\ w.records = v.records /\ w.alone = v.alone
      /\ v.stmt = [kind |-> "none"] /\ v.todo = Tail(todo) /\ v.results = results
      /\ v = [op |-> v.op, now |-> v.now, todo |-> v.todo, stmt |-> v.stmt, records |-> v.records,
              results |-> v.results, alone |-> v.alone]
  BY DEF Waiting
<1>4. todo \in Seq(Items) /\ \A i \in DOMAIN todo : todo[i] \in Items /\ BatchOK(todo[i].os, Len(os))
  BY <1>2, <1>3 DEF JobOK
<1>5. /\ Tail(todo) \in Seq(Items) /\ it = todo[1] /\ 1 \in DOMAIN todo
      /\ \A i \in DOMAIN Tail(todo) : i + 1 \in DOMAIN todo /\ Tail(todo)[i] = todo[i + 1] /\ i + 1 # 1
      /\ \A i, m \in DOMAIN Tail(todo) : i # m => i + 1 # m + 1
  <2> HIDE DEF w, v
  <2> QED BY <1>4, Tails
<1>6. Touches(it) = ToSet(todo[1].os)
  BY <1>4, <1>5 DEF Touches, Items
<1>7. /\ TodoLin(todo, os) /\ TodoFits(todo, os) /\ JobOwn(sp, w) /\ (~ls => TodoCareful(todo, os))
  BY <1>2, <1>3 DEF JobInv
<1>8. /\ Made(v) = Made(w) /\ UsedBy(v.stmt) = {} /\ UsedBy(w.stmt) = {}
      /\ Busied(v) = Later(v) /\ Busied(w) = Later(w)
  BY <1>3 DEF Made, UsedBy, Busied
<1>9. Later(v) \subseteq Later(w) /\ Touches(it) \subseteq Later(w) /\ Later(w) \subseteq Made(w)
  <2>1. Later(v) \subseteq Later(w)
    <3> HIDE DEF v, w
    <3> QED BY <1>3, <1>5 DEF Later
  <2>2. Touches(it) \subseteq Later(w)
    <3> HIDE DEF v, w, it
    <3> QED BY <1>3, <1>5, <1>6 DEF Later
  <2> QED BY <1>7, <2>1, <2>2 DEF JobOwn
<1>10. Touches(it) \cap Later(v) = {}
  <2> SUFFICES ASSUME NEW i \in DOMAIN Tail(todo) PROVE Touches(it) \cap ToSet(Tail(todo)[i].os) = {}
    BY <1>3 DEF Later
  <2>1. \A i2, k2 \in DOMAIN todo : i2 # k2 => ToSet(todo[i2].os) \cap ToSet(todo[k2].os) = {}
    BY <1>3, <1>7 DEF JobOwn
  <2> HIDE DEF v, w, it
  <2> QED BY <1>5, <1>6, <2>1
<1>11. JobOK(v, Len(os))
  <2>1. StmtOK(v.stmt, Len(os)) /\ v.stmt.kind # "find"
    BY <1>3 DEF StmtOK, Kinds, Targeted
  <2> HIDE DEF v, w, it
  <2> QED BY <1>2, <1>3, <1>4, <1>5, <2>1 DEF JobOK
<1>12. JobInv(T, n, os, sp, ls, v)
  <2>1. StmtLin(T, n, v.stmt, os) /\ Agrees(v.stmt, os, sp) /\ StateGiven(v.stmt)
    BY <1>3 DEF StmtLin, Agrees, Writing, StateGiven
  <2>2. TodoLin(Tail(todo), os) /\ TodoFits(Tail(todo), os) /\ (~ls => TodoCareful(Tail(todo), os))
    <3> HIDE DEF v, w, it
    <3> QED BY <1>5, <1>7 DEF TodoLin, TodoFits, TodoCareful
  <2>3. JobOwn(sp, v)
    <3>1. \A i, m \in DOMAIN Tail(todo) : i # m => ToSet(Tail(todo)[i].os) \cap ToSet(Tail(todo)[m].os) = {}
      <4>1. \A i2, k2 \in DOMAIN todo : i2 # k2 => ToSet(todo[i2].os) \cap ToSet(todo[k2].os) = {}
        BY <1>3, <1>7 DEF JobOwn
      <4> HIDE DEF v, w, it
      <4> QED BY <1>5, <4>1
    <3> HIDE DEF v, w, it
    <3> QED BY <1>3, <1>7, <1>8, <1>9, <3>1 DEF JobOwn
  <2> HIDE DEF v, w, it
  <2> QED BY <1>3, <2>1, <2>2, <2>3 DEF JobInv
<1>13. \A u \in Tasks \ {t} : Apart(w, js[u], sp) /\ Apart(js[u], w, sp)
  BY DEF World
<1>14. \A a, b \in Tasks : a # b => Apart(k[a], k[b], sp)
  <2>1. \A u \in Tasks \ {t} : Apart(v, js[u], sp) /\ Apart(js[u], v, sp)
    <3> HIDE DEF v, w, it
    <3> QED BY <1>8, <1>9, <1>13 DEF Apart
  <2> HIDE DEF v, w, it
  <2> QED BY <1>1, <2>1 DEF World
<1>15. World(T, rs, n, os, k, sp, ls, {})
  <2>1. \A u \in Tasks : JobOK(k[u], Len(os)) /\ JobInv(T, n, os, sp, ls, k[u])
    <3> HIDE DEF v, w, it
    <3> QED BY <1>1, <1>11, <1>12 DEF World
  <2>2. ~ls => Read(rs, os, k, {})
    <3>1. js[t].stmt.kind = "none"
      BY <1>3
    <3>2. \A o : Awaited(js, o) => Awaited(k, o)
      <4> HIDE DEF v, w, it
      <4> QED BY <1>1, <3>1 DEF Awaited
    <3> HIDE DEF v, w, it
    <3> QED BY <3>2 DEF World, Read
  <2> HIDE DEF v, w, it
  <2> QED BY <1>1, <1>14, <2>1, <2>2 DEF World
<1>16. Ready(it, t, os, k, sp, ls, {})
  <2>1. ItemOK(it, Len(os)) /\ ItemFits(it, os) /\ (~ls => Careful(it, os)) /\ it.do \in {"insert", "update"}
    <3> HIDE DEF v, w
    <3> QED BY <1>4, <1>5, <1>7 DEF TodoFits, TodoCareful, ItemOK, Items, Columns
  <2>2. it.do = "insert" => \A o \in Touches(it) : os[o].id \in {None, OwnId}
    <3> HIDE DEF v, w
    <3> QED BY <1>5, <1>6, <1>7 DEF TodoLin
  <2>3. Touches(it) \subseteq Made(k[t])
    <3> HIDE DEF v, w, it
    <3> QED BY <1>1, <1>8, <1>9
  <2>4. \A u \in Tasks \ {t} : Touches(it) \cap Busied(k[u]) \subseteq sp /\ Touches(it) \cap Made(k[u]) = {}
    <3> HIDE DEF v, w, it
    <3> QED BY <1>1, <1>8, <1>9, <1>13 DEF Apart
  <2> HIDE DEF v, w, it
  <2> QED BY <1>1, <1>10, <2>1, <2>2, <2>3, <2>4 DEF Ready
<1> QED BY <1>15, <1>16

\* What a call has left to do, in the world it goes on in.
GoesOn(U, rs, n, os, js, sp, ls, t, j, todo, results) ==
  \E rest, rd :
    LET k == [js EXCEPT ![t] = Waiting(j, rest, results)] IN
    /\ World(U, rs, n, os, k, sp, ls, rd)
    /\ \/ todo = rest /\ rd = {}
       \/ todo # <<>> /\ Tail(todo) = rest /\ Ready(Head(todo), t, os, k, sp, ls, rd)

\* The call of t ends, or sends the statement of its next item.
Takes(t, j, os, todo, results) ==
  IF todo = <<>> THEN objs' = os /\ job'[t] = Idle
  ELSE \E b : /\ b = Bind(Head(todo), os, j.now) /\ Bound(b, Head(todo), os)
              /\ objs' = b.objs /\ job'[t] = Turning(j, Tail(todo), b.stmt, results)

\* The call sends its next statement, or returns.
LEMMA Continued ==
  ASSUME NEW U, NEW rs, NEW n, NEW os, NEW js, NEW sp, NEW ls, NEW t \in Tasks, NEW j, NEW todo, NEW results,
         DOMAIN js = Tasks, js = [u \in Tasks |-> js[u]], Shaped(j),
         GoesOn(U, rs, n, os, js, sp, ls, t, j, todo, results),
         Continue(js, t, j, os, todo, results)
  PROVE  /\ World(U, rs, n, objs', job', sp, ls, {}) /\ Len(objs') = Len(os)
         /\ job'[t] = Idle \/ job'[t].stmt.kind # "none"
         /\ \A u \in Tasks \ {t} : job'[u] = js[u]
         /\ Takes(t, j, os, todo, results)
<1>1. PICK rest, rd : LET k == [js EXCEPT ![t] = Waiting(j, rest, results)] IN
        /\ World(U, rs, n, os, k, sp, ls, rd)
        /\ \/ todo = rest /\ rd = {}
           \/ todo # <<>> /\ Tail(todo) = rest /\ Ready(Head(todo), t, os, k, sp, ls, rd)
  BY DEF GoesOn
<1> DEFINE k == [js EXCEPT ![t] = Waiting(j, rest, results)]
<1>2. DOMAIN k = Tasks /\ k[t] = Waiting(j, rest, results) /\ k[t].stmt.kind = "none" /\ k[t].now = j.now
      /\ \A u \in Tasks \ {t} : k[u] = js[u]
  BY DEF Waiting
<1>3. CASE todo = <<>>
  <2>1. objs' = os /\ job' = [js EXCEPT ![t] = Idle] /\ rest = <<>> /\ rd = {}
    BY <1>1, <1>3 DEF Continue
  <2>2. World(U, rs, n, os, [k EXCEPT ![t] = Idle], sp, ls, {})
    <3>1. World(U, rs, n, os, k, sp, ls, {})
      BY <1>1, <2>1
    <3> HIDE DEF k
    <3> QED BY <1>2, <3>1, Dropped
  <2>3. [k EXCEPT ![t] = Idle] = job'
    BY <2>1
  <2>4. Takes(t, j, os, todo, results)
    BY <1>3, <2>1 DEF Takes
  <2> HIDE DEF k
  <2> QED BY <2>1, <2>2, <2>3, <2>4
<1>4. CASE todo # <<>>
  <2>1. PICK b \in {Bind(Head(todo), os, j.now)} :
           /\ objs' = b.objs
           /\ job' = [js EXCEPT ![t] = [j EXCEPT !.todo = Tail(todo), !.stmt = b.stmt, !.results = results]]
    BY <1>4 DEF Continue
  <2> DEFINE m == [js EXCEPT ![t] = Waiting(j, Tail(todo), results)]
             it == Head(todo)
  <2>2. \E rd2 : World(U, rs, n, os, m, sp, ls, rd2) /\ Ready(it, t, os, m, sp, ls, rd2)
    <3>1. CASE todo = rest /\ rd = {}
      <4>1. World(U, rs, n, os, k, sp, ls, {}) /\ m = [k EXCEPT ![t] = Waiting(j, Tail(todo), results)]
            /\ k[t] = Waiting(j, todo, results)
        BY <1>1, <3>1
      <4>2. World(U, rs, n, os, m, sp, ls, {}) /\ Ready(it, t, os, m, sp, ls, {})
        <5> HIDE DEF k, m
        <5> QED BY <1>4, <4>1, TakeItem
      <4> HIDE DEF k, m, it
      <4> QED BY <4>2
    <3>2. CASE Tail(todo) = rest /\ Ready(Head(todo), t, os, k, sp, ls, rd)
      BY <1>1, <3>2
    <3> QED BY <1>1, <3>1, <3>2
  <2>3. PICK rd2 : World(U, rs, n, os, m, sp, ls, rd2) /\ Ready(it, t, os, m, sp, ls, rd2)
    BY <2>2
  <2>4. m[t] = Waiting(j, Tail(todo), results) /\ m[t].stmt.kind = "none" /\ m[t].now = j.now
        /\ \A u \in Tasks \ {t} : m[u] = js[u]
    <3>1. m[t] = Waiting(j, Tail(todo), results) /\ \A u \in Tasks \ {t} : m[u] = js[u]
      OBVIOUS
    <3> HIDE DEF m, k, it
    <3> QED BY <3>1, WaitingIs
  <2>5. World(U, rs, n, b.objs, [m EXCEPT ![t] = [m[t] EXCEPT !.stmt = b.stmt]], sp, ls, {})
    <3>1. b = Bind(it, os, m[t].now)
      BY <2>1, <2>4
    <3> HIDE DEF m, it, k
    <3> QED BY <2>3, <2>4, <3>1, Go
  <2>6. [m EXCEPT ![t] = [m[t] EXCEPT !.stmt = b.stmt]] = job'
    <3>1. With(Waiting(j, Tail(todo), results), b.stmt) = Turning(j, Tail(todo), b.stmt, results)
      BY WaitingBound
    <3>2. job' = [js EXCEPT ![t] = Turning(j, Tail(todo), b.stmt, results)]
      BY <2>1 DEF Turning
    <3>3. [m EXCEPT ![t] = With(m[t], b.stmt)] = [js EXCEPT ![t] = With(m[t], b.stmt)]
      OBVIOUS
    <3>4. [m EXCEPT ![t] = With(m[t], b.stmt)] = [m EXCEPT ![t] = [m[t] EXCEPT !.stmt = b.stmt]]
      BY DEF With
    <3> HIDE DEF m, it, k
    <3> QED BY <2>4, <3>1, <3>2, <3>3, <3>4
  <2>7. job'[t] = [j EXCEPT !.todo = Tail(todo), !.stmt = b.stmt, !.results = results]
        /\ \A u \in Tasks \ {t} : job'[u] = js[u]
    BY <2>1
  <2>8. job'[t].stmt = b.stmt
    BY <2>7
  <2>9. Bound(b, it, os)
    <3>1. ObjsOK(os) /\ decl \in Declarations /\ JobOK(m[t], Len(os))
      <4> HIDE DEF m, it, k
      <4> QED BY <2>3 DEF World, Base
    <3>2. ItemOK(it, Len(os)) /\ ItemFits(it, os)
      <4> HIDE DEF m, it, k
      <4> QED BY <2>3 DEF Ready
    <3>3. j.now \in Stamps /\ b = Bind(it, os, j.now)
      BY <2>1, <2>4, <3>1 DEF JobOK
    <3> HIDE DEF m, it, k
    <3> QED BY <3>1, <3>2, <3>3, BindOK
  <2>10. Len(b.objs) = Len(os) /\ b.stmt.kind # "none"
    <3> HIDE DEF m, it, k
    <3> QED BY <2>9 DEF Bound
  <2>11. Takes(t, j, os, todo, results)
    <3>1. job'[t] = Turning(j, Tail(todo), b.stmt, results)
      BY <2>7 DEF Turning
    <3> HIDE DEF m, k
    <3> QED BY <1>4, <2>1, <2>9, <3>1 DEF Takes
  <2> HIDE DEF m, it, k
  <2> QED BY <2>1, <2>5, <2>6, <2>7, <2>8, <2>10, <2>11
<1> QED BY <1>3, <1>4

-----------------------------------------------------------------------------
(* The call whose statement is answered goes on. *)

\* The call of t is answered with r, while the others are in js.
Answering(T, U, t, e, pick, r, js) ==
  /\ World(T, rows, serial, objs, job, spoilt, lost, {}) /\ t \in Tasks
  /\ Executed(T, U, e, job[t].stmt)
  /\ r = Resume(job[t], e, objs, pick) /\ r.ok
  /\ DOMAIN js = Tasks /\ js = [u \in Tasks |-> js[u]]
  /\ \A u \in Tasks \ {t} : Alike2(job[u], js[u])

\* What Answering stands for.
LEMMA AnsweringIs ==
  ASSUME NEW T, NEW U, NEW t, NEW e, NEW pick, NEW r, NEW js, Answering(T, U, t, e, pick, r, js)
  PROVE  /\ Asked(T, t) /\ t \in Tasks /\ World(T, rows, serial, objs, job, spoilt, lost, {})
         /\ Executed(T, U, e, job[t].stmt)
         /\ JobOK(job[t], Len(objs)) /\ JobInv(T, serial, objs, spoilt, lost, job[t])
         /\ ObjsOK(objs) /\ objs \in Seq(Instance) /\ DOMAIN objs = 1 .. Len(objs) /\ Len(objs) \in Nat
         /\ DOMAIN js = Tasks /\ e.ok /\ r = Resume(job[t], e, objs, pick) /\ r.ok
         /\ StmtOK(job[t].stmt, Len(objs))
         /\ \A p \in DOMAIN e.rows : e.rows[p] \in Row /\ p \in Ids
BY DEF Answering, Asked, World, Base, ObjsOK, Executed, RowsOK, JobOK, Ids

\* The others do not see what the call makes next.
LEMMA OthersOld ==
  ASSUME NEW T, World(T, rows, serial, objs, job, spoilt, lost, {}), NEW u \in Tasks
  PROVE  Busied(job[u]) \subseteq 1 .. Len(objs) /\ Made(job[u]) \subseteq 1 .. Len(objs)
<1>1. JobOK(job[u], Len(objs))
  BY DEF World
<1>2. \A x \in UsedBy(job[u].stmt) : x \in 1 .. Len(objs)
  BY <1>1 DEF JobOK, StmtOK, UsedBy, ToSet, InsertOK, BatchOK, Kinds, Targeted
<1>3. \A x \in Later(job[u]) : x \in 1 .. Len(objs)
  BY <1>1 DEF JobOK, Later, BatchOK, ToSet
<1>4. Made(job[u]) \subseteq 1 .. Len(objs)
  BY <1>1 DEF JobOK, Made, ToSet
<1> QED BY <1>2, <1>3, <1>4 DEF Busied

\* A call whose answer makes no instances goes on with the work it had.
LEMMA WorldKept ==
  ASSUME NEW T, NEW U, NEW t, NEW e, NEW pick, NEW r, NEW js, Answering(T, U, t, e, pick, r, js),
         NEW rd, Moved(U, e, t, r.objs, rd), r.results = job[t].results,
         NEW k, k = [js EXCEPT ![t] = Waiting(job[t], job[t].todo, r.results)]
  PROVE  World(U, e.rows, e.serial, r.objs, k, spoilt, lost, rd)
<1>1. DOMAIN k = Tasks /\ k[t] = Waiting(job[t], job[t].todo, job[t].results)
      /\ \A u \in Tasks \ {t} : Alike2(job[u], k[u])
  BY DEF Answering
<1>2. World(T, rows, serial, objs, job, spoilt, lost, {}) /\ t \in Tasks /\ Executed(T, U, e, job[t].stmt)
  BY DEF Answering
<1> QED BY <1>1, <1>2, TurnedKept

\* The instances as an answer leaves them.
Shifted(U, e, t, os) == \E rd : Moved(U, e, t, os, rd)

\* What the answer to an INSERT brings.
InsertTaken(e, t, r) ==
  LET s == job[t].stmt IN
  /\ Kept(r, job[t])
  /\ \A x \in DOMAIN objs \ ToSet(s.os) : r.objs[x] = objs[x]
  /\ \A i \in DOMAIN s.os :
       Saved(objs[s.os[i]], r.objs[s.os[i]], e.ids[i], e.rows[e.ids[i]], Follows(r.todo, s.os[i]))
  /\ \/ r.todo = job[t].todo
     \/ \E o \in ToSet(s.os) : Follows(r.todo, o) /\ Tail(r.todo) = job[t].todo

\* After an insert the instances are the same but for what the database gave them.
LEMMA TakenInsert ==
  ASSUME NEW T, NEW U, NEW t, NEW e, NEW pick, NEW r, NEW js, Answering(T, U, t, e, pick, r, js),
         job[t].stmt.kind = "insert"
  PROVE  InsertTaken(e, t, r)
<1> DEFINE j == job[t]
           s == job[t].stmt
<1>1. /\ Asked(T, t) /\ t \in Tasks /\ Executed(T, U, e, s) /\ JobOK(j, Len(objs))
      /\ JobInv(T, serial, objs, spoilt, lost, j) /\ ObjsOK(objs) /\ objs \in Seq(Instance)
      /\ DOMAIN objs = 1 .. Len(objs) /\ Len(objs) \in Nat /\ DOMAIN js = Tasks /\ e.ok
      /\ StmtOK(s, Len(objs)) /\ r = Resume(j, e, objs, pick)
      /\ \A p \in DOMAIN e.rows : e.rows[p] \in Row
  BY AnsweringIs
<1>2. InsertOK(s, Len(objs)) /\ e = ExecuteInsert(s.values)
  BY <1>1, ExecuteKinds DEF StmtOK, Executed, Kinds
<1>3. Len(e.ids) = Len(s.os) /\ e.ids \in Seq(Nat \cup {OwnId}) /\ \A i \in DOMAIN s.os : e.rows[e.ids[i]] \in Row
  <2>1. s.values \in Seq(Value) /\ Len(s.values) = Len(s.os) /\ DOMAIN s.values = DOMAIN s.os /\ serial \in Nat
    BY <1>1, <1>2 DEF InsertOK, BatchOK, Asked, Base
  <2>2. ExecuteInsert(s.values).ok
    BY <1>1, <1>2
  <2>3. /\ e.ids \in Seq(Nat \cup {OwnId}) /\ Len(e.ids) = Len(s.values)
        /\ \A i \in DOMAIN s.values : e.ids[i] \in DOMAIN e.rows
    <3> HIDE DEF s
    <3> QED BY <1>2, <2>1, <2>2, Inserts
  <2> QED BY <1>1, <2>1, <2>3
<1>4. /\ Kept(r, j)
      /\ \A x \in DOMAIN objs \ ToSet(s.os) : r.objs[x] = objs[x]
      /\ \A i \in DOMAIN s.os :
           Saved(objs[s.os[i]], r.objs[s.os[i]], e.ids[i], e.rows[e.ids[i]], Follows(r.todo, s.os[i]))
      /\ \/ r.todo = j.todo
         \/ \E o \in ToSet(s.os) : Follows(r.todo, o) /\ Tail(r.todo) = j.todo
  <2> DEFINE n == Len(objs)
             q == Resume(j, e, objs, pick)
             z == j.stmt
  <2>1. /\ JobOK(j, n) /\ n = Len(objs) /\ ObjsOK(objs) /\ z.kind = "insert" /\ e.ok
        /\ Len(e.ids) = Len(z.os) /\ e.ids \in Seq(Nat \cup {OwnId}) /\ \A i \in DOMAIN z.os : e.rows[e.ids[i]] \in Row
    BY <1>1, <1>3
  <2>2. q = r /\ z = s
    BY <1>1
  <2> HIDE DEF j, n
  <2>3. /\ Kept(q, j)
        /\ \A x \in DOMAIN objs \ ToSet(z.os) : q.objs[x] = objs[x]
        /\ \A i \in DOMAIN z.os :
             Saved(objs[z.os[i]], q.objs[z.os[i]], e.ids[i], e.rows[e.ids[i]], Follows(q.todo, z.os[i]))
        /\ \/ q.todo = j.todo
           \/ \E o \in ToSet(z.os) : Follows(q.todo, o) /\ Tail(q.todo) = j.todo
    BY <2>1, AnswerInsert
  <2> HIDE DEF q, z, s
  <2> QED BY <2>2, <2>3
<1> QED BY <1>4 DEF InsertTaken

\* Every answer lets its call go on: the answer to an INSERT.
LEMMA GoesInsert ==
  ASSUME NEW T, NEW U, NEW t, NEW e, NEW pick, NEW r, NEW js, Answering(T, U, t, e, pick, r, js),
         job[t].stmt.kind = "insert"
  PROVE  /\ GoesOn(U, e.rows, e.serial, r.objs, js, spoilt, lost, t, job[t], r.todo, r.results)
         /\ Shifted(U, e, t, r.objs)
<1> DEFINE j == job[t]
           s == job[t].stmt
           rd == {o \in ToSet(s.os) : Follows(r.todo, o)}
           k == [js EXCEPT ![t] = Waiting(j, j.todo, r.results)]
<1>1. /\ Asked(T, t) /\ t \in Tasks /\ Executed(T, U, e, s) /\ JobOK(j, Len(objs))
      /\ JobInv(T, serial, objs, spoilt, lost, j) /\ ObjsOK(objs) /\ objs \in Seq(Instance)
      /\ DOMAIN objs = 1 .. Len(objs) /\ Len(objs) \in Nat /\ DOMAIN js = Tasks /\ e.ok
      /\ StmtOK(s, Len(objs)) /\ r = Resume(j, e, objs, pick)
      /\ \A p \in DOMAIN e.rows : e.rows[p] \in Row
  BY AnsweringIs
<1>2. InsertOK(s, Len(objs)) /\ e = ExecuteInsert(s.values)
  BY <1>1, ExecuteKinds DEF StmtOK, Executed, Kinds
<1>4. /\ Kept(r, j)
      /\ \A x \in DOMAIN objs \ ToSet(s.os) : r.objs[x] = objs[x]
      /\ \A i \in DOMAIN s.os :
           Saved(objs[s.os[i]], r.objs[s.os[i]], e.ids[i], e.rows[e.ids[i]], Follows(r.todo, s.os[i]))
      /\ \/ r.todo = j.todo
         \/ \E o \in ToSet(s.os) : Follows(r.todo, o) /\ Tail(r.todo) = j.todo
  BY TakenInsert DEF InsertTaken
<1>5. Moved(U, e, t, r.objs, rd)
  <2>1. \A i \in DOMAIN s.os :
          Saved(objs[s.os[i]], r.objs[s.os[i]], e.ids[i], e.rows[e.ids[i]], s.os[i] \in rd)
    <3>1. \A i \in DOMAIN s.os : Follows(r.todo, s.os[i]) <=> s.os[i] \in rd
      BY DEF ToSet
    <3> HIDE DEF rd, s
    <3> QED BY <1>4, <3>1 DEF Saved
  <2> HIDE DEF rd
  <2> QED BY <1>1, <1>4, <2>1, MovedInsert DEF Kept
<1>6. World(U, e.rows, e.serial, r.objs, k, spoilt, lost, rd)
  <2>1. r.results = j.results
    BY <1>4 DEF Kept
  <2> HIDE DEF rd
  <2> QED BY <1>5, <2>1, WorldKept
<1>9. Shifted(U, e, t, r.objs)
  BY <1>5 DEF Shifted
<1>7. CASE \E o \in ToSet(s.os) : Follows(r.todo, o) /\ Tail(r.todo) = j.todo
  <2>1. PICK o \in ToSet(s.os) : Follows(r.todo, o) /\ Tail(r.todo) = j.todo
    BY <1>7
  <2>2. rd = {o} /\ r.todo # <<>> /\ Head(r.todo) = Reading(o)
    BY <2>1 DEF Follows, Reading
  <2>3. k[t] = Waiting(j, j.todo, r.results) /\ \A u \in Tasks \ {t} : Alike2(job[u], k[u])
    BY <1>1 DEF Answering
  <2>4. Touches(Reading(o)) = {o} /\ Reading(o).do = "defaults" /\ Reading(o).o = o
    BY DEF Touches, Reading
  <2>5. PICK i \in DOMAIN s.os : o = s.os[i]
    BY DEF ToSet
  <2>6. r.objs[o].in_db
    BY <1>4, <2>5 DEF Saved
  <2>7. o \in 1 .. Len(r.objs)
    BY <1>2, <1>4, <2>5 DEF InsertOK, BatchOK, Kept
  <2>8. o \in UsedBy(s) /\ o \in Busied(j)
    BY DEF UsedBy, Busied
  <2>9. Later(k[t]) = Later(j)
    <3>1. k[t].todo = j.todo
      BY <2>3 DEF Waiting
    <3> HIDE DEF k, j
    <3> QED BY <3>1 DEF Later
  <2>10. o \notin Later(k[t])
    <3> HIDE DEF k
    <3> QED BY <1>1, <2>8, <2>9 DEF JobInv, JobOwn
  <2>11. \A u \in Tasks \ {t} : {o} \cap Busied(k[u]) \subseteq spoilt /\ {o} \cap Made(k[u]) = {}
    <3> SUFFICES ASSUME NEW u \in Tasks \ {t}
                 PROVE  {o} \cap Busied(k[u]) \subseteq spoilt /\ {o} \cap Made(k[u]) = {}
      OBVIOUS
    <3>1. JobOK(job[u], Len(objs)) /\ Apart(j, job[u], spoilt) /\ Apart(job[u], j, spoilt)
      BY DEF Answering, World
    <3>2. Busied(k[u]) = Busied(job[u]) /\ Made(k[u]) = Made(job[u])
      <4> HIDE DEF k
      <4> QED BY <2>3, <3>1, AlikeKeeps
    <3> HIDE DEF k, j
    <3> QED BY <2>8, <3>1, <3>2 DEF Apart
  <2>12. Ready(Reading(o), t, r.objs, k, spoilt, lost, rd)
    <3>1. /\ ItemOK(Reading(o), Len(r.objs)) /\ ItemFits(Reading(o), r.objs) /\ Careful(Reading(o), r.objs)
      BY <2>4, <2>6, <2>7 DEF ItemOK, ItemFits, Careful, Targeted
    <3> HIDE DEF k, rd
    <3> QED BY <2>2, <2>4, <2>10, <2>11, <3>1 DEF Ready
  <2> HIDE DEF rd
  <2> QED BY <1>6, <1>9, <2>1, <2>2, <2>12 DEF GoesOn
<1>8. CASE ~(\E o \in ToSet(s.os) : Follows(r.todo, o) /\ Tail(r.todo) = j.todo)
  <2>1. r.todo = j.todo
    BY <1>4, <1>8
  <2>2. rd = {}
    <3> SUFFICES ASSUME NEW o, Follows(j.todo, o) PROVE FALSE
      BY <2>1
    <3>1. j.todo \in Seq(Items) /\ j.todo # <<>> /\ Head(j.todo) = Reading(o)
      BY <1>1 DEF JobOK, Follows
    <3>2. Head(j.todo) \in Items
      <4> HIDE DEF j
      <4> QED BY <3>1
    <3>3. Head(j.todo).do \in {"insert", "update"}
      BY <3>2 DEF Items
    <3> QED BY <3>1, <3>3 DEF Reading
  <2> HIDE DEF rd
  <2> QED BY <1>6, <1>9, <2>1, <2>2 DEF GoesOn
<1> QED BY <1>7, <1>8

\* The steps of an instance that leave its key, and whether it has a row.
Steps(a, b) == b.in_db = a.in_db /\ b.id = a.id /\ b.key = a.key

\* What an answer brings that leaves the work as it is.
PlainTaken(U, e, t, r) ==
  /\ Moved(U, e, t, r.objs, {}) /\ r.todo = job[t].todo /\ r.results = job[t].results
  /\ \A x \in DOMAIN objs : r.objs[x].id = objs[x].id
  /\ job[t].stmt.kind = "update" => r.objs = objs
  /\ job[t].stmt.kind = "defaults" => \A x \in DOMAIN objs : Steps(objs[x], r.objs[x])

\* After a statement that reads or updates no instance changes in what identifies it.
LEMMA TakenPlain ==
  ASSUME NEW T, NEW U, NEW t, NEW e, NEW pick, NEW r, NEW js, Answering(T, U, t, e, pick, r, js),
         job[t].stmt.kind \in {"upsert", "update", "delete", "defaults", "reload", "relation", "prefetch"}
  PROVE  PlainTaken(U, e, t, r)
<1> DEFINE j == job[t]
           s == job[t].stmt
<1>1. /\ Asked(T, t) /\ t \in Tasks /\ Executed(T, U, e, s) /\ JobOK(j, Len(objs))
      /\ ObjsOK(objs) /\ DOMAIN objs = 1 .. Len(objs) /\ Len(objs) \in Nat /\ e.ok
      /\ r = Resume(j, e, objs, pick) /\ r.ok
      /\ \A p \in DOMAIN e.rows : e.rows[p] \in Row
  BY AnsweringIs
<1>2. \A x : Same(objs[x], objs[x])
  BY DEF Same
<1>3. /\ Moved(U, e, t, r.objs, {}) /\ r.todo = j.todo /\ r.results = j.results
      /\ \A x \in DOMAIN objs : r.objs[x].id = objs[x].id
      /\ s.kind = "update" => r.objs = objs
      /\ s.kind = "defaults" => \A x \in DOMAIN objs : Steps(objs[x], r.objs[x])
  <2>1. CASE s.kind = "upsert"
    <3>1. Kept(r, j) /\ r.objs = objs /\ r.todo = j.todo
      <4> HIDE DEF j
      <4> QED BY <1>1, <2>1, AnswerPlain DEF j
    <3>2. Moved(U, e, t, r.objs, {})
      BY <1>1, <2>1, <3>1, MovedUpsert DEF Kept
    <3> QED BY <2>1, <3>1, <3>2 DEF Kept
  <2>2. CASE s.kind = "update"
    <3>1. Kept(r, j) /\ r.objs = objs /\ r.todo = j.todo
      <4> HIDE DEF j
      <4> QED BY <1>1, <2>2, AnswerPlain DEF j
    <3>2. Moved(U, e, t, r.objs, {})
      BY <1>1, <1>2, <2>2, <3>1, MovedSame DEF Kept
    <3> QED BY <2>2, <3>1, <3>2 DEF Kept
  <2>3. CASE s.kind \in {"delete", "defaults", "reload"}
    <3> DEFINE n == Len(objs)
               q == Resume(j, e, objs, pick)
    <3>1. /\ JobOK(j, n) /\ ObjsOK(objs) /\ j.stmt.kind \in {"delete", "defaults", "reload"} /\ q.ok /\ n = Len(objs)
          /\ e.ok /\ \A p \in DOMAIN e.rows : e.rows[p] \in Row
      BY <1>1, <2>3
    <3>2. q = r
      BY <1>1
    <3> HIDE DEF j, n
    <3>3. /\ Kept(q, j) /\ q.todo = j.todo
          /\ \A x \in DOMAIN objs \ {j.stmt.os[1]} : q.objs[x] = objs[x]
          /\ Targets(j.stmt, e, objs[j.stmt.os[1]], q.objs[j.stmt.os[1]])
      BY <3>1, AnswerTargeted
    <3> HIDE DEF q
    <3>4. /\ Kept(r, j) /\ r.todo = j.todo /\ r.results = j.results
          /\ \A x \in DOMAIN objs \ {j.stmt.os[1]} : r.objs[x] = objs[x]
          /\ Targets(j.stmt, e, objs[j.stmt.os[1]], r.objs[j.stmt.os[1]])
      BY <3>2, <3>3 DEF Kept
    <3>5. Moved(U, e, t, r.objs, {})
      BY <1>1, <3>1, <3>4, MovedTargeted DEF j
    <3>6. s.kind = "defaults" => \A x \in DOMAIN objs : Steps(objs[x], r.objs[x])
      <4> SUFFICES ASSUME s.kind = "defaults", NEW x \in DOMAIN objs PROVE Steps(objs[x], r.objs[x])
        OBVIOUS
      <4>1. CASE x = j.stmt.os[1]
        <5>1. Targets(j.stmt, e, objs[x], r.objs[x]) /\ j.stmt.kind = "defaults"
          BY <3>4, <4>1 DEF j
        <5> QED BY <5>1 DEF Targets, Steps
      <4>2. CASE x # j.stmt.os[1]
        BY <3>4, <4>2 DEF Steps
      <4> QED BY <4>1, <4>2
    <3>7. s.kind # "update"
      BY <2>3
    <3>8. \A x \in DOMAIN objs : r.objs[x].id = objs[x].id
      BY <3>4 DEF Targets
    <3> QED BY <3>4, <3>5, <3>6, <3>7, <3>8
  <2>4. CASE s.kind \in {"relation", "prefetch"}
    <3>1. Kept(r, j) /\ r.todo = j.todo /\ \A x \in DOMAIN objs : Same(objs[x], r.objs[x])
      <4> HIDE DEF j
      <4> QED BY <1>1, <2>4, AnswerCache DEF j
    <3>2. ObjsOK(r.objs)
      <4>1. DOMAIN r.objs = DOMAIN objs
        BY <1>1, <3>1 DEF Kept
      <4> QED BY <1>1, <3>1, <4>1 DEF ObjsOK, Kept, Same
    <3>3. Moved(U, e, t, r.objs, {})
      BY <1>1, <2>4, <3>1, <3>2, MovedSame DEF Kept
    <3>4. \A x \in DOMAIN objs : r.objs[x].id = objs[x].id
      BY <3>1 DEF Same
    <3> QED BY <2>4, <3>1, <3>3, <3>4 DEF Kept
  <2> QED BY <2>1, <2>2, <2>3, <2>4
<1> QED BY <1>3 DEF PlainTaken

\* Every answer lets its call go on: the answers that plan no work.
LEMMA GoesPlain ==
  ASSUME NEW T, NEW U, NEW t, NEW e, NEW pick, NEW r, NEW js, Answering(T, U, t, e, pick, r, js),
         job[t].stmt.kind \in {"upsert", "update", "delete", "defaults", "reload", "relation", "prefetch"}
  PROVE  /\ GoesOn(U, e.rows, e.serial, r.objs, js, spoilt, lost, t, job[t], r.todo, r.results)
         /\ Shifted(U, e, t, r.objs)
<1> DEFINE j == job[t]
<1>3. Moved(U, e, t, r.objs, {}) /\ r.todo = j.todo /\ r.results = j.results
  BY TakenPlain DEF PlainTaken
<1>4. World(U, e.rows, e.serial, r.objs, [js EXCEPT ![t] = Waiting(j, j.todo, r.results)], spoilt, lost, {})
  BY <1>3, WorldKept
<1> QED BY <1>3, <1>4 DEF GoesOn, Shifted

\* A call whose answer makes instances goes on with the work for them.
LEMMA WorldMade ==
  ASSUME NEW T, NEW U, NEW t, NEW e, NEW pick, NEW r, NEW js, Answering(T, U, t, e, pick, r, js),
         Moved(U, e, t, r.objs, {}), NEW rest, NEW results, Planned(rest, r.objs, Len(objs)), TodoLin(rest, r.objs),
         ~lost => TodoCareful(rest, r.objs), {q.o : q \in ToSet(results)} = (Len(objs) + 1) .. Len(r.objs),
         NEW k, k = [js EXCEPT ![t] = Waiting(job[t], rest, results)]
  PROVE  World(U, e.rows, e.serial, r.objs, k, spoilt, lost, {})
<1>1. DOMAIN k = Tasks /\ k[t] = Waiting(job[t], rest, results)
      /\ \A u \in Tasks \ {t} : Alike2(job[u], k[u])
  BY DEF Answering
<1>2. World(T, rows, serial, objs, job, spoilt, lost, {}) /\ t \in Tasks /\ Executed(T, U, e, job[t].stmt)
  BY DEF Answering
<1>3. Made(k[t]) = (Len(objs) + 1) .. Len(r.objs)
  BY <1>1 DEF Made, Waiting
<1> QED BY <1>1, <1>2, <1>3, TurnedMade

\* get, get_or_create and update_or_create.
LEMMA TakenGet ==
  ASSUME NEW T, NEW U, NEW t, NEW e, NEW pick, NEW r, NEW js, Answering(T, U, t, e, pick, r, js),
         job[t].stmt.kind = "find", job[t].op \in Finders
  PROVE  \E rec \in Lookups : job[t].records = <<rec>> /\ Got(r, e, rec)
<1> DEFINE j == job[t]
<1>1. /\ Asked(T, t) /\ t \in Tasks /\ Executed(T, U, e, j.stmt) /\ JobOK(j, Len(objs))
      /\ World(T, rows, serial, objs, job, spoilt, lost, {})
      /\ ObjsOK(objs) /\ objs \in Seq(Instance) /\ Len(objs) \in Nat /\ DOMAIN js = Tasks /\ e.ok
      /\ r = Resume(j, e, objs, pick) /\ r.ok /\ RowsIn(e)
  BY AnsweringIs DEF RowsIn
<1>2. PICK rec \in Lookups : j.records = <<rec>>
  BY <1>1 DEF JobOK, Finding, Finders, Bulks
<1>3. rec \in Record /\ rec.id = None
  BY PersistenceAssumption
<1>4. Got(r, e, rec)
  <2> DEFINE q == Resume(j, e, objs, pick)
  <2>1. q = r /\ q.ok
    BY <1>1
  <2>2. j.stmt.kind = "find" /\ j.op \in Finders
    OBVIOUS
  <2> HIDE DEF j
  <2>3. Got(q, e, rec)
    BY <1>1, <1>2, <1>3, <2>1, <2>2, AnswerGet
  <2> QED BY <2>1, <2>3
<1> QED BY <1>2, <1>4

\* The call goes on with what it found or made.
LEMMA GoesGet ==
  ASSUME NEW T, NEW U, NEW t, NEW e, NEW pick, NEW r, NEW js, Answering(T, U, t, e, pick, r, js),
         job[t].stmt.kind = "find", job[t].op \in Finders
  PROVE  /\ GoesOn(U, e.rows, e.serial, r.objs, js, spoilt, lost, t, job[t], r.todo, r.results)
         /\ Shifted(U, e, t, r.objs)
<1> DEFINE j == job[t]
           n == Len(objs)
           k == [js EXCEPT ![t] = Waiting(j, <<>>, r.results)]
           it == Save(n + 1, Columns)
<1>1. /\ Asked(T, t) /\ t \in Tasks /\ Executed(T, U, e, j.stmt) /\ JobOK(j, Len(objs))
      /\ World(T, rows, serial, objs, job, spoilt, lost, {})
      /\ ObjsOK(objs) /\ objs \in Seq(Instance) /\ DOMAIN objs = 1 .. n /\ n \in Nat /\ DOMAIN js = Tasks /\ e.ok
      /\ r = Resume(j, e, objs, pick) /\ r.ok /\ RowsIn(e)
  BY AnsweringIs DEF RowsIn
<1>2. PICK rec \in Lookups : Got(r, e, rec)
  BY TakenGet
<1>3. rec \in Record /\ rec.id = None
  BY PersistenceAssumption
<1>5. PICK b \in Instance :
        /\ r.objs = Append(objs, b)
        /\ \/ /\ b = New(rec)
              /\ r.todo = <<it>> /\ r.results = <<Result(n + 1, TRUE)>>
           \/ /\ r.results = <<Result(n + 1, FALSE)>>
              /\ \E p \in DOMAIN e.rows : FromRow(b, p, e.rows[p])
              /\ r.todo \in {<<>>, <<it>>}
  BY <1>2 DEF Got
<1> HIDE DEF n, j, it
<1>6. /\ r.objs \in Seq(Instance) /\ Len(r.objs) = n + 1 /\ r.objs[n + 1] = b /\ DOMAIN r.objs = 1 .. (n + 1)
      /\ \A x \in DOMAIN objs : r.objs[x] = objs[x]
  BY <1>1, <1>5, AppendOne DEF n
<1>7. Fresh(b, e)
  BY <1>3, <1>5, NewOK DEF Fresh
<1>8. Moved(U, e, t, r.objs, {})
  <2>1. \A x \in DOMAIN r.objs \ DOMAIN objs : Fresh(r.objs[x], e)
    BY <1>1, <1>6, <1>7
  <2>2. Len(objs) <= Len(r.objs) /\ job[t].stmt.kind = "find"
    BY <1>1, <1>6 DEF n
  <2> QED BY <1>1, <1>6, <2>1, <2>2, MovedFound DEF j
<1>9. {q.o : q \in ToSet(r.results)} = {n + 1}
  <2>1. PICK c : r.results = <<Result(n + 1, c)>>
    BY <1>5
  <2> QED BY <2>1 DEF ToSet, Result
<1>10. World(U, e.rows, e.serial, r.objs, k, spoilt, lost, {})
  <2>1. Planned(<<>>, r.objs, Len(objs)) /\ TodoLin(<<>>, r.objs) /\ TodoCareful(<<>>, r.objs)
    BY DEF Planned, TodoLin, TodoCareful
  <2>2. (Len(objs) + 1) .. Len(r.objs) = {n + 1}
    BY <1>1, <1>6 DEF n
  <2> QED BY <1>8, <1>9, <2>1, <2>2, WorldMade DEF j
<1>13. Shifted(U, e, t, r.objs)
  BY <1>8 DEF Shifted
<1>11. CASE r.todo = <<>>
  BY <1>10, <1>11, <1>13 DEF GoesOn, j
<1>12. CASE r.todo = <<it>>
  <2>1. r.todo # <<>> /\ Tail(r.todo) = <<>> /\ Head(r.todo) = it
    BY <1>12
  <2>2. it.do = "save" /\ it.o = n + 1 /\ it.cols = Columns /\ Touches(it) = {n + 1}
    BY DEF it, Save, Touches
  <2>3. ItemOK(it, Len(r.objs)) /\ ItemFits(it, r.objs)
    BY <1>1, <1>6, <2>2 DEF ItemOK, ItemFits
  <2>4. ~lost => Careful(it, r.objs)
    <3> SUFFICES ASSUME ~lost, b.in_db PROVE b.marks \/ b.state # None
      BY <1>6, <2>2 DEF Careful
    <3>1. \A p \in DOMAIN e.rows : e.rows[p].state # None
      BY <1>1 DEF Asked, Read, Executed, TableStep, JobInv, j
    <3>2. \E p \in DOMAIN e.rows : FromRow(b, p, e.rows[p])
      BY <1>3, <1>5, NewOK
    <3> QED BY <3>1, <3>2 DEF FromRow
  <2>5. k[t] = Waiting(j, <<>>, r.results) /\ \A u \in Tasks \ {t} : k[u] = js[u] /\ Alike2(job[u], js[u])
    BY <1>1 DEF Answering
  <2>6. Later(k[t]) = {}
    BY <2>5 DEF Later, Waiting
  <2>7. \A u \in Tasks \ {t} : {n + 1} \cap Busied(k[u]) \subseteq spoilt /\ {n + 1} \cap Made(k[u]) = {}
    <3> SUFFICES ASSUME NEW u \in Tasks \ {t}
                 PROVE  {n + 1} \cap Busied(k[u]) \subseteq spoilt /\ {n + 1} \cap Made(k[u]) = {}
      OBVIOUS
    <3>1. Busied(job[u]) \subseteq 1 .. n /\ Made(job[u]) \subseteq 1 .. n
      BY <1>1, OthersOld DEF n
    <3>2. JobOK(job[u], n)
      BY <1>1 DEF World, n
    <3>3. Busied(k[u]) = Busied(job[u]) /\ Made(k[u]) = Made(job[u])
      BY <2>5, <3>2, AlikeKeeps
    <3>4. n + 1 \notin 1 .. n
      BY <1>1
    <3> QED BY <3>1, <3>3, <3>4
  <2>8. Ready(it, t, r.objs, k, spoilt, lost, {})
    <3> HIDE DEF k
    <3> QED BY <2>2, <2>3, <2>4, <2>6, <2>7 DEF Ready
  <2> QED BY <1>10, <1>13, <2>1, <2>8 DEF GoesOn, j
<1> QED BY <1>5, <1>11, <1>12

\* What a record of a bulk call got.
LEMMA ForFresh ==
  ASSUME NEW b, NEW rec \in Record, NEW made \in BOOLEAN, NEW e, NEW pick, PickOK(e, pick), For(b, rec, made, e, pick)
  PROVE  /\ Fresh(b, e) /\ (~b.in_db => b.id \in {None, OwnId})
         /\ (\A p \in DOMAIN e.rows : e.rows[p].state # None) => (b.in_db => b.state # None)
<1>1. CASE made
  BY <1>1, NewOK DEF For, Fresh
<1>2. CASE ~made
  <2>1. pick[rec.key] \in DOMAIN e.rows /\ FromRow(b, pick[rec.key], e.rows[pick[rec.key]])
    BY <1>2 DEF For, PickOK
  <2> QED BY <2>1 DEF Fresh, FromRow
<1> QED BY <1>1, <1>2

\* What the answer to the SELECT of a bulk call brings.
BulkTaken(e, t, pick, r) ==
  \E a, b \in Record :
    /\ job[t].records = <<a, b>>
    /\ r.objs \in Seq(Instance) /\ \A x \in DOMAIN objs : r.objs[x] = objs[x]
    /\ Answered(r, a, b, e, pick) /\ Plan(r.todo, r.objs, Len(objs))
    /\ ChosenFirst(r.todo, r.objs, Len(objs))

\* After its find a bulk call has its instances, new or of their rows, and the work for them.
LEMMA TakenBulk ==
  ASSUME NEW T, NEW U, NEW t, NEW e, NEW pick, NEW r, NEW js, Answering(T, U, t, e, pick, r, js),
         job[t].stmt.kind = "find", job[t].op \in Bulks, PickOK(e, pick)
  PROVE  BulkTaken(e, t, pick, r)
<1> DEFINE j == job[t]
           n == Len(objs)
<1>1. /\ Asked(T, t) /\ t \in Tasks /\ Executed(T, U, e, j.stmt) /\ JobOK(j, Len(objs))
      /\ World(T, rows, serial, objs, job, spoilt, lost, {})
      /\ ObjsOK(objs) /\ objs \in Seq(Instance) /\ DOMAIN objs = 1 .. n /\ n \in Nat /\ DOMAIN js = Tasks /\ e.ok
      /\ r = Resume(j, e, objs, pick) /\ r.ok /\ RowsIn(e)
  BY AnsweringIs DEF RowsIn
<1>2. PICK a \in Record, b \in Record : j.records = <<a, b>>
  BY <1>1 DEF JobOK, Finding, Finders, Bulks
<1>3. /\ r.objs \in Seq(Instance) /\ \A x \in DOMAIN objs : r.objs[x] = objs[x]
      /\ Answered(r, a, b, e, pick) /\ Plan(r.todo, r.objs, n) /\ ChosenFirst(r.todo, r.objs, n)
  <2> DEFINE q == Resume(j, e, objs, pick)
  <2>1. q = r /\ j.stmt.kind = "find" /\ j.op \in Bulks
    BY <1>1
  <2> HIDE DEF j, n
  <2>2. /\ q.objs \in Seq(Instance) /\ \A x \in DOMAIN objs : q.objs[x] = objs[x]
        /\ Answered(q, a, b, e, pick) /\ Plan(q.todo, q.objs, Len(objs)) /\ ChosenFirst(q.todo, q.objs, Len(objs))
    BY <1>1, <1>2, <2>1, AnswerBulk
  <2> HIDE DEF q
  <2> QED BY <2>1, <2>2 DEF n
<1> QED BY <1>2, <1>3 DEF BulkTaken

\* Every answer lets its call go on: the rows a bulk call looked for.
LEMMA GoesBulk ==
  ASSUME NEW T, NEW U, NEW t, NEW e, NEW pick, NEW r, NEW js, Answering(T, U, t, e, pick, r, js),
         job[t].stmt.kind = "find", job[t].op \in Bulks, PickOK(e, pick)
  PROVE  /\ GoesOn(U, e.rows, e.serial, r.objs, js, spoilt, lost, t, job[t], r.todo, r.results)
         /\ Shifted(U, e, t, r.objs)
<1> DEFINE j == job[t]
           n == Len(objs)
           k == [js EXCEPT ![t] = Waiting(j, r.todo, r.results)]
<1>1. /\ Asked(T, t) /\ t \in Tasks /\ Executed(T, U, e, j.stmt) /\ JobOK(j, Len(objs))
      /\ World(T, rows, serial, objs, job, spoilt, lost, {})
      /\ ObjsOK(objs) /\ objs \in Seq(Instance) /\ DOMAIN objs = 1 .. n /\ n \in Nat /\ DOMAIN js = Tasks /\ e.ok
      /\ r = Resume(j, e, objs, pick) /\ r.ok /\ RowsIn(e)
  BY AnsweringIs DEF RowsIn
<1>3. PICK a \in Record, b \in Record :
        /\ r.objs \in Seq(Instance) /\ \A x \in DOMAIN objs : r.objs[x] = objs[x]
        /\ Answered(r, a, b, e, pick) /\ Plan(r.todo, r.objs, n)
  BY TakenBulk DEF BulkTaken
<1>4. PICK made \in BOOLEAN, more \in BOOLEAN :
        /\ For(r.objs[n + 1], a, made, e, pick)
        /\ \/ Len(r.objs) = n + 1 /\ r.results = <<Result(n + 1, made), Result(n + 1, FALSE)>>
           \/ /\ Len(r.objs) = n + 2 /\ For(r.objs[n + 2], b, more, e, pick)
              /\ r.results = <<Result(n + 1, made), Result(n + 2, more)>>
  BY <1>3 DEF Answered
<1> HIDE DEF n, j
<1>5. /\ n < Len(r.objs) /\ DOMAIN r.objs = 1 .. Len(r.objs) /\ Len(r.objs) \in Nat
      /\ {q.o : q \in ToSet(r.results)} = (n + 1) .. Len(r.objs)
  <2>a. n \in Nat /\ DOMAIN r.objs = 1 .. Len(r.objs) /\ Len(r.objs) \in Nat
    BY <1>1, <1>3
  <2>1. CASE Len(r.objs) = n + 1 /\ r.results = <<Result(n + 1, made), Result(n + 1, FALSE)>>
    <3>1. {q.o : q \in ToSet(r.results)} = {n + 1}
      BY <2>1 DEF ToSet, Result
    <3>2. (n + 1) .. Len(r.objs) = {n + 1} /\ n < Len(r.objs)
      BY <2>a, <2>1
    <3> QED BY <2>a, <3>1, <3>2
  <2>2. CASE Len(r.objs) = n + 2 /\ r.results = <<Result(n + 1, made), Result(n + 2, more)>>
    <3>1. ToSet(r.results) = {Result(n + 1, made), Result(n + 2, more)}
      BY <2>2 DEF ToSet
    <3>2. {q.o : q \in ToSet(r.results)} = {n + 1, n + 2}
      BY <3>1 DEF Result
    <3>3. (n + 1) .. Len(r.objs) = {n + 1, n + 2} /\ n < Len(r.objs)
      BY <2>a, <2>2
    <3> QED BY <2>a, <3>2, <3>3
  <2> QED BY <1>4, <2>1, <2>2
<1>6. \A x \in DOMAIN r.objs \ DOMAIN objs :
        \E rec \in Record, c \in BOOLEAN : For(r.objs[x], rec, c, e, pick)
  <2> SUFFICES ASSUME NEW x \in DOMAIN r.objs \ DOMAIN objs
               PROVE  \E rec \in Record, c \in BOOLEAN : For(r.objs[x], rec, c, e, pick)
    OBVIOUS
  <2>1. x = n + 1 \/ (Len(r.objs) = n + 2 /\ x = n + 2)
    <3>1. n \in Nat /\ x \in 1 .. Len(r.objs) /\ x \notin 1 .. n /\ Len(r.objs) \in {n + 1, n + 2}
      BY <1>1, <1>4, <1>5
    <3> QED BY <3>1
  <2> QED BY <1>1, <1>4, <2>1
<1>7. \A x \in DOMAIN r.objs \ DOMAIN objs :
         /\ Fresh(r.objs[x], e) /\ (~r.objs[x].in_db => r.objs[x].id \in {None, OwnId})
         /\ (\A p \in DOMAIN e.rows : e.rows[p].state # None) => (r.objs[x].in_db => r.objs[x].state # None)
  <2> SUFFICES ASSUME NEW x \in DOMAIN r.objs \ DOMAIN objs
               PROVE  /\ Fresh(r.objs[x], e) /\ (~r.objs[x].in_db => r.objs[x].id \in {None, OwnId})
                      /\ (\A p \in DOMAIN e.rows : e.rows[p].state # None) => (r.objs[x].in_db => r.objs[x].state # None)
    OBVIOUS
  <2>1. PICK rec \in Record, c \in BOOLEAN : For(r.objs[x], rec, c, e, pick)
    BY <1>6
  <2> HIDE DEF k
  <2> QED BY <2>1, ForFresh
<1>8. Moved(U, e, t, r.objs, {})
  <2>1. Len(objs) <= Len(r.objs) /\ job[t].stmt.kind = "find"
    BY <1>1, <1>5 DEF n
  <2> QED BY <1>1, <1>3, <1>7, <2>1, MovedFound DEF j
<1>9. \A i \in DOMAIN r.todo : /\ \A o \in ToSet(r.todo[i].os) :
                                    /\ o \in DOMAIN r.objs \ DOMAIN objs
                                    /\ r.todo[i].do = "insert" => ~r.objs[o].in_db
                                    /\ r.todo[i].do = "update" => r.objs[o].in_db
                               /\ r.todo[i].do \in {"insert", "update"}
  <2> SUFFICES ASSUME NEW i \in DOMAIN r.todo
               PROVE  /\ \A o \in ToSet(r.todo[i].os) :
                                    /\ o \in DOMAIN r.objs \ DOMAIN objs
                                    /\ r.todo[i].do = "insert" => ~r.objs[o].in_db
                                    /\ r.todo[i].do = "update" => r.objs[o].in_db
                      /\ r.todo[i].do \in {"insert", "update"}
    OBVIOUS
  <2>1. Work(r.todo[i], r.objs, n)
    BY <1>3 DEF Plan
  <2>2. r.todo[i].do \in {"insert", "update"}
    BY <2>1 DEF Work, Items
  <2>3. \A o \in ToSet(r.todo[i].os) : o \in DOMAIN r.objs /\ n < o
    BY <1>5, <2>1 DEF Work, BatchOK, ToSet
  <2>4. \A o \in ToSet(r.todo[i].os) : /\ r.todo[i].do = "insert" => ~r.objs[o].in_db
                                       /\ r.todo[i].do = "update" => r.objs[o].in_db
    BY <2>1 DEF Work
  <2> QED BY <1>1, <2>2, <2>3, <2>4
<1>10. TodoLin(r.todo, r.objs)
  BY <1>7, <1>9 DEF TodoLin
<1>11. ~lost => TodoCareful(r.todo, r.objs)
  <2> SUFFICES ASSUME ~lost, NEW i \in DOMAIN r.todo PROVE Careful(r.todo[i], r.objs)
    BY DEF TodoCareful
  <2>1. \A p \in DOMAIN e.rows : e.rows[p].state # None
    BY <1>1 DEF Asked, Read, Executed, TableStep, JobInv, j
  <2> QED BY <1>7, <1>9, <2>1 DEF Careful
<1>12. World(U, e.rows, e.serial, r.objs, k, spoilt, lost, {})
  <2>1. Planned(r.todo, r.objs, Len(objs))
    BY <1>3 DEF Planned, Plan, n
  <2> QED BY <1>5, <1>8, <1>10, <1>11, <2>1, WorldMade DEF j, n
<1>13. Shifted(U, e, t, r.objs)
  BY <1>8 DEF Shifted
<1> QED BY <1>12, <1>13 DEF GoesOn, j

-----------------------------------------------------------------------------
(* The invariant of the specification, and the calls that end without an answer. *)

\* The parts of the invariant in the next state, whose declaration is the same.
LEMMA JobOKPrimed ==
  ASSUME decl' = decl, NEW t \in Tasks, JobOK(job'[t], Len(objs'))
  PROVE  JobOK(job[t], Len(objs))'
BY DEF JobOK, StmtOK

\* See JobOKPrimed.
LEMMA JobInvPrimed ==
  ASSUME decl' = decl, NEW T, NEW t \in Tasks, JobInv(T, serial', objs', spoilt', lost', job'[t])
  PROVE  JobInv(T, serial, objs, spoilt, lost, job[t])'
BY DEF JobInv, StmtLin, InsertLin, UpdateLin, ReloadLin, Kin

\* See JobOKPrimed.
LEMMA WorldPrimed ==
  ASSUME decl' = decl, NEW T, World(T, rows', serial', objs', job', spoilt', lost', {})
  PROVE  World(T, rows, serial, objs, job, spoilt, lost, {})'
<1>1. decl' \in Declarations
  BY DEF World
<1>2. Base(T, rows, serial, objs, spoilt)'
  BY DEF World, Base, RowsLin, Holds, Inserted, UniqueKeys, RowOf, Kin
<1>3. (DOMAIN job = Tasks)'
  BY DEF World
<1>4. \A t \in Tasks : (JobOK(job[t], Len(objs)) /\ JobInv(T, serial, objs, spoilt, lost, job[t]))'
  BY JobOKPrimed, JobInvPrimed DEF World
<1>5. (\A t, u \in Tasks : t # u => Apart(job[t], job[u], spoilt))'
  BY DEF World
<1>6. (~lost => Read(rows, objs, job, {}))'
  BY DEF World
<1> QED BY <1>1, <1>2, <1>3, <1>4, <1>5, <1>6 DEF World

\* What holds of every state.
Settled(js) == js = [t \in Tasks |-> js[t]] /\ \A t \in Tasks : js[t].stmt.kind = "none" => js[t] = Idle

Inv ==
  /\ calls \in Stamps /\ lost \in BOOLEAN
  /\ Settled(job)
  /\ clean \in Seq(SUBSET Columns) /\ Len(clean) = Len(objs)
  /\ \E T : World(T, rows, serial, objs, job, spoilt, lost, {})

\* A step that leads from one such state to the next.
Onward ==
  /\ decl' = decl /\ calls' \in Stamps /\ lost' \in BOOLEAN
  /\ Settled(job')
  /\ clean' \in Seq(SUBSET Columns) /\ Len(clean') = Len(objs')
  /\ \E U : World(U, rows', serial', objs', job', spoilt', lost', {})
  /\ StampStays

\* A step onward leads to a state of the invariant.
LEMMA OnwardInv ==
  ASSUME Onward
  PROVE  Inv'
<1>1. PICK U : World(U, rows', serial', objs', job', spoilt', lost', {})
  BY DEF Onward
<1>2. decl' = decl
  BY DEF Onward
<1>3. World(U, rows, serial, objs, job, spoilt, lost, {})'
  BY <1>1, <1>2, WorldPrimed
<1>4. (\E T : World(T, rows, serial, objs, job, spoilt, lost, {}))'
  BY <1>3
<1> QED BY <1>4 DEF Onward, Inv, Settled

\* One set of columns for each instance.
LEMMA CleanSeq ==
  ASSUME NEW os \in Seq(Instance), NEW f, f = [o \in DOMAIN os |-> f[o]],
         \A o \in DOMAIN os : f[o] \in SUBSET Columns
  PROVE  f \in Seq(SUBSET Columns) /\ Len(f) = Len(os)
<1> DEFINE m == Len(os)
<1>1. m \in Nat /\ DOMAIN os = 1 .. m
  OBVIOUS
<1> HIDE DEF m
<1>2. f \in [1 .. m -> SUBSET Columns]
  BY <1>1
<1>3. f \in Seq(SUBSET Columns) /\ Len(f) = m
  BY <1>1, <1>2
<1> QED BY <1>3 DEF m

\* Only a task without a call has no statement on the wire.
LEMMA SettledIdle ==
  ASSUME Settled(job), NEW t \in Tasks, NEW js, DOMAIN js = Tasks, js = [u \in Tasks |-> js[u]],
         \A u \in Tasks \ {t} : Alike2(job[u], js[u]),
         NEW js2, js2 = [u \in Tasks |-> js2[u]], \A u \in Tasks \ {t} : js2[u] = js[u],
         js2[t] = Idle \/ js2[t].stmt.kind # "none",
         \A u \in Tasks \ {t} : job[u] = Idle => js[u] = Idle,
         \A u \in Tasks : \E m : JobOK(job[u], m)
  PROVE  Settled(js2)
<1>1. \A u \in Tasks \ {t} : js[u].stmt = job[u].stmt
  BY AlikeKeeps
<1> QED BY <1>1 DEF Settled

\* What the call that promised to look first learns is all that others change in it.
LEMMA WitnessedIs ==
  ASSUME Settled(job), NEW t \in Tasks, NEW changed \in BOOLEAN,
         NEW T, World(T, rows, serial, objs, job, spoilt, lost, {})
  PROVE  LET js == Witnessed(job, t, changed) IN
         /\ DOMAIN js = Tasks /\ js = [u \in Tasks |-> js[u]]
         /\ \A u \in Tasks \ {t} : Alike2(job[u], js[u]) /\ (job[u] = Idle => js[u] = Idle)
<1> DEFINE js == Witnessed(job, t, changed)
<1>1. /\ DOMAIN js = Tasks /\ js = [u \in Tasks |-> js[u]]
      /\ \A u \in Tasks : js[u] = IF u # t /\ changed /\ job[u].op \in Promising
                                  THEN [job[u] EXCEPT !.alone = FALSE] ELSE job[u]
  BY DEF Witnessed
<1>2. Idle.op \notin Promising
  BY DEF Idle, Promising
<1> HIDE DEF js
<1>3. \A u \in Tasks \ {t} : Alike2(job[u], js[u]) /\ (job[u] = Idle => js[u] = Idle)
  BY <1>1, <1>2 DEF Alike2
<1> QED BY <1>1, <1>3 DEF js

\* A call ends, whatever became of its statement.
LEMMA Ended ==
  ASSUME NEW T, World(T, rows, serial, objs, job, spoilt, lost, {}), NEW t \in Tasks,
         NEW U, NEW m, NEW rs, Extends(T, U, serial), m \in Nat, serial <= m, RowsLin(U, m, rs),
         RowsOK(rs, Len(objs)), \A x \in DOMAIN objs : Holds(U, m, objs[x]),
         NEW sp, sp = spoilt \cup UsedBy(job[t].stmt), Inserted(rs, objs, sp),
         NEW ls \in BOOLEAN, ls <=> lost \/ job[t].stmt.kind = "defaults",
         ~ls => \A p \in DOMAIN rs : rs[p].state # None,
         NEW js, DOMAIN js = Tasks, \A u \in Tasks \ {t} : Alike2(job[u], js[u]), js[t] = Idle
  PROVE  World(U, rs, m, objs, js, sp, ls, {})
<1>1. /\ Lines(T) /\ Lines(U) /\ serial \in Nat /\ ObjsOK(objs) /\ spoilt \subseteq 1 .. Len(objs)
      /\ Len(objs) \in Nat /\ decl \in Declarations /\ JobOK(job[t], Len(objs))
  BY DEF World, Base, Extends, ObjsOK
<1>2. sp \subseteq 1 .. Len(objs)
  <2>1. \A x \in UsedBy(job[t].stmt) : x \in 1 .. Len(objs)
    BY OthersOld DEF Busied
  <2> QED BY <1>1, <2>1
<1>3. Base(U, rs, m, objs, sp)
  BY <1>1, <1>2 DEF Base
<1>4. \A u \in Tasks \ {t} : JobOK(js[u], Len(objs)) /\ JobInv(U, m, objs, sp, ls, js[u])
  <2> SUFFICES ASSUME NEW u \in Tasks \ {t}
               PROVE  JobOK(js[u], Len(objs)) /\ JobInv(U, m, objs, sp, ls, js[u])
    OBVIOUS
  <2>1. JobOK(job[u], Len(objs)) /\ JobInv(T, serial, objs, spoilt, lost, job[u])
        /\ Apart(job[u], job[t], spoilt)
    BY DEF World
  <2>2. Made(job[u]) \cap sp = {}
    BY <2>1 DEF JobInv, JobOwn, Apart, Busied
  <2>3. \A x : Same(objs[x], objs[x]) /\ Evolves(objs[x], objs[x])
    BY DEF Same, Evolves
  <2>4. JobOK(job[u], Len(objs)) /\ JobInv(U, m, objs, sp, ls, job[u])
    <3>1. spoilt \subseteq sp /\ (lost => ls) /\ Len(objs) <= Len(objs)
      BY <1>1
    <3> QED BY <1>1, <2>1, <2>2, <2>3, <3>1, JobKeeps
  <2> QED BY <2>4, AlikeKeeps
<1>5. /\ Idle.stmt.kind = "none" /\ Idle.todo = <<>> /\ Idle.results = <<>>
      /\ Later(Idle) = {} /\ Made(Idle) = {} /\ UsedBy(Idle.stmt) = {} /\ Busied(Idle) = {}
  BY DEF Idle, Later, Made, UsedBy, Busied, ToSet
<1>6. JobOK(Idle, Len(objs)) /\ JobInv(U, m, objs, sp, ls, Idle)
  BY <1>1, <1>5, IdleOK DEF JobInv, StmtLin, TodoLin, Agrees, Writing, TodoFits, JobOwn, StateGiven, TodoCareful
<1>7. \A u \in Tasks \ {t} : Busied(js[u]) = Busied(job[u]) /\ Made(js[u]) = Made(job[u]) /\ js[u].stmt = job[u].stmt
  <2>1. \A u \in Tasks : JobOK(job[u], Len(objs))
    BY DEF World
  <2> QED BY <2>1, AlikeKeeps
<1>8. \A u, v \in Tasks : u # v => Apart(js[u], js[v], sp)
  <2> SUFFICES ASSUME NEW u \in Tasks, NEW v \in Tasks, u # v PROVE Apart(js[u], js[v], sp)
    OBVIOUS
  <2>1. CASE u = t \/ v = t
    BY <1>5, <2>1 DEF Apart
  <2>2. CASE u # t /\ v # t
    <3>1. Apart(job[u], job[v], spoilt)
      BY DEF World
    <3> QED BY <1>7, <2>2, <3>1 DEF Apart
  <2> QED BY <2>1, <2>2
<1>9. ~ls => Read(rs, objs, js, {})
  <2> SUFFICES ASSUME ~ls PROVE Read(rs, objs, js, {})
    OBVIOUS
  <2>1. Read(rows, objs, job, {}) /\ job[t].stmt.kind # "defaults"
    BY DEF World
  <2>2. \A o : Awaited(job, o) => Awaited(js, o)
    BY <1>7, <2>1 DEF Awaited
  <2> QED BY <2>1, <2>2 DEF Read
<1>10. \A u \in Tasks : JobOK(js[u], Len(objs)) /\ JobInv(U, m, objs, sp, ls, js[u])
  BY <1>4, <1>6
<1> QED BY <1>1, <1>3, <1>8, <1>9, <1>10 DEF World

\* A statement that the database executed continues T.
LEMMA ExecutedIs ==
  ASSUME NEW T, World(T, rows, serial, objs, job, spoilt, lost, {}), NEW t \in Tasks,
         NEW e, e = Execute(job[t].stmt), e.ok
  PROVE  Executed(T, Further(T, serial, e.rows), e, job[t].stmt)
<1> DEFINE s == job[t].stmt
<1>1. Base(T, rows, serial, objs, spoilt) /\ StmtOK(s, Len(objs)) /\ StmtLin(T, serial, s, objs)
  BY DEF World, JobOK, JobInv
<1>2. TableStep(T, e, s) /\ RowsOK(e.rows, Len(objs))
  <2>1. Execute(s).ok
    OBVIOUS
  <2>2. e = Execute(s)
    OBVIOUS
  <2> HIDE DEF s
  <2> QED BY <1>1, <2>1, <2>2, StepOK
<1>3. /\ Lines(T) /\ serial \in Nat /\ e.serial \in Nat /\ serial <= e.serial /\ TableOK(e.rows, e.serial)
      /\ \A p \in DOMAIN e.rows : p \in Gen /\ p <= serial => Kin(T, p, e.rows[p])
  BY <1>1, <1>2 DEF Base, TableStep, TableOK
<1>4. Extends(T, Further(T, serial, e.rows), serial) /\ RowsLin(Further(T, serial, e.rows), e.serial, e.rows)
  BY <1>3, FurtherOK
<1> QED BY <1>2, <1>4 DEF Executed

\* No statement takes the sequence back, whether it is accepted or not.
LEMMA SerialOn ==
  ASSUME NEW T, World(T, rows, serial, objs, job, spoilt, lost, {}), NEW t \in Tasks
  PROVE  Execute(job[t].stmt).serial \in Nat /\ serial <= Execute(job[t].stmt).serial
<1> DEFINE s == job[t].stmt
<1>1. Base(T, rows, serial, objs, spoilt) /\ StmtOK(s, Len(objs)) /\ s.kind \in Kinds /\ serial \in Nat
  BY DEF World, JobOK, Base, StmtOK
<1>2. TableOK(rows, serial)
  BY <1>1, TableIsOK
<1> HIDE DEF s
<1>3. CASE s.kind = "insert"
  <2>1. s.values \in Seq(Value) /\ Execute(s) = ExecuteInsert(s.values)
    BY <1>1, <1>3, ExecuteKinds DEF StmtOK, InsertOK
  <2>2. Execute(s).serial = Sequence(s.values)
    BY <2>1 DEF ExecuteInsert
  <2> QED BY <1>1, <2>1, <2>2, SequenceOn DEF s
<1>4. CASE s.kind = "upsert"
  <2>1. /\ InsertOK(s, Len(objs)) /\ Len(s.os) = 2 /\ s.cols \in SUBSET {"author"}
        /\ Execute(s) = ExecuteUpsert(s.values, s.cols)
    BY <1>1, <1>4, ExecuteKinds DEF StmtOK
  <2>2. s.values \in Seq(Value) /\ Len(s.values) = 2 /\ 1 \in DOMAIN s.os /\ 2 \in DOMAIN s.os
    BY <2>1 DEF InsertOK, BatchOK
  <2>3. s.values[1].by # s.values[2].by
    BY <2>1, <2>2 DEF InsertOK, BatchOK, Once
  <2> QED BY <1>2, <2>1, <2>2, <2>3, UpsertsBoth DEF TableOK, s
<1>5. CASE s.kind = "update"
  <2>1. Execute(s) = ExecuteUpdate(s.ids, s.values)
    BY <1>1, <1>5, ExecuteKinds
  <2>2. Execute(s).serial = serial
    BY <2>1 DEF ExecuteUpdate
  <2> QED BY <1>1, <2>2 DEF s
<1>6. CASE s.kind \notin {"insert", "upsert", "update"}
  <2>1. Execute(s).serial = serial
    BY <1>1, <1>6, ExecuteKinds DEF Unchanged
  <2> QED BY <1>1, <2>1 DEF s
<1> QED BY <1>3, <1>4, <1>5, <1>6

\* Rows a statement leaves there keep their time of creation.
LEMMA StampsKept ==
  ASSUME NEW T, World(T, rows, serial, objs, job, spoilt, lost, {}), NEW U, NEW e, NEW s, Executed(T, U, e, s),
         rows' = e.rows
  PROVE  StampStays
BY RowsStay DEF StampStays, World

\* Forgetting columns keeps one set for each instance.
LEMMA ForgetOK ==
  ASSUME clean \in Seq(SUBSET Columns), NEW S
  PROVE  Forget(clean, S) \in Seq(SUBSET Columns) /\ Len(Forget(clean, S)) = Len(clean)
<1> DEFINE f == Forget(clean, S)
           m == Len(clean)
<1>1. m \in Nat /\ DOMAIN clean = 1 .. m
  OBVIOUS
<1>2. f = [o \in 1 .. m |-> f[o]] /\ \A o \in 1 .. m : f[o] \in SUBSET Columns
  BY <1>1 DEF Forget
<1> HIDE DEF f, m
<1>3. f \in [1 .. m -> SUBSET Columns]
  BY <1>2
<1>4. f \in Seq(SUBSET Columns) /\ Len(f) = m
  BY <1>1, <1>3
<1> QED BY <1>4 DEF f, m

\* The call of t ends with the table as in e.
LEMMA EndsAs ==
  ASSUME Inv, NEW t \in Tasks, NEW T, World(T, rows, serial, objs, job, spoilt, lost, {}),
         NEW e, \/ e.rows = rows /\ e.serial \in Nat /\ serial <= e.serial
                \/ e = Execute(job[t].stmt) /\ e.ok,
         NEW sp, sp = spoilt \cup UsedBy(job[t].stmt),
         NEW ls \in BOOLEAN, ls <=> lost \/ job[t].stmt.kind = "defaults",
         NEW js, DOMAIN js = Tasks, \A u \in Tasks \ {t} : Alike2(job[u], js[u]), js[t] = Idle
  PROVE  /\ \E U : World(U, e.rows, e.serial, objs, js, sp, ls, {})
         /\ rows' = e.rows => StampStays
<1>1. /\ Base(T, rows, serial, objs, spoilt) /\ Lines(T) /\ serial \in Nat /\ ObjsOK(objs)
      /\ RowsLin(T, serial, rows) /\ RowsOK(rows, Len(objs)) /\ DOMAIN objs = 1 .. Len(objs)
      /\ Inserted(rows, objs, spoilt) /\ \A x \in DOMAIN objs : Holds(T, serial, objs[x])
  BY DEF World, Base, ObjsOK
<1>2. CASE e.rows = rows /\ e.serial \in Nat /\ serial <= e.serial
  <2>1. Extends(T, T, serial)
    BY <1>1 DEF Extends
  <2>2. Inserted(rows, objs, sp)
    BY <1>1 DEF Inserted
  <2>3. ~ls => \A p \in DOMAIN rows : rows[p].state # None
    BY DEF World, Read
  <2>6. RowsLin(T, e.serial, rows) /\ \A x \in DOMAIN objs : Holds(T, e.serial, objs[x])
    <3>1. Gen \subseteq Nat /\ OwnId \in Nat /\ None \notin Nat
      BY PersistenceAssumption DEF Gen
    <3>2. DOMAIN rows \subseteq Nat
      BY <1>1, <3>1 DEF RowsOK
    <3>3. RowsLin(T, e.serial, rows)
      BY <1>1, <1>2, <3>2 DEF RowsLin
    <3>4. ASSUME NEW x \in DOMAIN objs PROVE Holds(T, e.serial, objs[x])
      <4>1. objs[x].id \in Gen => objs[x].id \in Nat /\ objs[x].id <= serial /\ Kin(T, objs[x].id, objs[x])
        BY <1>1, <3>1 DEF Holds
      <4>2. \A p \in Nat : p <= serial => p <= e.serial
        BY <1>1, <1>2
      <4> QED BY <4>1, <4>2 DEF Holds
    <3> QED BY <3>3, <3>4
  <2>4. World(T, rows, e.serial, objs, js, sp, ls, {})
    BY <1>1, <1>2, <2>1, <2>2, <2>3, <2>6, Ended
  <2>5. rows' = e.rows => StampStays
    BY <1>2 DEF StampStays
  <2> QED BY <1>2, <2>4, <2>5
<1>3. CASE e = Execute(job[t].stmt) /\ e.ok
  <2> DEFINE U == Further(T, serial, e.rows)
             s == job[t].stmt
  <2>1. Executed(T, U, e, s)
    BY <1>3, ExecutedIs
  <2> HIDE DEF U
  <2>2. /\ Extends(T, U, serial) /\ e.serial \in Nat /\ serial <= e.serial /\ RowsLin(U, e.serial, e.rows)
        /\ RowsOK(e.rows, Len(objs))
    BY <2>1 DEF Executed, TableStep, TableOK
  <2>3. \A x \in DOMAIN objs : Holds(U, e.serial, objs[x])
    BY <1>1, <2>1, HeldSame
  <2>4. Inserted(e.rows, objs, sp)
    <3>1. UniqueKeys(e.rows)
      BY <2>1 DEF Executed, TableStep
    <3>2. ASSUME NEW o \in DOMAIN objs \ sp, NEW p \in DOMAIN e.rows \ {OwnId}, e.rows[p].by = o
          PROVE  RowOf(objs[o], p, e.rows[p])
      <4>1. p \in DOMAIN rows
        BY <2>1, <3>2 DEF Executed, TableStep
      <4>2. rows[p].by = o
        BY <2>1, <3>2, <4>1 DEF Executed, TableStep
      <4>3. RowOf(objs[o], p, rows[p])
        BY <1>1, <4>1, <4>2 DEF Inserted
      <4> QED BY <1>1, <2>1, <4>1, <4>3, RowOfSame
    <3> QED BY <3>1, <3>2 DEF Inserted
  <2>5. ~ls => \A p \in DOMAIN e.rows : e.rows[p].state # None
    BY <2>1 DEF World, Read, Executed, TableStep, JobInv
  <2>6. World(U, e.rows, e.serial, objs, js, sp, ls, {})
    <3> HIDE DEF s
    <3> QED BY <2>2, <2>3, <2>4, <2>5, Ended
  <2>7. rows' = e.rows => StampStays
    BY <2>1, StampsKept
  <2> QED BY <2>6, <2>7
<1> QED BY <1>2, <1>3

\* A call raises: its statement was refused, or its answer was not one to go on with.
LEMMA FailStep ==
  ASSUME Inv, NEW t \in Tasks, Fail(t)
  PROVE  Onward
<1>1. PICK T : World(T, rows, serial, objs, job, spoilt, lost, {})
  BY DEF Inv
<1>2. /\ job' = [job EXCEPT ![t] = Idle] /\ spoilt' = spoilt \cup UsedBy(job[t].stmt)
      /\ clean' = Forget(clean, UsedBy(job[t].stmt)) /\ lost' = (lost \/ job[t].stmt.kind = "defaults")
      /\ decl' = decl /\ rows' = rows /\ objs' = objs /\ calls' = calls
      /\ serial' \in serial .. Execute(job[t].stmt).serial
  BY DEF Fail, Raised
<1>3. Settled(job) /\ lost \in BOOLEAN /\ clean \in Seq(SUBSET Columns) /\ Len(clean) = Len(objs) /\ calls \in Stamps
  BY DEF Inv
<1>4. DOMAIN job' = Tasks /\ job'[t] = Idle /\ \A u \in Tasks \ {t} : job'[u] = job[u] /\ Alike2(job[u], job'[u])
  BY <1>2, <1>3 DEF Settled, Alike2
<1> DEFINE e == [rows |-> rows, serial |-> serial']
<1>8. serial' \in Nat /\ serial <= serial'
  <2>1. serial \in Nat
    BY <1>1 DEF World, Base
  <2> QED BY <1>1, <1>2, <2>1, SerialOn
<1>5. (\E U : World(U, e.rows, e.serial, objs, job', spoilt', lost', {})) /\ (rows' = e.rows => StampStays)
  <2>1. lost' \in BOOLEAN /\ (lost' <=> lost \/ job[t].stmt.kind = "defaults")
    BY <1>2
  <2>2. e.rows = rows /\ e.serial \in Nat /\ serial <= e.serial
    BY <1>8
  <2> HIDE DEF e
  <2> QED BY <1>1, <1>2, <1>4, <2>1, <2>2, EndsAs
<1>6. Settled(job')
  BY <1>2, <1>3, <1>4 DEF Settled
<1>7. clean' \in Seq(SUBSET Columns) /\ Len(clean') = Len(objs')
  BY <1>2, <1>3, ForgetOK
<1> QED BY <1>2, <1>3, <1>5, <1>6, <1>7 DEF Onward

\* What is known of an instance are some of its columns.
LEMMA KnownCols ==
  ASSUME NEW t \in Tasks, NEW n, JobOK(job[t], n), NEW s, s = job[t].stmt \/ s = [job[t].stmt EXCEPT !.os = <<>>],
         job[t].stmt.kind # "none",
         clean \in Seq(SUBSET Columns), Len(clean) = Len(objs), ObjsOK(objs), NEW o, NEW e, NEW os
  PROVE  Known(o, s, e, os) \in SUBSET Columns
<1>1. o \in Objs => clean[o] \in SUBSET Columns
  BY DEF ObjsOK, Objs
<1>2. s.kind = "update" /\ o \in ToSet(s.os) => DOMAIN s.values[1] \subseteq Columns
  <2>1. CASE s = job[t].stmt
    <3>1. s.kind = "update" => s.os \in Seq(1 .. n) /\ s.os # <<>> /\ \A i \in DOMAIN s.os : PartOK(s.values[i])
      BY <2>1 DEF JobOK, StmtOK, BatchOK
    <3>2. s.kind = "update" => 1 \in DOMAIN s.os
      BY <3>1
    <3> QED BY <3>1, <3>2 DEF PartOK
  <2>2. CASE s = [job[t].stmt EXCEPT !.os = <<>>]
    <3>1. "os" \in DOMAIN job[t].stmt
      BY DEF JobOK, StmtOK
    <3>2. s.os = <<>>
      BY <2>2, <3>1
    <3> QED BY <3>2 DEF ToSet
  <2> QED BY <2>1, <2>2
<1> QED BY <1>1, <1>2 DEF Known

\* A call is cancelled at its await, with its statement executed or not.
LEMMA CancelStep ==
  ASSUME Inv, NEW t \in Tasks, Cancel(t)
  PROVE  Onward
<1>1. PICK T : World(T, rows, serial, objs, job, spoilt, lost, {})
  BY DEF Inv
<1>2. PICK e \in Outcomes(Execute(job[t].stmt)) :
        /\ rows' = e.rows /\ serial' = e.serial
        /\ spoilt' = spoilt \cup UsedBy(job[t].stmt)
        /\ job' = [Witnessed(job, t, e.rows # rows) EXCEPT ![t] = Idle]
        /\ clean' = [o \in Objs |-> IF o \in spoilt' THEN {}
                                    ELSE Known(o, [job[t].stmt EXCEPT !.os = <<>>], e, objs)]
  BY DEF Cancel
<1>3. /\ lost' = (lost \/ job[t].stmt.kind = "defaults") /\ job[t] # Idle
      /\ decl' = decl /\ objs' = objs /\ calls' = calls
  BY DEF Cancel
<1>4. /\ Settled(job) /\ lost \in BOOLEAN /\ clean \in Seq(SUBSET Columns) /\ Len(clean) = Len(objs) /\ calls \in Stamps
      /\ job[t].stmt.kind # "none" /\ ObjsOK(objs) /\ JobOK(job[t], Len(objs))
  BY <1>1, <1>3 DEF Inv, Settled, World, Base
<1> DEFINE js == Witnessed(job, t, e.rows # rows)
<1>5. /\ DOMAIN js = Tasks /\ js = [u \in Tasks |-> js[u]]
      /\ \A u \in Tasks \ {t} : Alike2(job[u], js[u]) /\ (job[u] = Idle => js[u] = Idle)
  BY <1>1, <1>4, WitnessedIs
<1> HIDE DEF js
<1>6. /\ DOMAIN job' = Tasks /\ job'[t] = Idle /\ job' = [u \in Tasks |-> job'[u]]
      /\ \A u \in Tasks \ {t} : job'[u] = js[u] /\ Alike2(job[u], job'[u])
  BY <1>2, <1>5 DEF js
<1>7. \/ e.rows = rows /\ e.serial \in serial .. Execute(job[t].stmt).serial
      \/ Execute(job[t].stmt).ok /\ e.rows = Execute(job[t].stmt).rows /\ e.serial = Execute(job[t].stmt).serial
  BY <1>2 DEF Outcomes
<1>8. (\E U : World(U, e.rows, e.serial, objs, job', spoilt', lost', {})) /\ (rows' = e.rows => StampStays)
  <2>1. lost' \in BOOLEAN /\ (lost' <=> lost \/ job[t].stmt.kind = "defaults")
    BY <1>3
  <2>a. spoilt' = spoilt \cup UsedBy(job[t].stmt) /\ World(T, rows, serial, objs, job, spoilt, lost, {})
        /\ DOMAIN job' = Tasks /\ job'[t] = Idle /\ \A u \in Tasks \ {t} : Alike2(job[u], job'[u])
    BY <1>1, <1>2, <1>6
  <2>2. CASE e.rows = rows /\ e.serial \in serial .. Execute(job[t].stmt).serial
    <3>1. serial \in Nat
      BY <1>1 DEF World, Base
    <3>2. e.serial \in Nat /\ serial <= e.serial
      BY <1>1, <2>2, <3>1, SerialOn
    <3> QED BY <2>a, <2>1, <2>2, <3>2, EndsAs
  <2>3. CASE Execute(job[t].stmt).ok /\ e.rows = Execute(job[t].stmt).rows /\ e.serial = Execute(job[t].stmt).serial
    <3> DEFINE f == Execute(job[t].stmt)
    <3>1. f = Execute(job[t].stmt) /\ f.ok
      BY <2>3
    <3> HIDE DEF f
    <3>2. (\E U : World(U, f.rows, f.serial, objs, job', spoilt', lost', {})) /\ (rows' = f.rows => StampStays)
      BY <2>a, <2>1, <3>1, EndsAs
    <3> QED BY <2>3, <3>1, <3>2
  <2> QED BY <1>7, <2>2, <2>3
<1>9. Settled(job')
  <2>1. \A u \in Tasks : JobOK(job[u], Len(objs))
    BY <1>1 DEF World
  <2> QED BY <1>4, <1>5, <1>6, <2>1, SettledIdle
<1>10. clean' \in Seq(SUBSET Columns) /\ Len(clean') = Len(objs')
  <2>1. \A o \in DOMAIN objs : clean'[o] \in SUBSET Columns
    <3>1. \A o : Known(o, [job[t].stmt EXCEPT !.os = <<>>], e, objs) \in SUBSET Columns
      BY <1>4, KnownCols
    <3> QED BY <1>2, <3>1 DEF Objs
  <2>2. clean' = [o \in DOMAIN objs |-> clean'[o]] /\ objs \in Seq(Instance)
    BY <1>2, <1>4 DEF Objs, ObjsOK
  <2> QED BY <1>3, <2>1, <2>2, CleanSeq
<1> QED BY <1>2, <1>3, <1>4, <1>8, <1>9, <1>10 DEF Onward

\* Without an answer a call cannot go on.
LEMMA ResumeRaises ==
  ASSUME NEW j, NEW e, ~e.ok, NEW os, NEW pick
  PROVE  ~Resume(j, e, os, pick).ok
<1>1. Resume(j, e, os, pick) = Raises
  BY DEF Resume
<1> QED BY <1>1 DEF Raises

\* The answer to the statement of t, and what the call does with it.
Proceeds(T, U, t, e, pick, r, js) ==
  /\ Answering(T, U, t, e, pick, r, js) /\ job[t].stmt.kind # "none"
  /\ e = Execute(job[t].stmt) /\ js = Witnessed(job, t, e.rows # rows)
  /\ job[t].stmt.kind = "find" => pick \in Picks(e, job[t].stmt.keys)
  /\ \A u \in Tasks \ {t} : job[u] = Idle => js[u] = Idle
  /\ rows' = e.rows /\ serial' = e.serial
  /\ Continue(js, t, job[t], r.objs, r.todo, r.results)
  /\ clean' = [o \in DOMAIN r.objs |-> Known(o, job[t].stmt, e, r.objs)]
  /\ UNCHANGED <<decl, calls, spoilt, lost, refused>>

\* An answer that is taken in is a statement executed, and a call that goes on from there.
LEMMA ProceedIs ==
  ASSUME Inv, NEW t \in Tasks, Proceed(t)
  PROVE  \E T, U, e, pick, r, js : Proceeds(T, U, t, e, pick, r, js)
<1> DEFINE j == job[t]
<1>1. PICK T : World(T, rows, serial, objs, job, spoilt, lost, {})
  BY DEF Inv
<1>2. /\ Settled(job) /\ lost \in BOOLEAN /\ clean \in Seq(SUBSET Columns) /\ Len(clean) = Len(objs) /\ calls \in Stamps
      /\ j.stmt.kind # "none" /\ ObjsOK(objs) /\ JobOK(j, Len(objs))
  BY <1>1 DEF Inv, Settled, World, Base, Proceed
<1> DEFINE e == Execute(j.stmt)
<1>3. PICK pick \in IF j.stmt.kind = "find" THEN Picks(e, j.stmt.keys) ELSE {<<>>} :
        \E r \in {Resume(j, e, objs, pick)} :
             /\ r.ok /\ Len(r.objs) <= MaxObjs
             /\ rows' = e.rows /\ serial' = e.serial
             /\ Continue(Witnessed(job, t, e.rows # rows), t, j, r.objs, r.todo, r.results)
             /\ clean' = [o \in DOMAIN r.objs |-> Known(o, j.stmt, e, r.objs)]
             /\ UNCHANGED <<decl, calls, spoilt, lost, refused>>
  BY DEF Proceed
<1> DEFINE r == Resume(j, e, objs, pick)
           js == Witnessed(job, t, e.rows # rows)
           U == Further(T, serial, e.rows)
<1>4. /\ r.ok /\ rows' = e.rows /\ serial' = e.serial
      /\ Continue(js, t, j, r.objs, r.todo, r.results)
      /\ clean' = [o \in DOMAIN r.objs |-> Known(o, j.stmt, e, r.objs)]
      /\ UNCHANGED <<decl, calls, spoilt, lost, refused>>
  BY <1>3
<1>5. e.ok
  <2> HIDE DEF e, j
  <2> QED BY <1>4, ResumeRaises
<1>6. Executed(T, U, e, j.stmt)
  <2>1. e = Execute(job[t].stmt)
    OBVIOUS
  <2> HIDE DEF e
  <2> QED BY <1>1, <1>5, <2>1, ExecutedIs
<1>7. /\ DOMAIN js = Tasks /\ js = [u \in Tasks |-> js[u]]
      /\ \A u \in Tasks \ {t} : Alike2(job[u], js[u]) /\ (job[u] = Idle => js[u] = Idle)
  <2> HIDE DEF e
  <2> QED BY <1>1, <1>2, WitnessedIs
<1>8. Answering(T, U, t, e, pick, r, js)
  <2> HIDE DEF e, U, js, r
  <2>1. r = Resume(job[t], e, objs, pick)
    BY DEF r
  <2> QED BY <1>1, <1>4, <1>6, <1>7, <2>1 DEF Answering
<1> HIDE DEF e, U, js, r
<1>9. /\ e = Execute(job[t].stmt) /\ js = Witnessed(job, t, e.rows # rows)
      /\ job[t].stmt.kind = "find" => pick \in Picks(e, job[t].stmt.keys)
  BY <1>3 DEF js, e
<1> QED BY <1>2, <1>4, <1>7, <1>8, <1>9 DEF Proceeds

\* What the call does with the answer leaves the world in order.
LEMMA ProceedsGoes ==
  ASSUME NEW T, NEW U, NEW t \in Tasks, NEW e, NEW pick, NEW r, NEW js, Proceeds(T, U, t, e, pick, r, js)
  PROVE  /\ GoesOn(U, e.rows, e.serial, r.objs, js, spoilt, lost, t, job[t], r.todo, r.results)
         /\ Shifted(U, e, t, r.objs) /\ JobOK(job[t], Len(objs))
         /\ job[t].stmt.kind = "find" => PickOK(e, pick)
<1> DEFINE j == job[t]
<1>1. Answering(T, U, t, e, pick, r, js) /\ JobOK(j, Len(objs))
  BY AnsweringIs DEF Proceeds
<1>2. j.stmt.kind = "find" => PickOK(e, pick)
  BY DEF Proceeds, Picks, PickOK
<1>3. GoesOn(U, e.rows, e.serial, r.objs, js, spoilt, lost, t, job[t], r.todo, r.results) /\ Shifted(U, e, t, r.objs)
  <2>1. CASE j.stmt.kind = "insert"
    BY <1>1, <2>1, GoesInsert
  <2>2. CASE j.stmt.kind \in {"upsert", "update", "delete", "defaults", "reload", "relation", "prefetch"}
    BY <1>1, <2>2, GoesPlain
  <2>3. CASE j.stmt.kind = "find" /\ j.op \in Finders
    BY <1>1, <2>3, GoesGet
  <2>4. CASE j.stmt.kind = "find" /\ j.op \in Bulks
    BY <1>1, <1>2, <2>4, GoesBulk
  <2>5. j.stmt.kind \in Kinds /\ (j.stmt.kind = "find" => j.op \in Finders \cup Bulks)
    BY <1>1 DEF JobOK, StmtOK, Finding
  <2>6. j.stmt.kind # "none"
    BY DEF Proceeds
  <2> HIDE DEF j
  <2> QED BY <2>1, <2>2, <2>3, <2>4, <2>5, <2>6 DEF Kinds
<1> QED BY <1>1, <1>2, <1>3

\* The next statement, or the end of the call.
LEMMA ProceedsNext ==
  ASSUME NEW T, NEW U, NEW t \in Tasks, NEW e, NEW pick, NEW r, NEW js, Proceeds(T, U, t, e, pick, r, js)
  PROVE  /\ World(U, e.rows, e.serial, objs', job', spoilt, lost, {}) /\ Len(objs') = Len(r.objs)
         /\ job'[t] = Idle \/ job'[t].stmt.kind # "none"
         /\ \A u \in Tasks \ {t} : job'[u] = js[u]
         /\ Takes(t, job[t], r.objs, r.todo, r.results)
<1> DEFINE j == job[t]
<1>1. GoesOn(U, e.rows, e.serial, r.objs, js, spoilt, lost, t, j, r.todo, r.results) /\ JobOK(j, Len(objs))
  BY ProceedsGoes
<1>2. Continue(js, t, j, r.objs, r.todo, r.results) /\ DOMAIN js = Tasks /\ js = [u \in Tasks |-> js[u]]
  BY DEF Proceeds, Answering
<1>3. Shaped(j)
  BY <1>1 DEF Shaped, JobOK
<1> HIDE DEF j
<1> QED BY <1>1, <1>2, <1>3, Continued DEF j

\* An answer arrives and the call goes on, to its next statement or its end.
LEMMA ProceedStep ==
  ASSUME Inv, NEW t \in Tasks, Proceed(t)
  PROVE  Onward
<1> DEFINE j == job[t]
<1>1. PICK T, U, e, pick, r, js : Proceeds(T, U, t, e, pick, r, js)
  BY ProceedIs
<1>2. /\ Settled(job) /\ lost \in BOOLEAN /\ clean \in Seq(SUBSET Columns) /\ Len(clean) = Len(objs) /\ calls \in Stamps
  BY DEF Inv
<1>3. /\ GoesOn(U, e.rows, e.serial, r.objs, js, spoilt, lost, t, j, r.todo, r.results) /\ JobOK(j, Len(objs))
  BY <1>1, ProceedsGoes
<1>4. /\ rows' = e.rows /\ serial' = e.serial
      /\ Continue(js, t, j, r.objs, r.todo, r.results)
      /\ clean' = [o \in DOMAIN r.objs |-> Known(o, j.stmt, e, r.objs)]
      /\ decl' = decl /\ calls' = calls /\ spoilt' = spoilt /\ lost' = lost
  BY <1>1 DEF Proceeds
<1>7. /\ DOMAIN js = Tasks /\ js = [u \in Tasks |-> js[u]] /\ Executed(T, U, e, j.stmt)
      /\ \A u \in Tasks \ {t} : Alike2(job[u], js[u]) /\ (job[u] = Idle => js[u] = Idle)
      /\ World(T, rows, serial, objs, job, spoilt, lost, {})
  BY <1>1 DEF Proceeds, Answering
<1>8. j.stmt.kind # "none" /\ ObjsOK(objs)
  BY <1>1, <1>7 DEF World, Base, Proceeds
<1>10. /\ World(U, e.rows, e.serial, objs', job', spoilt, lost, {}) /\ Len(objs') = Len(r.objs)
       /\ job'[t] = Idle \/ job'[t].stmt.kind # "none"
       /\ \A u \in Tasks \ {t} : job'[u] = js[u]
  BY <1>1, ProceedsNext
<1>11. job' = [u \in Tasks |-> job'[u]]
  <2>1. PICK v : job' = [js EXCEPT ![t] = v]
    BY <1>4 DEF Continue
  <2> QED BY <1>7, <2>1
<1>12. Settled(job')
  <2>1. \A u \in Tasks : JobOK(job[u], Len(objs))
    BY <1>7 DEF World
  <2> QED BY <1>2, <1>7, <1>10, <1>11, <2>1, SettledIdle
<1>13. clean' \in Seq(SUBSET Columns) /\ Len(clean') = Len(objs')
  <2>1. r.objs \in Seq(Instance)
    BY <1>3 DEF GoesOn, World, Base, ObjsOK
  <2>2. \A o : Known(o, j.stmt, e, r.objs) \in SUBSET Columns
    <3>1. j.stmt = job[t].stmt
      OBVIOUS
    <3> QED BY <1>2, <1>3, <1>8, <3>1, KnownCols
  <2>3. clean' = [o \in DOMAIN r.objs |-> clean'[o]] /\ \A o \in DOMAIN r.objs : clean'[o] \in SUBSET Columns
    BY <1>4, <2>2
  <2> QED BY <1>10, <2>1, <2>3, CleanSeq
<1>14. StampStays
  BY <1>4, <1>7, StampsKept
<1>15. World(U, rows', serial', objs', job', spoilt', lost', {})
  BY <1>4, <1>10
<1> QED BY <1>2, <1>4, <1>12, <1>13, <1>14, <1>15 DEF Onward

-----------------------------------------------------------------------------
(* Calls begin, and attributes are written, on instances that others may be using. *)

\* What a write to an attribute leaves of an instance.
Lasts(a, b) ==
  /\ b.in_db = a.in_db /\ b.id = a.id /\ b.key = a.key /\ b.stamp = a.stamp
  /\ b.state = None => a.state = None /\ (a.marks => b.marks)

\* A call that has not sent its first statement.
Begun(w, n, m) ==
  JobOK(w, m) /\ w.stmt = [kind |-> "none"] /\ w.todo = <<>> /\ Made(w) \subseteq (n + 1) .. m

\* The same, where no statement was executed.
LEMMA JobStays ==
  ASSUME NEW T, World(T, rows, serial, objs, job, spoilt, lost, {}), NEW u \in Tasks,
         NEW os, ObjsOK(os), Len(objs) <= Len(os), NEW sp, spoilt \subseteq sp, NEW ls, lost => ls,
         Made(job[u]) \cap sp = {},
         \A x \in Busied(job[u]) : (x \in sp \/ Same(objs[x], os[x])) /\ Evolves(objs[x], os[x])
  PROVE  JobOK(job[u], Len(os)) /\ JobInv(T, serial, os, sp, ls, job[u])
<1> DEFINE n == serial
<1>1. /\ n \in Nat /\ Lines(T) /\ n <= n /\ Extends(T, T, n) /\ ObjsOK(objs)
      /\ JobOK(job[u], Len(objs)) /\ JobInv(T, n, objs, spoilt, lost, job[u])
  BY DEF World, Base, Extends
<1> HIDE DEF n
<1>2. JobOK(job[u], Len(os)) /\ JobInv(T, n, os, sp, ls, job[u])
  BY <1>1, JobKeeps
<1> QED BY <1>2 DEF n

\* Instances, of which some are used by who makes the step, and some are new.
Changed(os, used) ==
  /\ ObjsOK(os) /\ Len(objs) <= Len(os)
  /\ \A x \in DOMAIN objs : Lasts(objs[x], os[x]) /\ (x \in used \/ Same(objs[x], os[x]))
  /\ \A x \in DOMAIN os \ DOMAIN objs : ~os[x].in_db /\ os[x].id \in {None, OwnId}

\* Every world stands a call that begins, and a write to an attribute.
LEMMA Disturbed ==
  ASSUME NEW T, World(T, rows, serial, objs, job, spoilt, lost, {}), NEW t,
         NEW used, used \subseteq Usable, NEW sp, sp = spoilt \cup (used \cap Busy), NEW ls \in BOOLEAN, lost => ls,
         NEW os, Changed(os, used),
         NEW js, DOMAIN js = Tasks, \A u \in Tasks \ {t} : js[u] = job[u],
         js[t] = job[t] \/ (job[t] = Idle /\ Begun(js[t], Len(objs), Len(os)))
  PROVE  World(T, rows, serial, os, js, sp, ls, {})
<1>1. /\ Base(T, rows, serial, objs, spoilt) /\ Lines(T) /\ serial \in Nat /\ ObjsOK(objs) /\ RowsOK(rows, Len(objs))
      /\ RowsLin(T, serial, rows) /\ Inserted(rows, objs, spoilt) /\ \A x \in DOMAIN objs : Holds(T, serial, objs[x])
      /\ Len(objs) \in Nat /\ Len(os) \in Nat /\ DOMAIN objs = 1 .. Len(objs) /\ DOMAIN os = 1 .. Len(os)
      /\ decl \in Declarations /\ spoilt \subseteq 1 .. Len(objs)
      /\ \A u \in Tasks : JobOK(job[u], Len(objs)) /\ JobInv(T, serial, objs, spoilt, lost, job[u])
      /\ \A u, v \in Tasks : u # v => Apart(job[u], job[v], spoilt)
      /\ ObjsOK(os) /\ Len(objs) <= Len(os)
  BY DEF World, Base, ObjsOK, Changed
<1>2. \A u \in Tasks : Made(job[u]) \cap used = {}
  BY DEF Usable, Private, Made
<1>3. used \subseteq 1 .. Len(objs) /\ sp \subseteq 1 .. Len(objs) /\ spoilt \subseteq sp
  BY <1>1 DEF Usable, Objs
<1>4. \A x \in DOMAIN objs : Evolves(objs[x], os[x]) /\ (x \in used \/ Same(objs[x], os[x]))
  BY DEF Changed, Lasts, Evolves
<1>5. \A u \in Tasks : used \cap Later(job[u]) = {} /\ (used \cap Busied(job[u]) \subseteq sp)
  <2> SUFFICES ASSUME NEW u \in Tasks PROVE used \cap Later(job[u]) = {} /\ (used \cap Busied(job[u]) \subseteq sp)
    OBVIOUS
  <2>1. Later(job[u]) \subseteq Made(job[u])
    BY <1>1 DEF JobInv, JobOwn
  <2>2. UsedBy(job[u].stmt) \subseteq Busy
    BY DEF Busy
  <2> QED BY <1>2, <2>1, <2>2 DEF Busied
<1>6. \A u \in Tasks : JobOK(job[u], Len(os)) /\ JobInv(T, serial, os, sp, ls, job[u])
  <2> SUFFICES ASSUME NEW u \in Tasks PROVE JobOK(job[u], Len(os)) /\ JobInv(T, serial, os, sp, ls, job[u])
    OBVIOUS
  <2>1. Made(job[u]) \cap sp = {} /\ (lost => ls)
    BY <1>1, <1>2 DEF JobInv, JobOwn
  <2>2. Busied(job[u]) \subseteq DOMAIN objs
    BY <1>1, OthersOld
  <2>3. \A x \in Busied(job[u]) : (x \in sp \/ Same(objs[x], os[x])) /\ Evolves(objs[x], os[x])
    BY <1>4, <1>5, <2>2
  <2>4. /\ serial \in Nat /\ Lines(T) /\ ObjsOK(objs) /\ ObjsOK(os) /\ Len(objs) <= Len(os) /\ spoilt \subseteq sp
        /\ JobOK(job[u], Len(objs)) /\ JobInv(T, serial, objs, spoilt, lost, job[u])
    BY <1>1, <1>3
  <2> QED BY <2>1, <2>3, <2>4, JobStays
<1>7. Base(T, rows, serial, os, sp)
  <2>1. RowsOK(rows, Len(os)) /\ sp \subseteq 1 .. Len(os)
    BY <1>1, <1>3 DEF RowsOK
  <2>2. \A x \in DOMAIN os : Holds(T, serial, os[x])
    <3>1. None \notin Gen /\ OwnId \notin Gen
      BY PersistenceAssumption DEF Gen
    <3> QED BY <1>1, <3>1 DEF Holds, Kin, Changed, Lasts
  <2>3. Inserted(rows, os, sp)
    <3>1. ASSUME NEW o \in DOMAIN os \ sp, NEW p \in DOMAIN rows \ {OwnId}, rows[p].by = o
          PROVE  RowOf(os[o], p, rows[p])
      <4>1. o \in DOMAIN objs \ spoilt
        BY <1>1, <1>3, <3>1 DEF RowsOK
      <4> QED BY <1>1, <3>1, <4>1 DEF Inserted, RowOf, Changed, Lasts
    <3> QED BY <1>1, <3>1 DEF Inserted
  <2> QED BY <1>1, <2>1, <2>2, <2>3 DEF Base
<1>8. ~ls => Read(rows, os, js, {})
  <2> SUFFICES ASSUME ~ls PROVE Read(rows, os, js, {})
    OBVIOUS
  <2>1. Read(rows, objs, job, {})
    BY DEF World
  <2>2. Idle.stmt.kind = "none"
    BY DEF Idle
  <2>3. \A o : Awaited(job, o) => Awaited(js, o)
    BY <2>2 DEF Awaited
  <2>4. ASSUME NEW o \in DOMAIN os, os[o].in_db, os[o].state = None PROVE os[o].marks \/ Awaited(js, o)
    <3>1. o \in DOMAIN objs
      BY <2>4 DEF Changed
    <3> QED BY <2>1, <2>3, <2>4, <3>1 DEF Read, Changed, Lasts
  <2> QED BY <2>1, <2>4 DEF Read
<1>9. CASE js[t] = job[t]
  <2>1. \A u \in Tasks : js[u] = job[u]
    BY <1>9
  <2>2. \A u, v \in Tasks : u # v => Apart(js[u], js[v], sp)
    BY <1>1, <1>3, <2>1 DEF Apart
  <2>3. \A u \in Tasks : JobOK(js[u], Len(os)) /\ JobInv(T, serial, os, sp, ls, js[u])
    BY <1>6, <2>1
  <2> QED BY <1>1, <1>7, <1>8, <2>2, <2>3 DEF World
<1>10. CASE job[t] = Idle /\ Begun(js[t], Len(objs), Len(os))
  <2>1. /\ JobOK(js[t], Len(os)) /\ js[t].stmt = [kind |-> "none"] /\ js[t].todo = <<>>
        /\ Made(js[t]) \subseteq (Len(objs) + 1) .. Len(os)
    BY <1>10 DEF Begun
  <2>2. Later(js[t]) = {} /\ UsedBy(js[t].stmt) = {} /\ Busied(js[t]) = {}
    BY <2>1 DEF Later, UsedBy, Busied
  <2>3. Made(js[t]) \cap (1 .. Len(objs)) = {}
    BY <1>1, <2>1
  <2>4. JobInv(T, serial, os, sp, ls, js[t])
    <3>1. JobOwn(sp, js[t])
      BY <1>3, <2>1, <2>2, <2>3 DEF JobOwn
    <3> QED BY <2>1, <3>1 DEF JobInv, StmtLin, TodoLin, Agrees, Writing, TodoFits, StateGiven, TodoCareful
  <2>5. \A u \in Tasks \ {t} : Busied(job[u]) \subseteq 1 .. Len(objs) /\ Made(job[u]) \subseteq 1 .. Len(objs)
    BY OthersOld
  <2>6. \A u, v \in Tasks : u # v => Apart(js[u], js[v], sp)
    BY <1>1, <1>3, <2>2, <2>3, <2>5 DEF Apart
  <2>7. \A u \in Tasks : JobOK(js[u], Len(os)) /\ JobInv(T, serial, os, sp, ls, js[u])
    BY <1>6, <2>1, <2>4
  <2> QED BY <1>1, <1>7, <1>8, <2>6, <2>7 DEF World
<1> QED BY <1>9, <1>10

\* The first item of a call is for instances the call is made on, or has just made.
FirstItem(it, used, os, op, records, results) ==
  /\ ItemOK(it, Len(os)) /\ ItemFits(it, os)
  /\ it.do = "update" => it.cols # Columns /\ \A x, y \in ToSet(it.os) : x # y => os[x].id # os[y].id
  /\ it.do = "find" => Finding(op, records)
  /\ {q.o : q \in ToSet(results)} \subseteq (Len(objs) + 1) .. Len(os)
  /\ Touches(it) \subseteq used \cup ((Len(objs) + 1) .. Len(os))
  /\ it.do \in {"insert", "upsert"} => /\ Touches(it) \subseteq {q.o : q \in ToSet(results)}
                                       /\ \A o \in Touches(it) : os[o].id \in {None, OwnId}
  /\ it.do = "save" => it.o \in used \/ ~os[it.o].in_db

\* A call as it starts.
Started(op, now, records) == [Idle EXCEPT !.op = op, !.now = now, !.records = records]

Begins(j, op, now, records) ==
  Shaped(j) /\ j.op = op /\ j.now = now /\ j.records = records /\ j.alone = TRUE

\* The fields of a call as it starts.
LEMMA StartedIs ==
  ASSUME NEW op, NEW now, NEW records, NEW j, j = Started(op, now, records)
  PROVE  Begins(j, op, now, records)
<1>1. DOMAIN Idle = {"op", "now", "todo", "stmt", "records", "results", "alone"} /\ Idle.alone = TRUE
  BY DEF Idle
<1> DEFINE a == [Idle EXCEPT !.op = op]
           b == [a EXCEPT !.now = now]
<1>2. /\ DOMAIN a = DOMAIN Idle /\ a.op = op /\ a.alone = Idle.alone /\ a = [x \in DOMAIN Idle |-> a[x]]
  BY <1>1
<1> HIDE DEF a
<1>3. /\ DOMAIN b = DOMAIN Idle /\ b.op = op /\ b.now = now /\ b.alone = Idle.alone
      /\ b = [x \in DOMAIN Idle |-> b[x]]
  BY <1>1, <1>2
<1>4. j = [b EXCEPT !.records = records]
  BY DEF a, b, Started
<1> HIDE DEF b
<1>5. /\ DOMAIN j = DOMAIN Idle /\ j.op = op /\ j.now = now /\ j.records = records /\ j.alone = Idle.alone
      /\ j = [x \in DOMAIN Idle |-> j[x]]
  BY <1>1, <1>3, <1>4
<1>6. Shaped(j)
  BY <1>1, <1>5 DEF Shaped
<1> QED BY <1>1, <1>5, <1>6 DEF Begins

\* A call begins and runs up to its first await.
LEMMA BeginStep ==
  ASSUME Inv, NEW t \in Tasks, job[t] = Idle, calls < MaxCalls,
         NEW op, NEW used, NEW os, NEW it, NEW records, NEW results,
         Begin(t, op, used, os, <<it>>, records, results),
         Changed(os, used), FirstItem(it, used, os, op, records, results)
  PROVE  Onward
<1> DEFINE j == [Idle EXCEPT !.op = op, !.now = calls + 1, !.records = records]
           w == Waiting(j, <<>>, results)
           k == [job EXCEPT ![t] = w]
           n == Len(objs)
<1>1. PICK T : World(T, rows, serial, objs, job, spoilt, lost, {})
  BY DEF Inv
<1>2. /\ Settled(job) /\ lost \in BOOLEAN /\ clean \in Seq(SUBSET Columns) /\ Len(clean) = n /\ calls \in Stamps
      /\ ObjsOK(objs) /\ objs \in Seq(Instance) /\ n \in Nat /\ DOMAIN objs = 1 .. n
      /\ ObjsOK(os) /\ os \in Seq(Instance) /\ Len(os) \in Nat /\ DOMAIN os = 1 .. Len(os) /\ n <= Len(os)
  BY <1>1 DEF Inv, World, Base, ObjsOK, Changed
<1>3. /\ used \subseteq Usable /\ calls' = calls + 1
      /\ Continue(job, t, j, os, <<it>>, results)
      /\ spoilt' = spoilt \cup (used \cap Busy)
      /\ clean' = [o \in DOMAIN os |-> IF o \in Objs THEN Forget(clean, used \cap Busy)[o] ELSE {}]
      /\ lost' = (\/ lost \/ Blank(os, Head(<<it>>))
                  \/ \E u \in Tasks : job[u].stmt.kind = "defaults" /\ job[u].stmt.os[1] \in used)
      /\ decl' = decl /\ rows' = rows /\ serial' = serial
  BY DEF Begin
<1>4. calls + 1 \in Stamps
  BY <1>2, PersistenceAssumption DEF Stamps
<1>5. /\ Shaped(j) /\ j.op = op /\ j.now = calls + 1 /\ j.records = records /\ j.alone = TRUE
  <2>1. j = Started(op, calls + 1, records)
    BY DEF Started
  <2> DEFINE c == calls + 1
  <2>2. j = Started(op, c, records)
    BY <2>1
  <2> HIDE DEF j, c
  <2>3. Begins(j, op, c, records)
    BY <2>2, StartedIs
  <2> QED BY <2>3 DEF c, Begins
<1>6. /\ w.stmt = [kind |-> "none"] /\ w.todo = <<>> /\ w.results = results /\ w.op = op /\ w.now = calls + 1
      /\ w.records = records /\ w.alone = TRUE /\ Shaped(w)
  <2> HIDE DEF j
  <2> QED BY <1>5 DEF Waiting, Shaped
<1> HIDE DEF j, w
<1>7. Made(w) = {q.o : q \in ToSet(results)} /\ Later(w) = {} /\ UsedBy(w.stmt) = {}
  BY <1>6 DEF Made, Later, UsedBy
<1>8. Begun(w, n, Len(os))
  <2>1. StmtOK(w.stmt, Len(os)) /\ w.stmt.kind # "find"
    BY <1>6 DEF StmtOK, Kinds, Targeted
  <2>2. Made(w) \subseteq (n + 1) .. Len(os)
    BY <1>7 DEF FirstItem
  <2>3. \A i \in DOMAIN w.results : w.results[i].o \in 1 .. Len(os)
    <3>1. \A i \in DOMAIN w.results : w.results[i].o \in Made(w)
      BY DEF Made, ToSet
    <3>2. \A x \in Made(w) : x \in 1 .. Len(os)
      BY <1>2, <2>2
    <3> QED BY <3>1, <3>2
  <2>4. JobOK(w, Len(os))
    <3>1. <<>> \in Seq(Items) /\ DOMAIN <<>> = {}
      OBVIOUS
    <3>2. w.todo \in Seq(Items) /\ \A i \in DOMAIN w.todo : BatchOK(w.todo[i].os, Len(os))
      BY <1>6, <3>1
    <3>3. w = [op |-> w.op, now |-> w.now, todo |-> w.todo, stmt |-> w.stmt, records |-> w.records,
               results |-> w.results, alone |-> w.alone]
      BY <1>6 DEF Shaped
    <3>4. w.now \in Stamps /\ w.alone \in BOOLEAN
      BY <1>4, <1>6
    <3> QED BY <2>1, <2>3, <3>2, <3>3, <3>4, Zenon DEF JobOK
  <2> QED BY <1>6, <2>2, <2>4 DEF Begun
<1>9. DOMAIN k = Tasks /\ k[t] = w /\ \A u \in Tasks \ {t} : k[u] = job[u]
  BY <1>2 DEF Settled
<1>10. lost' \in BOOLEAN /\ (lost => lost')
  BY <1>2, <1>3
<1>11. World(T, rows, serial, os, k, spoilt', lost', {})
  <2>1. k[t] = job[t] \/ (job[t] = Idle /\ Begun(k[t], Len(objs), Len(os)))
    BY <1>8, <1>9 DEF n
  <2> HIDE DEF k
  <2> QED BY <1>1, <1>3, <1>9, <1>10, <2>1, Disturbed
<1>12. Ready(it, t, os, k, spoilt', lost', {})
  <2>1. \A u \in Tasks : Busied(job[u]) \subseteq 1 .. n /\ Made(job[u]) \subseteq 1 .. n
    BY <1>1, OthersOld DEF n
  <2>2. \A u \in Tasks : Made(job[u]) \cap used = {}
    BY <1>3 DEF Usable, Private, Made
  <2>3. \A u \in Tasks : used \cap Busied(job[u]) \subseteq spoilt'
    <3> SUFFICES ASSUME NEW u \in Tasks PROVE used \cap Busied(job[u]) \subseteq spoilt'
      OBVIOUS
    <3>1. Later(job[u]) \subseteq Made(job[u])
      BY <1>1 DEF World, JobInv, JobOwn
    <3>2. UsedBy(job[u].stmt) \subseteq Busy
      BY DEF Busy
    <3> QED BY <1>3, <2>2, <3>1, <3>2 DEF Busied
  <2>4. Touches(it) \subseteq used \cup ((n + 1) .. Len(os))
    BY DEF FirstItem, n
  <2>5. (1 .. n) \cap ((n + 1) .. Len(os)) = {}
    BY <1>2
  <2>6. \A u \in Tasks \ {t} : Touches(it) \cap Busied(k[u]) \subseteq spoilt' /\ Touches(it) \cap Made(k[u]) = {}
    <3> HIDE DEF k, n
    <3> QED BY <1>9, <2>1, <2>2, <2>3, <2>4, <2>5
  <2>7. ~lost' => Careful(it, os)
    <3> SUFFICES ASSUME ~lost' PROVE Careful(it, os)
      OBVIOUS
    <3>1. ASSUME it.do = "save", os[it.o].in_db PROVE os[it.o].marks \/ os[it.o].state # None
      <4>1. it.o \in used /\ it.o \in DOMAIN objs
        BY <1>3, <3>1 DEF FirstItem, Usable, Objs
      <4>2. ~Awaited(job, it.o) /\ ~lost
        BY <1>3, <4>1 DEF Awaited
      <4>3. objs[it.o].in_db /\ objs[it.o].state = None => objs[it.o].marks
        BY <1>1, <4>1, <4>2 DEF World, Read
      <4>4. Lasts(objs[it.o], os[it.o])
        BY <4>1 DEF Changed
      <4> QED BY <3>1, <4>3, <4>4 DEF Lasts
    <3>2. ~Blank(os, it)
      <4>1. Head(<<it>>) = it
        OBVIOUS
      <4> QED BY <1>3, <4>1
    <3>3. CASE it.do = "save"
      BY <3>1, <3>2, <3>3 DEF Careful, Blank
    <3>4. CASE it.do = "update"
      BY <3>2, <3>4 DEF Careful, Blank, FirstItem
    <3> QED BY <3>3, <3>4 DEF Careful
  <2>8. ItemOK(it, Len(os)) /\ ItemFits(it, os) /\ (it.do = "find" => Finding(w.op, w.records))
    BY <1>6 DEF FirstItem
  <2>9. it.do \in {"insert", "upsert"} => /\ Touches(it) \subseteq Made(w)
                                          /\ \A o \in Touches(it) : os[o].id \in {None, OwnId}
    BY <1>7 DEF FirstItem
  <2> HIDE DEF k
  <2> QED BY <1>7, <1>9, <2>6, <2>7, <2>8, <2>9 DEF Ready
<1>13. GoesOn(T, rows, serial, os, job, spoilt', lost', t, j, <<it>>, results)
  <2>1. <<it>> # <<>> /\ Tail(<<it>>) = <<>> /\ Head(<<it>>) = it
    OBVIOUS
  <2> QED BY <1>11, <1>12, <2>1 DEF GoesOn, k, w
<1>14. /\ World(T, rows, serial, objs', job', spoilt', lost', {}) /\ Len(objs') = Len(os)
       /\ job'[t] = Idle \/ job'[t].stmt.kind # "none"
       /\ \A u \in Tasks \ {t} : job'[u] = job[u]
       /\ Takes(t, j, os, <<it>>, results)
  <2>1. DOMAIN job = Tasks /\ job = [u \in Tasks |-> job[u]]
    BY <1>2 DEF Settled
  <2>2. DOMAIN job = Tasks /\ job = [u \in Tasks |-> job[u]] /\ Shaped(j) /\ t \in Tasks
        /\ GoesOn(T, rows, serial, os, job, spoilt', lost', t, j, <<it>>, results)
        /\ Continue(job, t, j, os, <<it>>, results)
    BY <1>3, <1>5, <1>13, <2>1
  <2> HIDE DEF n
  <2> QED BY <2>2, Continued
<1>15. Settled(job')
  <2>1. PICK v : job' = [job EXCEPT ![t] = v]
    BY <1>3 DEF Continue
  <2>2. job' = [u \in Tasks |-> job'[u]]
    BY <1>2, <2>1 DEF Settled
  <2> QED BY <1>2, <1>14, <2>2 DEF Settled
<1>16. clean' \in Seq(SUBSET Columns) /\ Len(clean') = Len(objs')
  <2>1. Forget(clean, used \cap Busy) \in Seq(SUBSET Columns) /\ Len(Forget(clean, used \cap Busy)) = n
    BY <1>2, ForgetOK
  <2>2. \A o \in DOMAIN os : clean'[o] \in SUBSET Columns
    <3> SUFFICES ASSUME NEW o \in DOMAIN os PROVE clean'[o] \in SUBSET Columns
      OBVIOUS
    <3>1. clean'[o] = IF o \in Objs THEN Forget(clean, used \cap Busy)[o] ELSE {}
      BY <1>3
    <3>2. o \in Objs => Forget(clean, used \cap Busy)[o] \in SUBSET Columns
      <4> DEFINE f == Forget(clean, used \cap Busy)
      <4>1. f \in Seq(SUBSET Columns) /\ Len(f) = n
        BY <2>1
      <4>2. o \in Objs => o \in 1 .. n
        BY <1>2 DEF Objs
      <4> HIDE DEF f, n
      <4>3. o \in Objs => f[o] \in SUBSET Columns
        BY <4>1, <4>2
      <4> QED BY <4>3 DEF f
    <3> QED BY <3>1, <3>2
  <2>3. clean' = [o \in DOMAIN os |-> clean'[o]]
    BY <1>3
  <2> QED BY <1>2, <1>14, <2>2, <2>3, CleanSeq
<1>17. World(T, rows', serial', objs', job', spoilt', lost', {}) /\ StampStays
  BY <1>3, <1>14 DEF StampStays
<1> QED BY <1>3, <1>4, <1>10, <1>15, <1>16, <1>17 DEF Onward

\* An attribute is written while calls are under way.
LEMMA WriteStep ==
  ASSUME Inv, NEW o \in Usable, NEW ob, NEW col, Write(o, ob, col), calls < MaxCalls,
         ob \in Instance, Lasts(objs[o], ob)
  PROVE  Onward
<1>1. PICK T : World(T, rows, serial, objs, job, spoilt, lost, {})
  BY DEF Inv
<1>2. /\ Settled(job) /\ lost \in BOOLEAN /\ clean \in Seq(SUBSET Columns) /\ Len(clean) = Len(objs) /\ calls \in Stamps
      /\ ObjsOK(objs) /\ objs \in Seq(Instance) /\ DOMAIN objs = 1 .. Len(objs) /\ Len(objs) \in Nat /\ o \in DOMAIN objs
  BY <1>1 DEF Inv, World, Base, ObjsOK, Usable, Objs
<1>3. /\ calls' = calls + 1 /\ objs' = [objs EXCEPT ![o] = ob]
      /\ spoilt' = spoilt \cup ({o} \cap Busy)
      /\ clean' = [clean EXCEPT ![o] = IF o \in Busy THEN {} ELSE @ \ {col}]
      /\ decl' = decl /\ rows' = rows /\ serial' = serial /\ job' = job /\ lost' = lost
  BY DEF Write
<1>4. calls + 1 \in Stamps
  BY <1>2, PersistenceAssumption DEF Stamps
<1>5. /\ objs' \in Seq(Instance) /\ Len(objs') = Len(objs) /\ DOMAIN objs' = DOMAIN objs
      /\ objs'[o] = ob /\ \A x \in DOMAIN objs : x # o => objs'[x] = objs[x]
  BY <1>2, <1>3, PutOne
<1>6. Changed(objs', {o})
  <2>1. ObjsOK(objs')
    BY <1>2, <1>5 DEF ObjsOK, Lasts
  <2>2. \A x \in DOMAIN objs : Lasts(objs[x], objs[x]) /\ Same(objs[x], objs[x])
    BY DEF Lasts, Same
  <2> QED BY <1>2, <1>5, <2>1, <2>2 DEF Changed
<1>7. World(T, rows, serial, objs', job, spoilt', lost, {})
  <2>1. {o} \subseteq Usable /\ DOMAIN job = Tasks
    BY <1>2 DEF Settled
  <2> QED BY <1>1, <1>2, <1>3, <1>6, <2>1, Disturbed
<1>8. clean' \in Seq(SUBSET Columns) /\ Len(clean') = Len(objs')
  BY <1>2, <1>3, <1>5
<1> QED BY <1>2, <1>3, <1>4, <1>7, <1>8 DEF Onward, StampStays

\* A copy is a new instance without a primary key.
LEMMA CloneOK ==
  ASSUME NEW a \in Instance
  PROVE  Clone(a) \in Instance /\ ~Clone(a).in_db /\ Clone(a).id = None
<1>1. None \in Ids /\ FALSE \in BOOLEAN /\ Absent \in Authors \cup {None, Absent}
  BY DEF Ids
<1> QED BY <1>1 DEF Clone, Instance

\* An instance is copied.
LEMMA CopyStep ==
  ASSUME Inv, Copy
  PROVE  Onward
<1>1. PICK T : World(T, rows, serial, objs, job, spoilt, lost, {})
  BY DEF Inv
<1>2. PICK o \in Usable :
       /\ objs' = Append(objs, Clone(objs[o])) /\ clean' = Append(clean, {})
       /\ calls' = calls + 1 /\ calls < MaxCalls
       /\ decl' = decl /\ rows' = rows /\ serial' = serial /\ job' = job /\ spoilt' = spoilt /\ lost' = lost
  BY DEF Copy
<1>3. /\ Settled(job) /\ lost \in BOOLEAN /\ clean \in Seq(SUBSET Columns) /\ Len(clean) = Len(objs) /\ calls \in Stamps
      /\ ObjsOK(objs) /\ objs \in Seq(Instance) /\ DOMAIN objs = 1 .. Len(objs) /\ Len(objs) \in Nat /\ o \in DOMAIN objs
  BY <1>1 DEF Inv, World, Base, ObjsOK, Usable, Objs
<1>4. calls + 1 \in Stamps
  BY <1>2, <1>3, PersistenceAssumption DEF Stamps
<1> DEFINE b == Clone(objs[o])
<1>5. b \in Instance /\ ~b.in_db /\ b.id = None
  BY <1>3, CloneOK
<1> HIDE DEF b
<1>6. /\ objs' \in Seq(Instance) /\ Len(objs') = Len(objs) + 1 /\ objs'[Len(objs) + 1] = b
      /\ \A x \in 1 .. Len(objs) : objs'[x] = objs[x]
  BY <1>2, <1>3, <1>5, AppendOne DEF b
<1>7. Changed(objs', {})
  <2>1. DOMAIN objs' = 1 .. (Len(objs) + 1)
    BY <1>3, <1>6
  <2>2. ObjsOK(objs')
    BY <1>3, <1>5, <1>6, <2>1 DEF ObjsOK
  <2>3. \A x \in DOMAIN objs : Lasts(objs[x], objs[x]) /\ Same(objs[x], objs[x])
    BY DEF Lasts, Same
  <2> QED BY <1>3, <1>5, <1>6, <2>1, <2>2, <2>3 DEF Changed
<1>8. World(T, rows, serial, objs', job, spoilt, lost, {})
  <2>1. {} \subseteq Usable /\ DOMAIN job = Tasks /\ spoilt = spoilt \cup ({} \cap Busy)
    BY <1>3 DEF Settled
  <2> QED BY <1>1, <1>3, <1>7, <2>1, Disturbed
<1>9. clean' \in Seq(SUBSET Columns) /\ Len(clean') = Len(objs')
  BY <1>2, <1>3, <1>6
<1> QED BY <1>2, <1>3, <1>4, <1>8, <1>9 DEF Onward, StampStays

-----------------------------------------------------------------------------
(* Each of the calls. *)

\* A bulk call looks for the keys of its records, and no row has a primary key chosen
\* for one.
LooksFor(keys, records, rs) ==
  /\ records[1].key \in keys /\ records[2].key \in keys
  /\ records[2].id = OwnId => OwnId \notin DOMAIN rs

\* A call that promises to look first does so.
Looks(op, it, records, results) ==
  op \in Promising => it.do = "find" /\ results = <<>> /\ (op \in Bulks => LooksFor(it.keys, records, rows))

\* The call of t begins with its first item.
Starts(t) ==
  \E op, used, os, it, records, results :
    /\ Begin(t, op, used, os, <<it>>, records, results) /\ Changed(os, {})
    /\ FirstItem(it, used, os, op, records, results) /\ Looks(op, it, records, results)

\* A call that makes no promise.
LEMMA StartsPlain ==
  ASSUME NEW t, NEW op, op \notin Promising, NEW used, NEW os, NEW it, NEW records, NEW results,
         Begin(t, op, used, os, <<it>>, records, results), Changed(os, {}),
         FirstItem(it, used, os, op, records, results)
  PROVE  Starts(t)
BY DEF Starts, Looks

\* A call that looks for rows.
LEMMA StartsLook ==
  ASSUME NEW t, NEW op, NEW used, NEW os, NEW it, NEW records, NEW results, results = <<>>, it.do = "find",
         op \in Bulks => LooksFor(it.keys, records, rows),
         Begin(t, op, used, os, <<it>>, records, results), Changed(os, {}),
         FirstItem(it, used, os, op, records, results)
  PROVE  Starts(t)
BY DEF Starts, Looks

\* What a call starts from, when it makes no instance and changes none.
LEMMA AsTheyAre ==
  ASSUME Inv, NEW used
  PROVE  /\ Changed(objs, used) /\ objs \in Seq(Instance) /\ Len(objs) \in Nat /\ Objs = 1 .. Len(objs)
         /\ (Len(objs) + 1) .. Len(objs) = {} /\ Usable \subseteq 1 .. Len(objs)
<1>1. PICK T : World(T, rows, serial, objs, job, spoilt, lost, {})
  BY DEF Inv
<1>2. ObjsOK(objs) /\ objs \in Seq(Instance) /\ Len(objs) \in Nat /\ DOMAIN objs = 1 .. Len(objs)
  BY <1>1 DEF World, Base, ObjsOK
<1>3. \A x \in DOMAIN objs : Lasts(objs[x], objs[x]) /\ Same(objs[x], objs[x])
  BY DEF Lasts, Same
<1> QED BY <1>2, <1>3 DEF Changed, Usable, Objs

\* A call on an instance at hand.
LEMMA OnOne ==
  ASSUME Inv, NEW o \in Usable, NEW it, it.o = o, NEW op, NEW records,
         \/ it.do = "save" /\ it.cols \in SUBSET Columns /\ it = Save(o, it.cols)
         \/ it.do = "delete" \/ (it.do = "reload" /\ objs[o].id # OwnId)
  PROVE  FirstItem(it, {o}, objs, op, records, <<>>)
<1>1. o \in 1 .. Len(objs) /\ Len(objs) \in Nat /\ (Len(objs) + 1) .. Len(objs) = {}
  BY AsTheyAre
<1>2. {q.o : q \in ToSet(<<>>)} = {}
  BY DEF ToSet
<1>3. Touches(it) \subseteq {o}
  BY DEF Touches
<1>4. ItemOK(it, Len(objs)) /\ ItemFits(it, objs)
  <2>1. ItemOK(it, Len(objs))
    BY <1>1 DEF ItemOK, Targeted
  <2>2. ItemFits(it, objs)
    BY DEF ItemFits
  <2> QED BY <2>1, <2>2
<1>5. it.do \notin {"update", "find", "insert", "upsert"}
  OBVIOUS
<1> QED BY <1>1, <1>2, <1>3, <1>4, <1>5 DEF FirstItem

\* Each of the calls begins in order: save() of all columns.
LEMMA SaveFullStep ==
  ASSUME Inv, NEW t \in Tasks, SaveFull(t)
  PROVE  Starts(t)
<1>1. PICK o \in Usable : Begin(t, "save", {o}, objs, <<Save(o, Columns)>>, <<>>, <<>>)
  BY DEF SaveFull
<1> DEFINE it == Save(o, Columns)
<1>2. it.o = o /\ it.do = "save" /\ it.cols = Columns /\ it = Save(o, it.cols)
  BY DEF Save
<1>3. Begin(t, "save", {o}, objs, <<it>>, <<>>, <<>>)
  BY <1>1
<1> HIDE DEF it
<1>4. FirstItem(it, {o}, objs, "save", <<>>, <<>>)
  BY <1>2, OnOne
<1> QED BY <1>3, <1>4, AsTheyAre, StartsPlain DEF Promising

\* Each of the calls begins in order: save(update_fields=).
LEMMA SavePartialStep ==
  ASSUME Inv, NEW t \in Tasks, SavePartial(t)
  PROVE  Starts(t)
<1>1. PICK o \in Usable, cols \in Partial :
        Begin(t, "save", {o}, objs, <<Save(o, IF objs[o].in_db THEN cols ELSE Columns)>>, <<>>, <<>>)
  BY DEF SavePartial
<1> DEFINE it == Save(o, IF objs[o].in_db THEN cols ELSE Columns)
<1>2. it.o = o /\ it.do = "save" /\ it.cols \in SUBSET Columns /\ it = Save(o, it.cols)
  BY PersistenceAssumption DEF Save
<1>3. Begin(t, "save", {o}, objs, <<it>>, <<>>, <<>>)
  BY <1>1
<1> HIDE DEF it
<1>4. FirstItem(it, {o}, objs, "save", <<>>, <<>>)
  BY <1>2, OnOne
<1> QED BY <1>3, <1>4, AsTheyAre, StartsPlain DEF Promising

\* Two instances make a batch.
LEMMA PairBatch ==
  ASSUME NEW n \in Nat, NEW o \in 1 .. n, NEW u \in 1 .. n, NEW q, q = IF o = u THEN <<o>> ELSE <<o, u>>
  PROVE  BatchOK(q, n) /\ ToSet(q) = {o, u}
<1>1. CASE o = u
  <2>1. q = <<o>>
    BY <1>1
  <2> QED BY <1>1, <2>1 DEF BatchOK, Once, ToSet
<1>2. CASE o # u
  <2>1. q = <<o, u>>
    BY <1>2
  <2>2. q \in Seq(1 .. n) /\ q # <<>> /\ DOMAIN q = {1, 2} /\ q[1] = o /\ q[2] = u
    <3>1. <<o, u>> \in Seq(1 .. n)
      OBVIOUS
    <3>2. <<o, u>> # <<>> /\ DOMAIN <<o, u>> = {1, 2} /\ <<o, u>>[1] = o /\ <<o, u>>[2] = u
      OBVIOUS
    <3> QED BY <2>1, <3>1, <3>2
  <2>3. BatchOK(q, n)
    BY <1>2, <2>2 DEF BatchOK, Once
  <2> QED BY <2>2, <2>3 DEF ToSet
<1> QED BY <1>1, <1>2

\* Each of the calls begins in order: bulk_update().
LEMMA BulkUpdateStep ==
  ASSUME Inv, NEW t \in Tasks, BulkUpdate(t)
  PROVE  Starts(t)
<1>1. PICK o \in Usable, u \in Usable, cols \in Partial :
        /\ objs[o].in_db /\ objs[u].in_db /\ (o # u => objs[o].id # objs[u].id)
        /\ Begin(t, "bulk_update", {o, u}, objs, <<Update(IF o = u THEN <<o>> ELSE <<o, u>>, cols)>>, <<>>, <<>>)
  BY DEF BulkUpdate
<1> DEFINE q == IF o = u THEN <<o>> ELSE <<o, u>>
           it == Update(q, cols)
<1>2. it.do = "update" /\ it.os = q /\ it.cols = cols
  BY DEF Update
<1>3. Begin(t, "bulk_update", {o, u}, objs, <<it>>, <<>>, <<>>)
  BY <1>1
<1>4. BatchOK(q, Len(objs)) /\ ToSet(q) = {o, u}
  <2>1. o \in 1 .. Len(objs) /\ u \in 1 .. Len(objs) /\ Len(objs) \in Nat
    BY AsTheyAre
  <2> QED BY <2>1, PairBatch
<1> HIDE DEF it, q
<1>5. FirstItem(it, {o, u}, objs, "bulk_update", <<>>, <<>>)
  <2>1. {x.o : x \in ToSet(<<>>)} = {}
    BY DEF ToSet
  <2>2. Touches(it) = {o, u}
    BY <1>2, <1>4 DEF Touches
  <2>3. cols \subseteq Columns /\ cols # Columns
    BY PersistenceAssumption
  <2>4. ItemOK(it, Len(objs))
    BY <1>2, <1>4, <2>3 DEF ItemOK
  <2>5. ItemFits(it, objs)
    BY <1>1, <1>2, <1>4 DEF ItemFits
  <2>6. \A x, y \in ToSet(it.os) : x # y => objs[x].id # objs[y].id
    BY <1>1, <1>2, <1>4
  <2> QED BY <1>2, <2>1, <2>2, <2>3, <2>4, <2>5, <2>6 DEF FirstItem
<1> QED BY <1>3, <1>5, AsTheyAre, StartsPlain DEF Promising

\* Each of the calls begins in order: delete().
LEMMA DeleteStep ==
  ASSUME Inv, NEW t \in Tasks, Delete(t)
  PROVE  Starts(t)
<1>1. PICK o \in Usable : Begin(t, "delete", {o}, objs, <<[do |-> "delete", o |-> o]>>, <<>>, <<>>)
  BY DEF Delete
<1> DEFINE it == [do |-> "delete", o |-> o]
<1>2. it.o = o /\ it.do = "delete"
  OBVIOUS
<1>3. Begin(t, "delete", {o}, objs, <<it>>, <<>>, <<>>)
  BY <1>1
<1> HIDE DEF it
<1>4. FirstItem(it, {o}, objs, "delete", <<>>, <<>>)
  BY <1>1, <1>2, OnOne
<1> QED BY <1>3, <1>4, AsTheyAre, StartsPlain DEF Promising

\* Each of the calls begins in order: refresh_from_db().
LEMMA RefreshStep ==
  ASSUME Inv, NEW t \in Tasks, RefreshFromDb(t)
  PROVE  Starts(t)
<1>1. PICK o \in Usable : objs[o].id # OwnId /\ Begin(t, "reload", {o}, objs, <<[do |-> "reload", o |-> o]>>, <<>>, <<>>)
  BY DEF RefreshFromDb
<1> DEFINE it == [do |-> "reload", o |-> o]
<1>2. it.o = o /\ it.do = "reload"
  OBVIOUS
<1>3. Begin(t, "reload", {o}, objs, <<it>>, <<>>, <<>>)
  BY <1>1
<1> HIDE DEF it
<1>4. FirstItem(it, {o}, objs, "reload", <<>>, <<>>)
  BY <1>1, <1>2, OnOne
<1> QED BY <1>3, <1>4, AsTheyAre, StartsPlain DEF Promising

\* A call that looks for rows first.
LEMMA Looking ==
  ASSUME Inv, NEW it, it.do = "find", it.keys \subseteq Keys, NEW op, NEW records, Finding(op, records)
  PROVE  FirstItem(it, {}, objs, op, records, <<>>)
<1>1. Len(objs) \in Nat /\ (Len(objs) + 1) .. Len(objs) = {}
  BY AsTheyAre
<1>2. {q.o : q \in ToSet(<<>>)} = {}
  BY DEF ToSet
<1>3. Touches(it) = {}
  BY DEF Touches
<1>4. ItemOK(it, Len(objs)) /\ ItemFits(it, objs)
  BY DEF ItemOK, ItemFits
<1> QED BY <1>1, <1>2, <1>3, <1>4 DEF FirstItem

\* Each of the calls begins in order: get, get_or_create and update_or_create.
LEMMA GetStep ==
  ASSUME Inv, NEW t \in Tasks, Get(t)
  PROVE  Starts(t)
<1>1. PICK rec \in Lookups, op \in Finders :
        Begin(t, op, {}, objs, <<[do |-> "find", keys |-> {rec.key}]>>, <<rec>>, <<>>)
  BY DEF Get, Finders
<1> DEFINE it == [do |-> "find", keys |-> {rec.key}]
           recs == <<rec>>
<1>2. it.do = "find" /\ it.keys \subseteq Keys
  BY PersistenceAssumption DEF Record
<1>3. Begin(t, op, {}, objs, <<it>>, recs, <<>>)
  BY <1>1
<1>4. Finding(op, recs)
  BY DEF Finding
<1> HIDE DEF it, recs
<1>5. FirstItem(it, {}, objs, op, recs, <<>>)
  BY <1>2, <1>4, Looking
<1>6. op \notin Bulks
  BY DEF Finders, Bulks
<1> QED BY <1>2, <1>3, <1>5, <1>6, AsTheyAre, StartsLook

\* A batch of records, and the keys it looks for.
LEMMA BatchFinding ==
  ASSUME NEW recs \in Batches, NEW op \in Bulks
  PROVE  Finding(op, recs) /\ {rec.key : rec \in ToSet(recs)} \subseteq Keys
<1>1. recs \in Record \X Record /\ recs[1].id = None
  BY PersistenceAssumption
<1>2. recs = <<recs[1], recs[2]>> /\ recs[1] \in Record /\ recs[2] \in Record /\ DOMAIN recs = {1, 2}
  BY <1>1
<1>3. Finding(op, recs)
  BY <1>1, <1>2 DEF Finding
<1>4. \A rec \in ToSet(recs) : rec \in Record
  BY <1>2 DEF ToSet
<1>5. \A rec \in Record : rec.key \in Keys
  BY DEF Record
<1> QED BY <1>3, <1>4, <1>5

\* Each of the calls begins in order: the bulk forms of get_or_create and update_or_create.
LEMMA BulkStep ==
  ASSUME Inv, NEW t \in Tasks, NEW recs \in Batches, NEW op \in Bulks,
         recs[2].id = OwnId => OwnId \notin DOMAIN rows,
         Begin(t, op, {}, objs, <<[do |-> "find", keys |-> {rec.key : rec \in ToSet(recs)}]>>, recs, <<>>)
  PROVE  Starts(t)
<1> DEFINE it == [do |-> "find", keys |-> {rec.key : rec \in ToSet(recs)}]
<1>1. it.do = "find" /\ it.keys \subseteq Keys /\ Finding(op, recs)
  BY BatchFinding
<1>2. Begin(t, op, {}, objs, <<it>>, recs, <<>>)
  OBVIOUS
<1> HIDE DEF it
<1>3. FirstItem(it, {}, objs, op, recs, <<>>)
  BY <1>1, Looking
<1>4. Changed(objs, {})
  BY AsTheyAre
<1>5. LooksFor(it.keys, recs, rows)
  <2>1. recs \in Record \X Record
    BY PersistenceAssumption
  <2>2. recs[1] \in ToSet(recs) /\ recs[2] \in ToSet(recs)
    BY <2>1 DEF ToSet
  <2> QED BY <2>2 DEF LooksFor, it
<1> QED BY <1>1, <1>2, <1>3, <1>4, <1>5, StartsLook

\* Each of the calls begins in order: a prefetch.
LEMMA PrefetchStep ==
  ASSUME Inv, NEW t \in Tasks, Prefetch(t)
  PROVE  Starts(t)
<1> DEFINE it == [do |-> "prefetch", os |-> SetToSortSeq(Usable, <)]
<1>1. it.do = "prefetch"
  OBVIOUS
<1>2. Begin(t, "prefetch", {}, objs, <<it>>, <<>>, <<>>)
  BY DEF Prefetch
<1> HIDE DEF it
<1>3. FirstItem(it, {}, objs, "prefetch", <<>>, <<>>)
  <2>1. Len(objs) \in Nat /\ (Len(objs) + 1) .. Len(objs) = {}
    BY AsTheyAre
  <2>2. {q.o : q \in ToSet(<<>>)} = {}
    BY DEF ToSet
  <2>3. Touches(it) = {} /\ ItemOK(it, Len(objs)) /\ ItemFits(it, objs)
    BY <1>1 DEF Touches, ItemOK, ItemFits
  <2> QED BY <1>1, <2>1, <2>2, <2>3 DEF FirstItem
<1> QED BY <1>2, <1>3, AsTheyAre, StartsPlain DEF Promising

\* An instance joins those at hand.
LEMMA OneMore ==
  ASSUME NEW os, ObjsOK(os), NEW b \in Instance, ~b.in_db
  PROVE  /\ ObjsOK(Append(os, b)) /\ Len(Append(os, b)) = Len(os) + 1 /\ Append(os, b)[Len(os) + 1] = b
         /\ Len(os) \in Nat /\ DOMAIN os = 1 .. Len(os) /\ DOMAIN Append(os, b) = 1 .. (Len(os) + 1)
         /\ \A x \in DOMAIN os : Append(os, b)[x] = os[x]
<1> DEFINE q == Append(os, b)
<1>1. os \in Seq(Instance) /\ Len(os) \in Nat /\ DOMAIN os = 1 .. Len(os)
  BY DEF ObjsOK
<1>2. /\ q \in Seq(Instance) /\ Len(q) = Len(os) + 1 /\ q[Len(os) + 1] = b
      /\ \A x \in 1 .. Len(os) : q[x] = os[x]
  BY <1>1, AppendOne
<1> HIDE DEF q
<1>3. DOMAIN q = 1 .. (Len(os) + 1)
  BY <1>1, <1>2
<1>4. ObjsOK(q)
  BY <1>1, <1>2, <1>3 DEF ObjsOK
<1> QED BY <1>1, <1>2, <1>3, <1>4 DEF q

\* Each of the calls begins in order: create().
LEMMA CreateStep ==
  ASSUME Inv, NEW t \in Tasks, Create(t)
  PROVE  Starts(t)
<1>1. PICK rec \in NewRecords :
        Begin(t, "create", {}, Append(objs, New(rec)), <<Save(Len(objs) + 1, Columns)>>, <<>>,
              <<Result(Len(objs) + 1, TRUE)>>)
  BY DEF Create
<1> DEFINE n == Len(objs)
           b == New(rec)
           os == Append(objs, b)
           it == Save(n + 1, Columns)
           results == <<Result(n + 1, TRUE)>>
<1>2. rec \in Record
  BY PersistenceAssumption
<1>3. b \in Instance /\ ~b.in_db /\ b.id \in {None, OwnId}
  BY <1>2, NewOK
<1>4. ObjsOK(objs)
  BY DEF Inv, World, Base
<1>5. it.o = n + 1 /\ it.do = "save" /\ it.cols = Columns
  BY DEF Save
<1>6. {q.o : q \in ToSet(results)} = {n + 1}
  BY DEF Result, ToSet
<1>7. Begin(t, "create", {}, os, <<it>>, <<>>, results)
  BY <1>1
<1> HIDE DEF b, it, results
<1>8. /\ ObjsOK(os) /\ Len(os) = n + 1 /\ os[n + 1] = b /\ n \in Nat /\ DOMAIN objs = 1 .. n /\ DOMAIN os = 1 .. (n + 1)
      /\ \A x \in DOMAIN objs : os[x] = objs[x]
  BY <1>3, <1>4, OneMore
<1> HIDE DEF os, n
<1>9. Changed(os, {})
  <2>1. \A x \in DOMAIN objs : Lasts(objs[x], os[x]) /\ Same(objs[x], os[x])
    BY <1>8 DEF Lasts, Same
  <2>2. \A x \in DOMAIN os \ DOMAIN objs : x = n + 1
    BY <1>8
  <2> QED BY <1>3, <1>8, <2>1, <2>2 DEF Changed, n
<1>10. FirstItem(it, {}, os, "create", <<>>, results)
  <2>1. ItemOK(it, Len(os)) /\ ItemFits(it, os)
    BY <1>5, <1>8 DEF ItemOK, ItemFits
  <2>2. Touches(it) = {n + 1}
    BY <1>5 DEF Touches
  <2>3. n + 1 \in (n + 1) .. Len(os)
    BY <1>8
  <2> QED BY <1>3, <1>5, <1>6, <1>8, <2>1, <2>2, <2>3 DEF FirstItem, n
<1> QED BY <1>7, <1>9, <1>10, StartsPlain DEF Promising

\* Each of the calls begins in order: bulk_create with a conflict clause.
LEMMA BulkUpsertStep ==
  ASSUME Inv, NEW t \in Tasks, BulkUpsert(t)
  PROVE  Starts(t)
<1> DEFINE n == Len(objs)
<1>1. PICK recs \in Batches, cols \in {{}, {"author"}} :
        /\ decl.unique /\ recs[2].id = None
        /\ Begin(t, "upsert", {}, objs \o <<New(recs[1]), New(recs[2])>>,
                 <<[do |-> "upsert", os |-> <<n + 1, n + 2>>, cols |-> cols]>>, <<>>,
                 <<Result(n + 1, FALSE), Result(n + 2, FALSE)>>)
  BY DEF BulkUpsert
<1> DEFINE a == New(recs[1])
           b == New(recs[2])
           one == Append(objs, a)
           os == Append(one, b)
           batch == <<n + 1, n + 2>>
           it == [do |-> "upsert", os |-> batch, cols |-> cols]
           results == <<Result(n + 1, FALSE), Result(n + 2, FALSE)>>
<1>2. recs[1] \in Record /\ recs[2] \in Record /\ recs[1].id = None
  BY PersistenceAssumption
<1>3. /\ a \in Instance /\ ~a.in_db /\ a.id = None
      /\ b \in Instance /\ ~b.in_db /\ b.id = None
  BY <1>1, <1>2, NewOK
<1>4. ObjsOK(objs) /\ objs \in Seq(Instance)
  BY DEF Inv, World, Base, ObjsOK
<1>5. it.do = "upsert" /\ it.os = batch /\ it.cols \subseteq {"author"}
  BY <1>1
<1>6. {q.o : q \in ToSet(results)} = {n + 1, n + 2}
  BY DEF Result, ToSet
<1>7. Begin(t, "upsert", {}, os, <<it>>, <<>>, results)
  <2>1. objs \o <<a, b>> = os
    <3> HIDE DEF a, b
    <3> QED BY <1>3, <1>4
  <2> QED BY <1>1, <2>1
<1> HIDE DEF a, b, it, results
<1>8. /\ ObjsOK(one) /\ Len(one) = n + 1 /\ one[n + 1] = a /\ n \in Nat /\ DOMAIN objs = 1 .. n /\ DOMAIN one = 1 .. (n + 1)
      /\ \A x \in DOMAIN objs : one[x] = objs[x]
  BY <1>3, <1>4, OneMore
<1> HIDE DEF one, n
<1>9. /\ ObjsOK(os) /\ Len(os) = n + 2 /\ os[n + 2] = b /\ DOMAIN os = 1 .. (n + 2)
      /\ \A x \in DOMAIN one : os[x] = one[x]
  <2>1. /\ ObjsOK(os) /\ Len(os) = Len(one) + 1 /\ os[Len(one) + 1] = b /\ DOMAIN os = 1 .. (Len(one) + 1)
        /\ \A x \in DOMAIN one : os[x] = one[x]
    BY <1>3, <1>8, OneMore
  <2>2. Len(one) + 1 = n + 2
    BY <1>8
  <2> HIDE DEF os
  <2> QED BY <2>1, <2>2
<1> HIDE DEF os
<1>10. os[n + 1] = a /\ os[n + 2] = b /\ \A x \in DOMAIN objs : os[x] = objs[x]
  BY <1>8, <1>9
<1>11. Changed(os, {})
  <2>1. \A x \in DOMAIN objs : Lasts(objs[x], os[x]) /\ Same(objs[x], os[x])
    BY <1>10 DEF Lasts, Same
  <2>2. \A x \in DOMAIN os \ DOMAIN objs : x = n + 1 \/ x = n + 2
    BY <1>8, <1>9
  <2>3. n <= n + 2
    BY <1>8
  <2> QED BY <1>3, <1>9, <1>10, <2>1, <2>2, <2>3 DEF Changed, n
<1>12. FirstItem(it, {}, os, "upsert", <<>>, results)
  <2>1. ToSet(batch) = {n + 1, n + 2} /\ Len(batch) = 2 /\ batch \in Seq(1 .. (n + 2)) /\ batch # <<>> /\ Once(batch)
    BY <1>8 DEF ToSet, Once
  <2> HIDE DEF batch
  <2>2. Touches(it) = {n + 1, n + 2}
    BY <1>5, <2>1 DEF Touches
  <2>3. ItemOK(it, Len(os))
    BY <1>1, <1>5, <1>9, <2>1 DEF ItemOK, BatchOK
  <2>4. ItemFits(it, os)
    BY <1>3, <1>5, <1>10, <2>1 DEF ItemFits
  <2>5. {n + 1, n + 2} \subseteq (n + 1) .. Len(os)
    BY <1>8, <1>9
  <2> QED BY <1>3, <1>5, <1>6, <1>10, <2>2, <2>3, <2>4, <2>5 DEF FirstItem, n
<1> QED BY <1>7, <1>11, <1>12, StartsPlain DEF Promising

\* Each of the calls begins in order: the accessor of the relation.
LEMMA LoadRelationStep ==
  ASSUME Inv, NEW t \in Tasks, LoadRelation(t)
  PROVE  Starts(t)
<1>1. PICK o \in Usable :
        Begin(t, "relation", {}, [objs EXCEPT ![o].cache = Absent], <<[do |-> "relation", o |-> o]>>, <<>>, <<>>)
  BY DEF LoadRelation
<1> DEFINE b == [objs[o] EXCEPT !.cache = Absent]
           os == [objs EXCEPT ![o] = b]
           it == [do |-> "relation", o |-> o]
<1>2. /\ ObjsOK(objs) /\ objs \in Seq(Instance) /\ Len(objs) \in Nat /\ DOMAIN objs = 1 .. Len(objs) /\ o \in DOMAIN objs
  BY AsTheyAre DEF Inv, World, Base, ObjsOK
<1>3. objs[o] \in Instance
  BY <1>2
<1>4. b \in Instance /\ Same(objs[o], b) /\ Lasts(objs[o], b)
  BY <1>3 DEF Instance, Same, Lasts
<1>5. it.do = "relation" /\ it.o = o
  OBVIOUS
<1>6. Begin(t, "relation", {}, os, <<it>>, <<>>, <<>>)
  BY <1>1
<1> HIDE DEF b, it
<1>7. /\ os \in Seq(Instance) /\ Len(os) = Len(objs) /\ DOMAIN os = DOMAIN objs
      /\ os[o] = b /\ \A x \in DOMAIN objs : x # o => os[x] = objs[x]
  BY <1>2, <1>4, PutOne
<1> HIDE DEF os
<1>8. Changed(os, {})
  <2>1. \A x \in DOMAIN objs : Lasts(objs[x], os[x]) /\ Same(objs[x], os[x])
    BY <1>4, <1>7 DEF Lasts, Same
  <2>2. ObjsOK(os)
    BY <1>2, <1>7, <2>1 DEF ObjsOK, Lasts
  <2> QED BY <1>2, <1>7, <2>1, <2>2 DEF Changed
<1>9. FirstItem(it, {}, os, "relation", <<>>, <<>>)
  <2>1. {q.o : q \in ToSet(<<>>)} = {}
    BY DEF ToSet
  <2>2. Touches(it) = {} /\ ItemFits(it, os)
    BY <1>5 DEF Touches, ItemFits
  <2>3. ItemOK(it, Len(os))
    BY <1>2, <1>5, <1>7 DEF ItemOK, Targeted
  <2> QED BY <1>5, <2>1, <2>2, <2>3 DEF FirstItem
<1> QED BY <1>6, <1>8, <1>9, StartsPlain DEF Promising

\* Every call starts so.
LEMMA CallStarts ==
  ASSUME Inv, NEW t \in Tasks, Call(t)
  PROVE  Starts(t)
<1>2. CASE Create(t)
  BY <1>2, CreateStep
<1>3. CASE SaveFull(t)
  BY <1>3, SaveFullStep
<1>4. CASE SavePartial(t)
  BY <1>4, SavePartialStep
<1>5. CASE Delete(t)
  BY <1>5, DeleteStep
<1>6. CASE RefreshFromDb(t)
  BY <1>6, RefreshStep
<1>7. CASE Get(t)
  BY <1>7, GetStep
<1>8. CASE BulkGetOrCreate(t)
  <2>1. PICK recs \in Batches :
          /\ recs[2].id = OwnId => OwnId \notin DOMAIN rows /\ \A o \in Objs : objs[o].id # OwnId
          /\ Begin(t, "bulk_get_or_create", {}, objs,
                  <<[do |-> "find", keys |-> {rec.key : rec \in ToSet(recs)}]>>, recs, <<>>)
    BY <1>8 DEF BulkGetOrCreate
  <2> QED BY <2>1, BulkStep DEF Bulks
<1>9. CASE BulkUpdateOrCreate(t)
  <2>1. PICK recs \in Batches :
          /\ recs[2].id = None
          /\ Begin(t, "bulk_update_or_create", {}, objs,
                  <<[do |-> "find", keys |-> {rec.key : rec \in ToSet(recs)}]>>, recs, <<>>)
    BY <1>9 DEF BulkUpdateOrCreate
  <2>2. recs[2].id # OwnId
    BY <2>1, PersistenceAssumption
  <2> QED BY <2>1, <2>2, BulkStep DEF Bulks
<1>10. CASE BulkUpsert(t)
  BY <1>10, BulkUpsertStep
<1>11. CASE LoadRelation(t)
  BY <1>11, LoadRelationStep
<1>12. CASE Prefetch(t)
  BY <1>12, PrefetchStep
<1>13. CASE BulkUpdate(t)
  BY <1>13, BulkUpdateStep
<1> QED BY <1>2, <1>3, <1>4, <1>5, <1>6, <1>7, <1>8, <1>9, <1>10, <1>11, <1>12, <1>13 DEF Call

\* Whatever call begins, the invariant holds.
LEMMA CallStep ==
  ASSUME Inv, NEW t \in Tasks, Call(t)
  PROVE  Onward
<1>1. job[t] = Idle /\ calls < MaxCalls
  BY DEF Call
<1>2. PICK op, used, os, it, records, results :
        /\ Begin(t, op, used, os, <<it>>, records, results) /\ Changed(os, {})
        /\ FirstItem(it, used, os, op, records, results)
  BY CallStarts DEF Starts
<1>3. Changed(os, used)
  BY <1>2 DEF Changed
<1> QED BY <1>1, <1>2, <1>3, BeginStep

\* Whatever attribute is written, the invariant holds.
LEMMA AttributeStep ==
  ASSUME Inv, WriteAttribute
  PROVE  Onward
<1>1. \A o \in Usable : objs[o] \in Instance
  BY AsTheyAre
<1>2. calls < MaxCalls /\ None # "shut"
  BY PersistenceAssumption DEF WriteAttribute
<1>3. ASSUME NEW o \in Usable, Write(o, SetAttr(objs[o], "state", "shut"), "state") PROVE Onward
  <2> DEFINE ob == SetAttr(objs[o], "state", "shut")
  <2>1. ob \in Instance /\ Lasts(objs[o], ob)
    BY <1>1, <1>2, <1>3 DEF SetAttr, Instance, Lasts, States
  <2> HIDE DEF ob
  <2> QED BY <1>2, <1>3, <2>1, WriteStep DEF ob
<1>4. ASSUME NEW o \in Usable, NEW a \in Authors \cup {None}, Write(o, SetAttr(objs[o], "author", a), "author")
      PROVE Onward
  <2> DEFINE ob == SetAttr(objs[o], "author", a)
  <2>1. ob \in Instance /\ Lasts(objs[o], ob)
    BY <1>1, <1>4 DEF SetAttr, Instance, Lasts
  <2> HIDE DEF ob
  <2> QED BY <1>2, <1>4, <2>1, WriteStep DEF ob
<1>5. ASSUME NEW o \in Usable, NEW a \in Authors \cup {None}, NEW m \in BOOLEAN, m => a \in Authors,
             Write(o, SetRelation(objs[o], a, m), "author")
      PROVE Onward
  <2> DEFINE ob == SetRelation(objs[o], a, m)
  <2>1. ob \in Instance /\ Lasts(objs[o], ob)
    BY <1>1, <1>5 DEF SetRelation, Instance, Lasts
  <2> HIDE DEF ob
  <2> QED BY <1>2, <1>5, <2>1, WriteStep DEF ob
<1>6. CASE \E o \in Usable, a \in Authors : Write(o, SetRelation(objs[o], a, TRUE), "author")
  BY <1>5, <1>6
<1>7. CASE \E o \in Usable, a \in Authors \cup {None} : Write(o, SetRelation(objs[o], a, FALSE), "author")
  BY <1>5, <1>7
<1> QED BY <1>3, <1>4, <1>6, <1>7 DEF WriteAttribute

\* The invariant holds at first.
LEMMA InitInv ==
  ASSUME Init
  PROVE  Inv
<1> DEFINE T == [p \in Nat |-> [key |-> None, stamp |-> 0]]
<1>1. 0 \in Stamps
  BY PersistenceAssumption DEF Stamps
<1>2. Lines(T)
  BY <1>1 DEF Lines
<1> HIDE DEF T
<1>3. /\ decl \in Declarations /\ rows = <<>> /\ serial \in Nat /\ objs = <<>> /\ calls = 0
      /\ job = [t \in Tasks |-> Idle] /\ clean = <<>> /\ spoilt = {} /\ lost = FALSE
  BY PersistenceAssumption DEF Init
<1>4. DOMAIN rows = {} /\ DOMAIN objs = {} /\ Len(objs) = 0 /\ objs \in Seq(Instance)
      /\ clean \in Seq(SUBSET Columns) /\ Len(clean) = 0
  BY <1>3
<1>5. Base(T, rows, serial, objs, spoilt)
  <2>1. ObjsOK(objs) /\ RowsOK(rows, Len(objs)) /\ RowsLin(T, serial, rows)
    BY <1>4 DEF ObjsOK, RowsOK, RowsLin
  <2>2. Inserted(rows, objs, spoilt)
    BY <1>4 DEF Inserted, UniqueKeys
  <2> QED BY <1>2, <1>3, <1>4, <2>1, <2>2 DEF Base
<1>6. Idle.stmt.kind = "none" /\ Idle.todo = <<>> /\ Idle.results = <<>> /\ JobOK(Idle, 0)
  BY IdleOK DEF Idle
<1>7. Made(Idle) = {} /\ Later(Idle) = {} /\ UsedBy(Idle.stmt) = {} /\ Busied(Idle) = {}
  BY <1>6 DEF Made, Later, UsedBy, Busied, ToSet
<1>8. JobInv(T, serial, objs, spoilt, lost, Idle)
  <2>1. JobOwn(spoilt, Idle)
    BY <1>6, <1>7 DEF JobOwn
  <2> QED BY <1>6, <2>1 DEF JobInv, StmtLin, TodoLin, Agrees, Writing, TodoFits, StateGiven, TodoCareful
<1>9. World(T, rows, serial, objs, job, spoilt, lost, {})
  <2>1. Apart(Idle, Idle, spoilt)
    BY <1>7 DEF Apart
  <2>2. Read(rows, objs, job, {})
    BY <1>4 DEF Read
  <2>3. DOMAIN job = Tasks /\ \A t \in Tasks : job[t] = Idle
    BY <1>3
  <2> QED BY <1>3, <1>4, <1>5, <1>6, <1>8, <2>1, <2>2, <2>3 DEF World
<1>10. Settled(job)
  BY <1>3 DEF Settled
<1>11. lost \in BOOLEAN /\ calls \in Stamps
  BY <1>1, <1>3
<1> QED BY <1>3, <1>4, <1>9, <1>10, <1>11 DEF Inv

\* Every step leads onward.
LEMMA StepOnward ==
  ASSUME Inv, [Next]_vars
  PROVE  Onward
<1>1. CASE UNCHANGED vars
  <2>1. StampStays
    BY <1>1 DEF StampStays, vars
  <2> QED BY <1>1, <2>1 DEF Inv, Onward, vars
<1>2. CASE Next
  BY <1>2, CallStep, ProceedStep, FailStep, CancelStep, AttributeStep, CopyStep DEF Next
<1> QED BY <1>1, <1>2

\* Inv is inductive, and no step changes a time of creation.
THEOREM Invariant == Spec => []Inv /\ [][StampStays]_vars
<1>1. Init => Inv
  BY InitInv
<1>2. Inv /\ [Next]_vars => Inv'
  BY StepOnward, OnwardInv
<1>3. Inv /\ [Next]_vars => [StampStays]_vars
  BY StepOnward DEF Onward
<1> QED BY <1>1, <1>2, <1>3, PTL DEF Spec

\* The invariant has the types.
LEMMA InvTypes ==
  ASSUME Inv
  PROVE  TypeOK
<1>1. PICK T : World(T, rows, serial, objs, job, spoilt, lost, {})
  BY DEF Inv
<1>2. /\ decl \in Declarations /\ serial \in Nat /\ ObjsOK(objs) /\ RowsOK(rows, Len(objs)) /\ spoilt \subseteq 1 .. Len(objs)
      /\ objs \in Seq(Instance) /\ DOMAIN objs = 1 .. Len(objs)
  BY <1>1 DEF World, Base, ObjsOK
<1>3. /\ calls \in Stamps /\ lost \in BOOLEAN /\ clean \in Seq(SUBSET Columns) /\ Len(clean) = Len(objs)
  BY DEF Inv
<1>4. \A p \in DOMAIN rows :
       rows[p] \in [key : Keys, author : Authors \cup {None}, state : States \cup {None},
                    stamp : 0 .. MaxCalls, by : Objs]
  <2> SUFFICES ASSUME NEW p \in DOMAIN rows
               PROVE  rows[p] \in [key : Keys, author : Authors \cup {None}, state : States \cup {None},
                                   stamp : 0 .. MaxCalls, by : Objs]
    OBVIOUS
  <2>1. rows[p] \in Row /\ rows[p].by \in Objs
    BY <1>2 DEF RowsOK, Objs
  <2> QED BY <2>1 DEF Row, Stamps
<1>5. \A o \in Objs : objs[o] \in Instance
  BY <1>2 DEF Objs
<1>6. \A o \in Objs : clean[o] \subseteq Columns
  BY <1>2, <1>3 DEF Objs
<1>7. DOMAIN rows \subseteq Nat /\ Ids = Nat \cup {None}
  BY <1>2, PersistenceAssumption DEF RowsOK, Ids
<1> QED BY <1>2, <1>3, <1>4, <1>5, <1>6, <1>7 DEF TypeOK, Instance, Stamps, Objs

\* Row and instance of a generated key both have the key T gives it.
LEMMA InvOwnRow ==
  ASSUME Inv
  PROVE  OwnRow
<1>1. PICK T : World(T, rows, serial, objs, job, spoilt, lost, {})
  BY DEF Inv
<1>2. /\ RowsOK(rows, Len(objs)) /\ RowsLin(T, serial, rows) /\ \A o \in DOMAIN objs : Holds(T, serial, objs[o])
  BY <1>1 DEF World, Base
<1>3. SUFFICES ASSUME NEW o \in Objs, objs[o].id \in DOMAIN rows \ {OwnId}
               PROVE  rows[objs[o].id].key = objs[o].key
  BY DEF OwnRow
<1>4. objs[o].id \in Gen
  BY <1>2, <1>3 DEF RowsOK, Gen
<1> QED BY <1>2, <1>3, <1>4 DEF RowsLin, Holds, Kin, Objs

\* Two rows of one instance are two keys it carries, or two rows with one unique key.
LEMMA InvInsertedOnce ==
  ASSUME Inv
  PROVE  InsertedOnce
<1>1. PICK T : World(T, rows, serial, objs, job, spoilt, lost, {})
  BY DEF Inv
<1>2. RowsOK(rows, Len(objs)) /\ Inserted(rows, objs, spoilt) /\ DOMAIN objs = 1 .. Len(objs)
  BY <1>1 DEF World, Base, ObjsOK
<1>3. SUFFICES ASSUME NEW p \in DOMAIN rows \ {OwnId}, NEW q \in DOMAIN rows \ {OwnId}, p # q, rows[p].by = rows[q].by,
                      rows[p].by \notin spoilt
               PROVE  FALSE
  BY DEF InsertedOnce
<1> DEFINE o == rows[p].by
<1>4. o \in DOMAIN objs \ spoilt
  BY <1>2, <1>3 DEF RowsOK
<1>5. RowOf(objs[o], p, rows[p]) /\ RowOf(objs[o], q, rows[q])
  BY <1>2, <1>3, <1>4 DEF Inserted
<1>6. rows[p].key = rows[q].key /\ decl.unique
  BY <1>3, <1>5 DEF RowOf
<1> QED BY <1>2, <1>3, <1>6 DEF Inserted, UniqueKeys

\* Every instance leads to one row, its own, and every value keeps its type: under any
\* interleaving of calls, failed and cancelled ones included (models.py:1297, 2625-2656).
THEOREM RowOfItsOwn == Spec => []OneRowEach
<1>1. Inv => OneRowEach
  BY InvTypes, InvOwnRow, InvInsertedOnce DEF OneRowEach
<1> QED BY <1>1, Invariant, PTL

\* No save writes NULL over a database default, or another time over a row's time of
\* creation (models.py:1114-1131, 1221-1236, 1509-1514).
THEOREM AutomaticStays == Spec => AutomaticKept
<1>1. Inv => DefaultKept
  BY DEF Inv, World, Read, DefaultKept
<1>2. [](Inv => DefaultKept)
  BY <1>1, PTL
<1>3. Inv /\ Inv' /\ [StampStays]_vars => [DefaultKept' /\ StampStays]_vars
  <2>1. Inv' => DefaultKept'
    BY <1>1, PTL
  <2> QED BY <2>1
<1> QED BY <1>3, Invariant, PTL DEF AutomaticKept

-----------------------------------------------------------------------------
(* A call that finds out by itself what to insert is not refused while it is alone. *)

\* Keys generated by one INSERT differ.
LEMMA IdsDiffer ==
  ASSUME NEW values \in Seq(Value), serial \in Nat, NEW i \in DOMAIN values, NEW k \in DOMAIN values, i < k,
         values[i].id = None, values[k].id = None
  PROVE  InsertedIds(values)[i] # InsertedIds(values)[k]
<1> DEFINE B(n) == {m \in 1 .. n : values[m].id = None}
<1>1. B(i) \subseteq B(k) /\ k \in B(k) /\ k \notin B(i)
  OBVIOUS
<1>2. IsFiniteSet(B(i)) /\ IsFiniteSet(B(k))
  <2>1. IsFiniteSet(1 .. k)
    BY FS_Interval
  <2>2. B(k) \subseteq 1 .. k
    OBVIOUS
  <2> QED BY <1>1, <2>1, <2>2, FS_Subset
<1>3. Cardinality(B(i)) # Cardinality(B(k)) /\ Cardinality(B(i)) \in Nat /\ Cardinality(B(k)) \in Nat
  <2> HIDE DEF B
  <2> QED BY <1>1, <1>2, FS_Subset, FS_CardinalityType
<1>4. InsertedIds(values)[i] = serial + Cardinality(B(i)) /\ InsertedIds(values)[k] = serial + Cardinality(B(k))
  BY DEF InsertedIds
<1> HIDE DEF B
<1> QED BY <1>3, <1>4

\* Values for an INSERT into a table that has nothing of them.
Insertable(values) ==
  /\ \A i \in DOMAIN values :
       /\ values[i].id \in {None, OwnId} /\ (values[i].id = OwnId => OwnId \notin DOMAIN rows)
       /\ decl.unique => \A p \in DOMAIN rows : rows[p].key # values[i].key
  /\ \A i, k \in DOMAIN values : i # k =>
       values[i].key # values[k].key /\ values[i].id = None

\* An insert of instances that fit next to each other and to the rows is accepted, unless a
\* generated key was chosen before; one with a chosen key has just that instance.
LEMMA InsertAccepted ==
  ASSUME NEW values \in Seq(Value), TableOK(rows, serial), UniqueKeys(rows), Insertable(values), ~Clashes(values)
  PROVE  ExecuteInsert(values).ok
<1> DEFINE ids == InsertedIds(values)
           after == [p \in ToSet(ids) \cup DOMAIN rows |->
                       IF p \in ToSet(ids) THEN Stored(values[CHOOSE i \in DOMAIN ids : ids[i] = p])
                       ELSE rows[p]]
<1>1. serial \in Nat
  BY DEF TableOK
<1>2. /\ ids \in Seq(Nat \cup {OwnId}) /\ Len(ids) = Len(values) /\ DOMAIN ids = DOMAIN values
      /\ \A i \in DOMAIN values :
           IF values[i].id # None THEN ids[i] = values[i].id ELSE ids[i] \in Nat /\ serial < ids[i]
  BY <1>1, NewIds
<1>3. \A i, k \in DOMAIN values : i < k => ids[i] # ids[k]
  <2> SUFFICES ASSUME NEW i \in DOMAIN values, NEW k \in DOMAIN values, i < k PROVE ids[i] # ids[k]
    OBVIOUS
  <2>1. CASE values[i].id = None /\ values[k].id = None
    BY <1>1, <2>1, IdsDiffer
  <2>2. CASE ~(values[i].id = None /\ values[k].id = None)
    <3>1. i # k
      OBVIOUS
    <3> QED BY <2>2, <3>1 DEF Insertable
  <2> QED BY <2>1, <2>2
<1> HIDE DEF ids
<1>4. IsInjective(ids)
  <2>1. \A i, k \in DOMAIN values : i # k => i < k \/ k < i
    OBVIOUS
  <2> QED BY <1>2, <1>3, <2>1 DEF IsInjective
<1>5. ToSet(ids) \cap DOMAIN rows = {}
  <2> SUFFICES ASSUME NEW i \in DOMAIN values PROVE ids[i] \notin DOMAIN rows
    BY <1>2 DEF ToSet
  <2>1. values[i].id \in {None, OwnId} /\ (values[i].id = OwnId => OwnId \notin DOMAIN rows)
    BY DEF Insertable
  <2>2. \A p \in DOMAIN rows : p \in Nat /\ (p <= serial \/ (p = OwnId /\ ~decl.advances))
    BY DEF TableOK
  <2>3. CASE values[i].id = OwnId
    BY <1>2, <2>1, <2>3, PersistenceAssumption
  <2>4. CASE values[i].id = None
    <3>1. ids[i] \in Nat /\ serial < ids[i]
      BY <1>2, <2>4
    <3>2. ~(~decl.advances /\ OwnId \in DOMAIN rows /\ ids[i] = OwnId)
      BY <2>4 DEF Clashes, ids
    <3> QED BY <1>1, <2>2, <3>1, <3>2
  <2> QED BY <2>1, <2>3, <2>4
<1>6. \A p \in ToSet(ids) : \E i \in DOMAIN values : ids[i] = p /\ after[p] = Stored(values[i])
  <2> SUFFICES ASSUME NEW i \in DOMAIN values PROVE after[ids[i]] = Stored(values[i])
    BY <1>2 DEF ToSet
  <2>1. ids[i] \in ToSet(ids)
    BY <1>2 DEF ToSet
  <2>2. (CHOOSE k \in DOMAIN ids : ids[k] = ids[i]) = i
    BY <1>2, <1>4 DEF IsInjective
  <2> QED BY <2>1, <2>2
<1>7. /\ DOMAIN after = ToSet(ids) \cup DOMAIN rows
      /\ \A p \in DOMAIN rows : after[p] = rows[p]
  BY <1>5
<1> HIDE DEF after
<1>8. \A i \in DOMAIN values : Stored(values[i]).key = values[i].key
  BY DEF Stored
<1>9. UniqueKeys(after)
  <2> SUFFICES ASSUME decl.unique, NEW p \in DOMAIN after, NEW q \in DOMAIN after, after[p].key = after[q].key
               PROVE  p = q
    BY DEF UniqueKeys
  <2>1. CASE p \in DOMAIN rows /\ q \in DOMAIN rows
    BY <1>7, <2>1 DEF UniqueKeys
  <2>2. CASE p \in DOMAIN rows /\ q \in ToSet(ids)
    BY <1>6, <1>7, <1>8, <2>2 DEF Insertable
  <2>3. CASE p \in ToSet(ids) /\ q \in DOMAIN rows
    BY <1>6, <1>7, <1>8, <2>3 DEF Insertable
  <2>4. CASE p \in ToSet(ids) /\ q \in ToSet(ids)
    <3>1. PICK i \in DOMAIN values : ids[i] = p /\ after[p] = Stored(values[i])
      BY <1>6, <2>4
    <3>2. PICK k \in DOMAIN values : ids[k] = q /\ after[q] = Stored(values[k])
      BY <1>6, <2>4
    <3>3. values[i].key = values[k].key
      BY <1>8, <3>1, <3>2
    <3> QED BY <3>1, <3>2, <3>3 DEF Insertable
  <2> QED BY <1>7, <2>1, <2>2, <2>3, <2>4
<1>10. decl.unique => IsInjective([i \in DOMAIN values |-> values[i].key])
  BY DEF Insertable, IsInjective
<1>11. ExecuteInsert(values).ok <=> /\ IsInjective(ids) /\ ToSet(ids) \cap DOMAIN rows = {}
                                    /\ UniqueKeys(after)
                                    /\ decl.unique => IsInjective([i \in DOMAIN values |-> values[i].key])
  BY DEF ExecuteInsert, ids, after
<1> QED BY <1>4, <1>5, <1>9, <1>10, <1>11

\* The keys an UPDATE brings are those of its rows.
KeepsKeys(s, rs) ==
  s.kind = "update" =>
    \A i \in DOMAIN s.os : "key" \in DOMAIN s.values[i] /\ s.ids[i] \in DOMAIN rs => s.values[i]["key"] = rs[s.ids[i]].key

\* An update that keeps the key of each row is accepted.
LEMMA UpdateAccepted ==
  ASSUME NEW s, s.kind = "update", NEW n \in Nat, StmtOK(s, n), TableOK(rows, serial), UniqueKeys(rows),
         KeepsKeys(s, rows)
  PROVE  /\ Execute(s).ok /\ DOMAIN Execute(s).rows = DOMAIN rows
         /\ \A p \in DOMAIN rows : Execute(s).rows[p].key = rows[p].key
<1> DEFINE m == Len(s.os)
           after == ExecuteUpdate(s.ids, s.values).rows
<1>1. m \in Nat /\ DOMAIN s.ids = 1 .. m /\ DOMAIN s.values = 1 .. m /\ DOMAIN s.os = 1 .. m
  BY DEF StmtOK, BatchOK
<1>2. Execute(s) = ExecuteUpdate(s.ids, s.values)
  BY DEF Execute
<1> HIDE DEF m
<1>3. /\ DOMAIN after = DOMAIN rows
      /\ \A p \in DOMAIN rows :
              \/ after[p] = rows[p]
              \/ \E i \in 1 .. m : s.ids[i] = p /\ after[p] = Put(rows[p], s.values[i])
      /\ UniqueKeys(after) => ExecuteUpdate(s.ids, s.values).ok
  BY <1>1, Updates
<1> HIDE DEF after
<1>4. ASSUME NEW p \in DOMAIN rows PROVE after[p].key = rows[p].key
  <2>1. CASE after[p] = rows[p]
    BY <2>1
  <2>2. CASE \E i \in 1 .. m : s.ids[i] = p /\ after[p] = Put(rows[p], s.values[i])
    <3>1. PICK i \in 1 .. m : s.ids[i] = p /\ after[p] = Put(rows[p], s.values[i])
      BY <2>2
    <3>2. PartOK(s.values[i]) /\ rows[p] \in Row
      BY <1>1 DEF StmtOK, TableOK
    <3>3. after[p].key = IF "key" \in DOMAIN s.values[i] THEN s.values[i]["key"] ELSE rows[p].key
      BY <3>1, <3>2, PutRow
    <3> QED BY <1>1, <3>1, <3>3 DEF KeepsKeys
  <2> QED BY <1>3, <2>1, <2>2
<1>5. UniqueKeys(after)
  BY <1>3, <1>4 DEF UniqueKeys
<1> QED BY <1>2, <1>3, <1>4, <1>5 DEF after

-----------------------------------------------------------------------------
(* What a promising call relies on while nobody else writes. *)

\* Of the instances M, each can be inserted next to the others, or carries the key of
\* its row.
Storable(M, os, rs) ==
  /\ \A x, y \in M : x # y => os[x].key # os[y].key /\ ~(os[x].id = OwnId /\ os[y].id = OwnId)
  /\ \A x \in M :
       IF os[x].in_db THEN /\ os[x].id \in DOMAIN rs => rs[os[x].id].key = os[x].key
                           /\ os[x].id = OwnId => OwnId \in DOMAIN rs
       ELSE /\ os[x].id \in {None, OwnId} /\ (os[x].id = OwnId => OwnId \notin DOMAIN rs)
            /\ decl.unique => \A p \in DOMAIN rs : rs[p].key # os[x].key

\* Those of M that are to be inserted under a key the caller chose.
Chosen(M, os) == {x \in M : ~os[x].in_db /\ os[x].id = OwnId}

Sent == {"find", "insert", "update", "defaults"}

Promised(j, os, rs) ==
  j.op \in Promising /\ j.alone =>
    /\ j.stmt.kind \in Sent /\ UsedBy(j.stmt) \subseteq Made(j)
    /\ Storable(Made(j), os, rs) /\ KeepsKeys(j.stmt, rs)
    /\ Chosen(Made(j), os) # {} => j.stmt.kind = "insert" /\ UsedBy(j.stmt) = Chosen(Made(j), os)
    /\ j.stmt.kind = "find" /\ j.op \in Bulks => LooksFor(j.stmt.keys, j.records, rs)

AllPromised(js, os, rs) == \A u \in Tasks : Promised(js[u], os, rs)

Promises == AllPromised(job, objs, rows) /\ refused = {}

\* Only the key, the primary key and being stored count.
LEMMA StorableStays ==
  ASSUME NEW M, NEW os, NEW os2, NEW rs, Storable(M, os, rs), \A x \in M : Steps(os[x], os2[x])
  PROVE  Storable(M, os2, rs)
  BY DEF Storable, Steps

\* See StorableStays.
LEMMA ChosenStays ==
  ASSUME NEW M, NEW os, NEW os2, \A x \in M : Steps(os[x], os2[x])
  PROVE  Chosen(M, os2) = Chosen(M, os)
  BY DEF Chosen, Steps

\* What a call relies on holds while the instances it made keep what identifies them.
LEMMA PromisedStays ==
  ASSUME NEW j, NEW os, NEW os2, NEW rs, Promised(j, os, rs), \A x \in Made(j) : Steps(os[x], os2[x])
  PROVE  Promised(j, os2, rs)
<1>1. ASSUME Storable(Made(j), os, rs) PROVE Storable(Made(j), os2, rs)
  BY <1>1, StorableStays
<1>2. Chosen(Made(j), os2) = Chosen(Made(j), os)
  BY ChosenStays
<1> QED BY <1>1, <1>2 DEF Promised

\* The statement of a promising call that nobody disturbed is accepted, unless a generated key
\* was chosen before.
LEMMA AloneAccepted ==
  ASSUME NEW T, World(T, rows, serial, objs, job, spoilt, lost, {}), NEW t \in Tasks,
         Promised(job[t], objs, rows), job[t].op \in Promising, job[t].alone,
         ~(job[t].stmt.kind = "insert" /\ Clashes(job[t].stmt.values))
  PROVE  Execute(job[t].stmt).ok
<1> DEFINE j == job[t]
           s == job[t].stmt
           M == Made(j)
<1>1. /\ s.kind \in Sent /\ UsedBy(s) \subseteq M /\ Storable(M, objs, rows) /\ KeepsKeys(s, rows)
      /\ Chosen(M, objs) # {} => UsedBy(s) = Chosen(M, objs)
  BY DEF Promised
<1>7. ~(s.kind = "insert" /\ Clashes(s.values))
  OBVIOUS
<1>2. /\ TableOK(rows, serial) /\ UniqueKeys(rows) /\ Len(objs) \in Nat /\ ObjsOK(objs)
  <2>1. Base(T, rows, serial, objs, spoilt)
    BY DEF World
  <2>2. ObjsOK(objs)
    BY <2>1 DEF Base
  <2>3. TableOK(rows, serial) /\ UniqueKeys(rows)
    BY <2>1, TableIsOK
  <2> QED BY <2>2, <2>3 DEF ObjsOK
<1>3. StmtOK(s, Len(objs)) /\ Agrees(s, objs, spoilt) /\ M \cap spoilt = {} /\ s.kind \in Kinds
  BY DEF World, JobOK, JobInv, JobOwn, StmtOK
<1> HIDE DEF M, s
<1>4. CASE s.kind = "insert"
  <2>1. /\ InsertOK(s, Len(objs)) /\ Execute(s) = ExecuteInsert(s.values) /\ s.values \in Seq(Value)
        /\ DOMAIN s.values = DOMAIN s.os /\ Once(s.os)
    BY <1>3, <1>4, ExecuteKinds DEF StmtOK, InsertOK, BatchOK
  <2>2. \A i \in DOMAIN s.os : s.os[i] \in M /\ ~objs[s.os[i]].in_db /\ Gives(s.values[i], objs[s.os[i]])
    <3> SUFFICES ASSUME NEW i \in DOMAIN s.os
                 PROVE  s.os[i] \in M /\ ~objs[s.os[i]].in_db /\ Gives(s.values[i], objs[s.os[i]])
      OBVIOUS
    <3>1. s.os[i] \in UsedBy(s)
      BY <1>4 DEF UsedBy, ToSet
    <3>2. s.os[i] \in spoilt \/ Fits(s, i, objs[s.os[i]])
      BY <1>3, <1>4 DEF Agrees, Writing
    <3> QED BY <1>1, <1>3, <1>4, <3>1, <3>2 DEF Fits
  <2>3. \A i, k \in DOMAIN s.os : i # k => s.os[i] # s.os[k]
    BY <2>1 DEF Once
  <2>5. \A i, k \in DOMAIN s.os : i # k => objs[s.os[i]].id # OwnId
    <3> SUFFICES ASSUME NEW i \in DOMAIN s.os, NEW k \in DOMAIN s.os, i # k, objs[s.os[i]].id = OwnId
                 PROVE  FALSE
      OBVIOUS
    <3>1. s.os[i] \in Chosen(M, objs) /\ s.os[k] \in UsedBy(s)
      BY <1>4, <2>2 DEF Chosen, UsedBy, ToSet
    <3>2. s.os[k] \in Chosen(M, objs)
      BY <1>1, <3>1
    <3> QED BY <1>1, <2>3, <3>1, <3>2 DEF Storable, Chosen
  <2>4. Insertable(s.values)
    <3>1. \A i \in DOMAIN s.os : /\ s.values[i].id = objs[s.os[i]].id /\ s.values[i].key = objs[s.os[i]].key
                                 /\ objs[s.os[i]].id \in {None, OwnId}
      BY <1>1, <2>2 DEF Storable, Gives
    <3> QED BY <1>1, <2>1, <2>2, <2>3, <2>5, <3>1 DEF Insertable, Storable
  <2>6. Execute(s).ok
    BY <1>2, <1>4, <1>7, <2>1, <2>4, InsertAccepted
  <2> QED BY <2>6 DEF s
<1>5. CASE s.kind = "update"
  BY <1>1, <1>2, <1>3, <1>5, UpdateAccepted DEF s
<1>6. CASE s.kind \in {"find", "defaults"}
  BY <1>3, <1>6, ExecuteKinds DEF Unchanged, s
<1> QED BY <1>1, <1>4, <1>5, <1>6 DEF Sent, s

-----------------------------------------------------------------------------
(* What the answer to a statement of a promising call leaves. *)

\* The next item of work is for instances M.
NextFor(todo, M) ==
  todo # <<>> => Head(todo).do \in {"insert", "update", "save", "defaults"} /\ Touches(Head(todo)) \subseteq M

\* An instance with a chosen key is inserted next, and by itself.
ChosenNext(todo, C) == C # {} => todo # <<>> /\ Head(todo).do = "insert" /\ ToSet(Head(todo).os) = C

\* The instances the call has made so far, and what is to be done with them.
Leaves(e, r) ==
  /\ Storable(Made(r), r.objs, e.rows) /\ NextFor(r.todo, Made(r))
  /\ ChosenNext(r.todo, Chosen(Made(r), r.objs))

Alone(j) == j.op \in Promising /\ j.alone

\* The work that waits is for instances the call made.
LEMMA TodoFor ==
  ASSUME NEW j, NEW n, JobOK(j, n), NEW sp, JobOwn(sp, j)
  PROVE  NextFor(j.todo, Made(j))
<1> SUFFICES ASSUME j.todo # <<>>
             PROVE  Head(j.todo).do \in {"insert", "update", "save", "defaults"} /\ Touches(Head(j.todo)) \subseteq Made(j)
  BY DEF NextFor
<1>1. j.todo \in Seq(Items)
  BY DEF JobOK
<1>2. 1 \in DOMAIN j.todo /\ Head(j.todo) = j.todo[1] /\ j.todo[1] \in Items
  BY <1>1
<1>3. j.todo[1].do \in {"insert", "update"} /\ Touches(j.todo[1]) = ToSet(j.todo[1].os)
  BY <1>2 DEF Items, Touches
<1>4. ToSet(j.todo[1].os) \subseteq Later(j)
  BY <1>2 DEF Later
<1> QED BY <1>2, <1>3, <1>4 DEF JobOwn

\* The same results, the same instances.
LEMMA MadeOf ==
  ASSUME NEW r, NEW j, r.results = j.results
  PROVE  Made(r) = Made(j)
  BY DEF Made

\* An update or a read of the defaults leaves the instances storable.
LEMMA LeavesPlain ==
  ASSUME NEW T, NEW U, NEW t, NEW e, NEW pick, NEW r, NEW js, Answering(T, U, t, e, pick, r, js),
         Promised(job[t], objs, rows), Alone(job[t]), job[t].stmt.kind \in {"update", "defaults"}
  PROVE  Leaves(e, r)
<1> DEFINE j == job[t]
           s == job[t].stmt
           M == Made(j)
<1>1. /\ StmtOK(s, Len(objs)) /\ Len(objs) \in Nat /\ Executed(T, U, e, s) /\ JobOK(j, Len(objs))
      /\ JobInv(T, serial, objs, spoilt, lost, j) /\ Asked(T, t)
  BY AnsweringIs
<1>2. Storable(M, objs, rows) /\ KeepsKeys(s, rows) /\ Chosen(M, objs) = {}
  BY DEF Promised, Alone
<1>3. PlainTaken(U, e, t, r)
  BY TakenPlain
<1>4. r.todo = j.todo /\ r.results = j.results /\ Made(r) = M
  BY <1>3, MadeOf DEF PlainTaken
<1>5. NextFor(r.todo, M)
  BY <1>1, <1>4, TodoFor DEF JobInv
<1>6. M \subseteq DOMAIN objs
  <2>1. t \in Tasks /\ World(T, rows, serial, objs, job, spoilt, lost, {}) /\ DOMAIN objs = 1 .. Len(objs)
    BY AnsweringIs
  <2> QED BY <2>1, OthersOld
<1>7. DOMAIN e.rows = DOMAIN rows /\ \A p \in DOMAIN rows : e.rows[p].key = rows[p].key
  <2>1. e = Execute(s)
    BY <1>1 DEF Executed
  <2>2. CASE s.kind = "update"
    <3>1. TableOK(rows, serial) /\ UniqueKeys(rows)
      BY <1>1, TableIsOK DEF Asked
    <3> HIDE DEF s
    <3> QED BY <1>1, <1>2, <2>1, <2>2, <3>1, UpdateAccepted
  <2>3. CASE s.kind = "defaults"
    <3>1. s.kind \in Kinds
      BY <2>3 DEF Kinds
    <3> HIDE DEF s
    <3> QED BY <2>1, <2>3, <3>1, ExecuteKinds DEF Unchanged
  <2> QED BY <2>2, <2>3
<1>8. \A x \in M : Steps(objs[x], r.objs[x])
  BY <1>3, <1>6 DEF PlainTaken, Steps
<1> HIDE DEF M
<1>9. Storable(M, r.objs, e.rows)
  BY <1>2, <1>7, <1>8 DEF Storable, Steps
<1>10. Chosen(M, r.objs) = {}
  BY <1>2, <1>8, ChosenStays
<1> QED BY <1>4, <1>5, <1>9, <1>10 DEF Leaves, ChosenNext

\* The instances inserted have their rows, those still to be inserted fit next to them.
LEMMA LeavesInsert ==
  ASSUME NEW T, NEW U, NEW t, NEW e, NEW pick, NEW r, NEW js, Answering(T, U, t, e, pick, r, js),
         Promised(job[t], objs, rows), Alone(job[t]), job[t].stmt.kind = "insert"
  PROVE  Leaves(e, r)
<1> DEFINE j == job[t]
           s == job[t].stmt
           M == Made(j)
<1>1. /\ StmtOK(s, Len(objs)) /\ Len(objs) \in Nat /\ Executed(T, U, e, s) /\ JobOK(j, Len(objs))
      /\ JobInv(T, serial, objs, spoilt, lost, j) /\ Asked(T, t) /\ DOMAIN objs = 1 .. Len(objs)
      /\ t \in Tasks /\ World(T, rows, serial, objs, job, spoilt, lost, {})
  BY AnsweringIs
<1>2. /\ Storable(M, objs, rows) /\ UsedBy(s) \subseteq M
      /\ Chosen(M, objs) # {} => UsedBy(s) = Chosen(M, objs)
  BY DEF Promised, Alone
<1>20. \A x, y \in M : x # y => objs[x].key # objs[y].key /\ ~(objs[x].id = OwnId /\ objs[y].id = OwnId)
  <2> HIDE DEF M
  <2> QED BY <1>2 DEF Storable
<1>3. InsertTaken(e, t, r)
  BY TakenInsert
<1>4. r.results = j.results /\ Made(r) = M
  BY <1>3, MadeOf DEF InsertTaken, Kept
<1>5. ToSet(s.os) \subseteq M /\ M \subseteq DOMAIN objs /\ M \cap spoilt = {} /\ UsedBy(s) = ToSet(s.os)
  <2>1. UsedBy(s) = ToSet(s.os)
    BY DEF UsedBy
  <2> QED BY <1>1, <1>2, <2>1, OthersOld DEF JobInv, JobOwn
<1>6. NextFor(r.todo, M)
  <2>1. CASE r.todo = j.todo
    BY <1>1, <2>1, TodoFor DEF JobInv
  <2>2. CASE \E o \in ToSet(s.os) : Follows(r.todo, o)
    <3>1. PICK o \in ToSet(s.os) : Follows(r.todo, o)
      BY <2>2
    <3>2. Head(r.todo) = Reading(o)
      BY <3>1 DEF Follows
    <3>3. Reading(o).do = "defaults" /\ Touches(Reading(o)) = {o}
      BY DEF Reading, Touches
    <3> HIDE DEF M
    <3> QED BY <1>5, <3>2, <3>3 DEF NextFor
  <2> QED BY <1>3, <2>1, <2>2 DEF InsertTaken
<1>7. /\ s.values \in Seq(Value) /\ DOMAIN s.values = DOMAIN s.os /\ Once(s.os) /\ serial \in Nat
      /\ e = ExecuteInsert(s.values) /\ e.ok
  <2>1. e = Execute(s) /\ e.ok /\ s.kind \in Kinds
    BY <1>1 DEF Executed, Kinds
  <2> QED BY <1>1, <2>1, ExecuteKinds DEF StmtOK, InsertOK, BatchOK, Asked, Base
<1>9. \A i \in DOMAIN s.os : /\ s.os[i] \in M /\ s.values[i].key = objs[s.os[i]].key /\ s.values[i].id = objs[s.os[i]].id
                             /\ ~objs[s.os[i]].in_db
  <2> SUFFICES ASSUME NEW i \in DOMAIN s.os
               PROVE  /\ s.os[i] \in M /\ s.values[i].key = objs[s.os[i]].key /\ s.values[i].id = objs[s.os[i]].id
                      /\ ~objs[s.os[i]].in_db
    OBVIOUS
  <2>1. s.os[i] \in M
    BY <1>5 DEF ToSet
  <2>2. Fits(s, i, objs[s.os[i]])
    <3>1. s.os[i] \notin spoilt
      BY <1>5, <2>1
    <3> QED BY <1>1, <3>1 DEF JobInv, Agrees, Writing
  <2> QED BY <2>1, <2>2 DEF Fits, Gives
<1>8. /\ \A i \in DOMAIN s.os :
           /\ e.ids[i] \in DOMAIN e.rows \ DOMAIN rows /\ e.rows[e.ids[i]].key = s.values[i].key
           /\ e.ids[i] # OwnId => e.ids[i] \in Nat /\ serial < e.ids[i]
      /\ \A i, k \in DOMAIN s.os : i # k => e.ids[i] # e.ids[k]
      /\ \A p \in DOMAIN rows : p \in DOMAIN e.rows /\ e.rows[p] = rows[p]
      /\ \A p \in DOMAIN e.rows \ DOMAIN rows : \E i \in DOMAIN s.os : e.ids[i] = p
  <2>1. /\ \A i \in DOMAIN s.values :
              /\ e.ids[i] \in DOMAIN e.rows \ DOMAIN rows
              /\ e.rows[e.ids[i]] = Stored(s.values[i])
              /\ IF s.values[i].id # None THEN e.ids[i] = s.values[i].id ELSE e.ids[i] \in Nat /\ serial < e.ids[i]
        /\ \A p \in DOMAIN rows : p \in DOMAIN e.rows /\ e.rows[p] = rows[p]
        /\ \A p \in DOMAIN e.rows \ DOMAIN rows : \E i \in DOMAIN s.values : e.ids[i] = p
        /\ Once(e.ids) /\ DOMAIN e.ids = DOMAIN s.values
    <3> HIDE DEF s
    <3>1. e.ids \in Seq(Nat \cup {OwnId}) /\ Len(e.ids) = Len(s.values) /\ Once(e.ids)
      BY <1>7, Inserts
    <3>2. DOMAIN e.ids = DOMAIN s.values
      BY <1>7, <3>1
    <3>3. /\ \A i \in DOMAIN s.values :
                /\ e.ids[i] \in DOMAIN e.rows \ DOMAIN rows
                /\ e.rows[e.ids[i]] = Stored(s.values[i])
                /\ IF s.values[i].id # None THEN e.ids[i] = s.values[i].id ELSE e.ids[i] \in Nat /\ serial < e.ids[i]
          /\ \A p \in DOMAIN rows : p \in DOMAIN e.rows /\ e.rows[p] = rows[p]
          /\ \A p \in DOMAIN e.rows \ DOMAIN rows : \E i \in DOMAIN s.values : e.ids[i] = p
      BY <1>7, Inserts
    <3> QED BY <3>1, <3>2, <3>3
  <2>2. \A v : Stored(v).key = v.key
    BY DEF Stored
  <2>4. \A i \in DOMAIN s.os : s.values[i].id \in {None, OwnId}
    BY <1>2, <1>9 DEF Storable
  <2> HIDE DEF s
  <2>5. \A i, k \in DOMAIN s.os : i # k => e.ids[i] # e.ids[k]
    BY <1>7, <2>1 DEF Once
  <2> QED BY <1>7, <2>1, <2>2, <2>4, <2>5
<1>10. /\ \A x \in M \ ToSet(s.os) : r.objs[x] = objs[x]
       /\ \A i \in DOMAIN s.os : r.objs[s.os[i]].in_db /\ r.objs[s.os[i]].id = e.ids[i] /\ r.objs[s.os[i]].key = objs[s.os[i]].key
  BY <1>3, <1>5 DEF InsertTaken, Saved
<1>11. \A x \in ToSet(s.os) : \E i \in DOMAIN s.os : x = s.os[i]
  BY DEF ToSet
<1> HIDE DEF M, s, j
<1>12. \A x \in M : r.objs[x].key = objs[x].key
  BY <1>9, <1>10, <1>11
<1>17. ASSUME NEW x \in M, x \notin ToSet(s.os), objs[x].id = OwnId
       PROVE  objs[x].in_db /\ OwnId \in DOMAIN rows
  <2>1. x \notin Chosen(M, objs)
    BY <1>2, <1>5, <1>17
  <2>2. objs[x].in_db
    BY <1>17, <2>1 DEF Chosen
  <2> QED BY <1>2, <1>17, <2>2 DEF Storable
<1>18. ASSUME NEW x \in ToSet(s.os)
       PROVE  \E i \in DOMAIN s.os : x = s.os[i] /\ r.objs[x].in_db /\ r.objs[x].id = e.ids[i] /\ e.ids[i] \notin DOMAIN rows
  BY <1>8, <1>10, <1>11, <1>18
<1>13. ASSUME NEW x \in M, NEW y \in M, x # y
       PROVE  r.objs[x].key # r.objs[y].key /\ ~(r.objs[x].id = OwnId /\ r.objs[y].id = OwnId)
  <2>1. objs[x].key # objs[y].key /\ ~(objs[x].id = OwnId /\ objs[y].id = OwnId)
    BY <1>13, <1>20
  <2>2. r.objs[x].key = objs[x].key /\ r.objs[y].key = objs[y].key
    BY <1>12
  <2>3. ASSUME r.objs[x].id = OwnId, r.objs[y].id = OwnId
        PROVE  FALSE
    <3>1. CASE x \in ToSet(s.os) /\ y \in ToSet(s.os)
      BY <1>8, <1>13, <1>18, <2>3, <3>1
    <3>2. CASE x \in ToSet(s.os) /\ y \notin ToSet(s.os)
      <4>1. objs[y].id = OwnId
        BY <1>10, <2>3, <3>2
      <4> QED BY <1>17, <1>18, <2>3, <3>2, <4>1
    <3>3. CASE x \notin ToSet(s.os) /\ y \in ToSet(s.os)
      <4>1. objs[x].id = OwnId
        BY <1>10, <2>3, <3>3
      <4> QED BY <1>17, <1>18, <2>3, <3>3, <4>1
    <3>4. CASE x \notin ToSet(s.os) /\ y \notin ToSet(s.os)
      BY <1>10, <2>1, <2>3, <3>4
    <3> QED BY <3>1, <3>2, <3>3, <3>4
  <2> QED BY <2>1, <2>2, <2>3
<1>14. ASSUME NEW x \in M, r.objs[x].in_db, r.objs[x].id \in DOMAIN e.rows
       PROVE  e.rows[r.objs[x].id].key = r.objs[x].key
  <2>1. CASE x \in ToSet(s.os)
    BY <1>8, <1>9, <1>10, <1>11, <2>1
  <2>2. CASE x \notin ToSet(s.os)
    <3>1. r.objs[x] = objs[x]
      BY <1>10, <2>2
    <3>2. CASE objs[x].id \in DOMAIN rows
      BY <1>2, <1>8, <1>14, <3>1, <3>2 DEF Storable
    <3>3. CASE objs[x].id \notin DOMAIN rows
      <4>1. PICK i \in DOMAIN s.os : e.ids[i] = objs[x].id
        BY <1>8, <1>14, <3>1, <3>3
      <4>2. x # s.os[i] /\ s.os[i] \in M
        BY <1>9, <1>14, <3>1
      <4>3. CASE e.ids[i] = OwnId
        <5>1. objs[x].id = OwnId
          BY <4>1, <4>3
        <5> QED BY <1>17, <2>2, <3>3, <5>1
      <4>4. CASE e.ids[i] # OwnId
        <5>1. objs[x].id \in Gen /\ objs[x].id \in Nat /\ serial < objs[x].id
          BY <1>8, <4>1, <4>4 DEF Gen
        <5>2. Holds(T, serial, objs[x])
          BY <1>1, <1>5 DEF World, Base
        <5> QED BY <1>7, <5>1, <5>2 DEF Holds
      <4> QED BY <4>3, <4>4
    <3> QED BY <3>2, <3>3
  <2> QED BY <2>1, <2>2
<1>19. ASSUME NEW x \in M, r.objs[x].in_db, r.objs[x].id = OwnId
       PROVE  OwnId \in DOMAIN e.rows
  <2>1. CASE x \in ToSet(s.os)
    BY <1>8, <1>10, <1>11, <1>19, <2>1
  <2>2. CASE x \notin ToSet(s.os)
    <3>1. objs[x].id = OwnId
      BY <1>10, <1>19, <2>2
    <3> QED BY <1>8, <1>17, <2>2, <3>1
  <2> QED BY <2>1, <2>2
<1>21. Chosen(M, r.objs) = {}
  <2> SUFFICES ASSUME NEW x \in M, ~r.objs[x].in_db, r.objs[x].id = OwnId PROVE FALSE
    BY DEF Chosen
  <2>1. x \notin ToSet(s.os) /\ r.objs[x] = objs[x]
    BY <1>10, <1>11
  <2> QED BY <1>17, <2>1
<1>15. ASSUME NEW x \in M, ~r.objs[x].in_db
       PROVE  /\ r.objs[x].id \in {None, OwnId} /\ (r.objs[x].id = OwnId => OwnId \notin DOMAIN e.rows)
              /\ decl.unique => \A p \in DOMAIN e.rows : e.rows[p].key # r.objs[x].key
  <2>1. x \notin ToSet(s.os) /\ r.objs[x] = objs[x]
    BY <1>10, <1>11, <1>15
  <2>2. \A i \in DOMAIN s.os : s.os[i] # x
    BY <1>9, <1>10, <1>15
  <2>3. objs[x].id # OwnId
    BY <1>15, <1>21, <2>1 DEF Chosen
  <2>4. decl.unique => \A p \in DOMAIN e.rows : e.rows[p].key # objs[x].key
    <3> SUFFICES ASSUME decl.unique, NEW p \in DOMAIN e.rows PROVE e.rows[p].key # objs[x].key
      OBVIOUS
    <3>1. CASE p \in DOMAIN rows
      BY <1>2, <1>8, <1>15, <2>1, <3>1 DEF Storable
    <3>2. CASE p \notin DOMAIN rows
      <4>1. PICK i \in DOMAIN s.os : e.ids[i] = p
        BY <1>8, <3>2
      <4> QED BY <1>2, <1>8, <1>9, <2>2, <4>1 DEF Storable
    <3> QED BY <3>1, <3>2
  <2> QED BY <1>2, <1>15, <2>1, <2>3, <2>4 DEF Storable
<1>16. Storable(M, r.objs, e.rows)
  BY <1>13, <1>14, <1>15, <1>19 DEF Storable
<1> QED BY <1>4, <1>6, <1>16, <1>21 DEF Leaves, ChosenNext

\* get_or_create and update_or_create insert only when no row has the key.
LEMMA LeavesGet ==
  ASSUME NEW T, NEW U, NEW t, NEW e, NEW pick, NEW r, NEW js, Answering(T, U, t, e, pick, r, js),
         job[t].stmt.kind = "find", job[t].op \in Finders
  PROVE  Leaves(e, r)
<1> DEFINE n == Len(objs)
           it == Save(n + 1, Columns)
<1>1. ObjsOK(objs) /\ objs \in Seq(Instance) /\ n \in Nat
  BY AnsweringIs
<1>2. PICK rec \in Lookups : Got(r, e, rec)
  BY TakenGet
<1>3. rec \in Record /\ rec.id = None /\ None # OwnId
  BY PersistenceAssumption
<1>4. PICK b \in Instance :
        /\ r.objs = Append(objs, b)
        /\ \/ /\ b = New(rec) /\ \A p \in DOMAIN e.rows : e.rows[p].key # rec.key
              /\ r.todo = <<it>> /\ r.results = <<Result(n + 1, TRUE)>>
           \/ /\ r.results = <<Result(n + 1, FALSE)>>
              /\ \E p \in DOMAIN e.rows : FromRow(b, p, e.rows[p])
              /\ r.todo \in {<<>>, <<it>>}
  BY <1>2 DEF Got
<1> HIDE DEF n, it
<1>5. r.objs[n + 1] = b
  BY <1>1, <1>4, AppendOne DEF n
<1>6. Made(r) = {n + 1}
  <2>1. PICK c : r.results = <<Result(n + 1, c)>>
    BY <1>4
  <2> QED BY <2>1 DEF Made, ToSet, Result
<1>7. IF b.in_db THEN b.id \in DOMAIN e.rows /\ e.rows[b.id].key = b.key
      ELSE b.id = None /\ \A p \in DOMAIN e.rows : e.rows[p].key # b.key
  <2>1. ~New(rec).in_db /\ New(rec).id = None /\ New(rec).key = rec.key
    BY <1>3, NewOK
  <2> QED BY <1>4, <2>1 DEF FromRow
<1>8. Storable(Made(r), r.objs, e.rows)
  BY <1>3, <1>5, <1>6, <1>7 DEF Storable
<1>9. NextFor(r.todo, Made(r))
  <2>1. it.do = "save" /\ Touches(it) = {n + 1}
    BY DEF it, Save, Touches
  <2>2. r.todo = <<>> \/ r.todo = <<it>>
    BY <1>4
  <2> QED BY <1>6, <2>1, <2>2 DEF NextFor
<1>10. Chosen(Made(r), r.objs) = {}
  BY <1>3, <1>5, <1>6, <1>7 DEF Chosen
<1> QED BY <1>8, <1>9, <1>10 DEF Leaves, ChosenNext

\* The instance of one record of a batch: inserted it meets nothing, found it is its row.
LEMMA ForStorable ==
  ASSUME NEW e, NEW keys, NEW pick, pick \in Picks(e, keys), NEW rec \in Record, rec.key \in keys,
         rec.id = OwnId => OwnId \notin DOMAIN e.rows,
         NEW made \in BOOLEAN, NEW b, For(b, rec, made, e, pick)
  PROVE  /\ b.key = rec.key
         /\ IF b.in_db THEN b.id \in DOMAIN e.rows /\ e.rows[b.id].key = b.key
            ELSE /\ b.id = rec.id /\ b.id \in {None, OwnId} /\ (b.id = OwnId => OwnId \notin DOMAIN e.rows)
                 /\ \A p \in DOMAIN e.rows : e.rows[p].key # b.key
<1>1. CASE made
  <2>1. b = New(rec) /\ rec.key \notin DOMAIN pick
    BY <1>1 DEF For
  <2>2. ~b.in_db /\ b.id = rec.id /\ b.id \in {None, OwnId} /\ b.key = rec.key
    BY <2>1, NewOK
  <2>3. DOMAIN pick = {k \in keys : Matching(e, k) # {}}
    BY DEF Picks
  <2>4. \A p \in DOMAIN e.rows : e.rows[p].key # rec.key
    BY <2>1, <2>3 DEF Matching
  <2> QED BY <2>2, <2>4
<1>2. CASE ~made
  <2>1. rec.key \in DOMAIN pick /\ FromRow(b, pick[rec.key], e.rows[pick[rec.key]])
    BY <1>2 DEF For
  <2>2. pick[rec.key] \in DOMAIN e.rows /\ e.rows[pick[rec.key]].key = rec.key
    BY <2>1 DEF Picks
  <2> QED BY <2>1, <2>2 DEF FromRow
<1> QED BY <1>1, <1>2

\* A bulk call inserts only what it found no row for, one instance per key.
LEMMA LeavesBulk ==
  ASSUME NEW T, NEW U, NEW t, NEW e, NEW pick, NEW r, NEW js, Answering(T, U, t, e, pick, r, js),
         Promised(job[t], objs, rows), Alone(job[t]), job[t].stmt.kind = "find", job[t].op \in Bulks,
         pick \in Picks(e, job[t].stmt.keys)
  PROVE  Leaves(e, r)
<1> DEFINE n == Len(objs)
           keys == job[t].stmt.keys
<1>1. /\ JobOK(job[t], n) /\ n \in Nat /\ Executed(T, U, e, job[t].stmt)
  BY AnsweringIs
<1>2. LooksFor(keys, job[t].records, rows)
  BY DEF Promised, Alone
<1>3. e.rows = rows
  <2>1. job[t].stmt.kind \in Kinds
    BY DEF Kinds
  <2> QED BY <1>1, <2>1, ExecuteKinds DEF Executed, Unchanged
<1>4. BulkTaken(e, t, pick, r)
  <2>1. PickOK(e, pick)
    BY DEF Picks, PickOK
  <2> QED BY <2>1, TakenBulk
<1>5. PICK a \in Record, b \in Record :
        /\ job[t].records = <<a, b>> /\ r.objs \in Seq(Instance)
        /\ Answered(r, a, b, e, pick) /\ Plan(r.todo, r.objs, n) /\ ChosenFirst(r.todo, r.objs, n)
  BY <1>4 DEF BulkTaken
<1>6. /\ a.id = None /\ a.key \in keys /\ b.key \in keys
      /\ b.id = OwnId => OwnId \notin DOMAIN e.rows
      /\ None # OwnId
  <2>1. job[t].records[1] = a /\ job[t].records[2] = b
    BY <1>5
  <2>2. job[t].records[1].id = None
    <3>1. job[t].op \notin Finders /\ Finding(job[t].op, job[t].records)
      BY <1>1 DEF JobOK, Finders, Bulks
    <3> QED BY <3>1 DEF Finding
  <2> QED BY <1>2, <1>3, <2>1, <2>2, PersistenceAssumption DEF LooksFor
<1> HIDE DEF n, keys
<1>7. PICK made \in BOOLEAN, more \in BOOLEAN :
        /\ For(r.objs[n + 1], a, made, e, pick)
        /\ \/ Len(r.objs) = n + 1 /\ r.results = <<Result(n + 1, made), Result(n + 1, FALSE)>>
           \/ /\ a.key # b.key /\ Len(r.objs) = n + 2 /\ For(r.objs[n + 2], b, more, e, pick)
              /\ r.results = <<Result(n + 1, made), Result(n + 2, more)>>
  BY <1>5 DEF Answered, n
<1> DEFINE x == r.objs[n + 1]
           y == r.objs[n + 2]
           Fine(ob) == IF ob.in_db THEN ob.id \in DOMAIN e.rows /\ e.rows[ob.id].key = ob.key
                       ELSE /\ ob.id \in {None, OwnId} /\ (ob.id = OwnId => OwnId \notin DOMAIN e.rows)
                            /\ \A p \in DOMAIN e.rows : e.rows[p].key # ob.key
<1>8. x.key = a.key /\ Fine(x) /\ (~x.in_db => x.id = None)
  <2>1. pick \in Picks(e, keys) /\ (a.id = OwnId => OwnId \notin DOMAIN e.rows)
    BY <1>6 DEF keys
  <2> HIDE DEF x
  <2>2. For(x, a, made, e, pick)
    BY <1>7 DEF x
  <2>3. /\ x.key = a.key
        /\ IF x.in_db THEN x.id \in DOMAIN e.rows /\ e.rows[x.id].key = x.key
            ELSE /\ x.id = a.id /\ x.id \in {None, OwnId} /\ (x.id = OwnId => OwnId \notin DOMAIN e.rows)
                 /\ \A p \in DOMAIN e.rows : e.rows[p].key # x.key
    BY <1>6, <2>1, <2>2, ForStorable
  <2> QED BY <1>6, <2>3
<1>9. ASSUME a.key # b.key, For(r.objs[n + 2], b, more, e, pick)
      PROVE  y.key = b.key /\ Fine(y) /\ ~(x.id = OwnId /\ y.id = OwnId)
  <2>1. pick \in Picks(e, keys)
    BY DEF keys
  <2> HIDE DEF y, x
  <2>2. For(y, b, more, e, pick)
    BY <1>9 DEF y
  <2>3. /\ y.key = b.key
        /\ IF y.in_db THEN y.id \in DOMAIN e.rows /\ e.rows[y.id].key = y.key
            ELSE /\ y.id = b.id /\ y.id \in {None, OwnId} /\ (y.id = OwnId => OwnId \notin DOMAIN e.rows)
                 /\ \A p \in DOMAIN e.rows : e.rows[p].key # y.key
    BY <1>6, <2>1, <2>2, ForStorable
  <2>4. ~(x.id = OwnId /\ y.id = OwnId)
    <3> SUFFICES ASSUME x.id = OwnId, y.id = OwnId PROVE FALSE
      OBVIOUS
    <3>1. x.in_db /\ OwnId \in DOMAIN e.rows /\ e.rows[OwnId].key = a.key
      BY <1>6, <1>8
    <3>2. y.in_db /\ e.rows[OwnId].key = b.key
      BY <2>3, <3>1
    <3> QED BY <1>9, <3>1, <3>2
  <2> QED BY <2>3, <2>4
<1>10. n \in Nat /\ n + 1 # n + 2
  BY <1>1 DEF n
<1> HIDE DEF Fine
<1>11. ASSUME Len(r.objs) = n + 1, r.results = <<Result(n + 1, made), Result(n + 1, FALSE)>>
       PROVE  Storable(Made(r), r.objs, e.rows) /\ Made(r) = (n + 1) .. Len(r.objs)
  <2>1. Made(r) = {n + 1}
    BY <1>11 DEF Made, ToSet, Result
  <2>2. Storable(Made(r), r.objs, e.rows)
    <3>1. \A m \in Made(r) : r.objs[m] = x /\ \A k \in Made(r) : k = m
      BY <2>1 DEF x
    <3> HIDE DEF x, y
    <3>2. \A m, k \in Made(r) : m = k
      BY <3>1
    <3>3. \A m \in Made(r) : Fine(r.objs[m])
      BY <1>8, <3>1
    <3> QED BY <3>2, <3>3 DEF Storable, Fine
  <2>3. Made(r) = (n + 1) .. Len(r.objs)
    BY <1>10, <1>11, <2>1
  <2> QED BY <2>2, <2>3
<1>12. ASSUME a.key # b.key, Len(r.objs) = n + 2, For(r.objs[n + 2], b, more, e, pick),
              r.results = <<Result(n + 1, made), Result(n + 2, more)>>
       PROVE  Storable(Made(r), r.objs, e.rows) /\ Made(r) = (n + 1) .. Len(r.objs)
  <2>1. Made(r) = {n + 1, n + 2}
    <3>1. ToSet(r.results) = {Result(n + 1, made), Result(n + 2, more)}
      BY <1>12 DEF ToSet
    <3> QED BY <3>1 DEF Made, Result
  <2>2. y.key = b.key /\ Fine(y) /\ ~(x.id = OwnId /\ y.id = OwnId) /\ x.key # y.key
    BY <1>8, <1>9, <1>12
  <2>3. Storable(Made(r), r.objs, e.rows)
    <3>1. \A m \in Made(r) : Fine(r.objs[m])
      BY <1>8, <2>1, <2>2
    <3>2. \A m, k \in Made(r) : m # k => r.objs[m].key # r.objs[k].key /\ ~(r.objs[m].id = OwnId /\ r.objs[k].id = OwnId)
      <4> SUFFICES ASSUME NEW m \in Made(r), NEW k \in Made(r), m # k
                   PROVE  r.objs[m].key # r.objs[k].key /\ ~(r.objs[m].id = OwnId /\ r.objs[k].id = OwnId)
        OBVIOUS
      <4>1. (m = n + 1 /\ k = n + 2) \/ (m = n + 2 /\ k = n + 1)
        BY <2>1
      <4> QED BY <2>2, <4>1
    <3> HIDE DEF x, y
    <3> QED BY <3>1, <3>2 DEF Storable, Fine
  <2>4. Made(r) = (n + 1) .. Len(r.objs)
    BY <1>10, <1>12, <2>1
  <2> QED BY <2>3, <2>4
<1>13. Storable(Made(r), r.objs, e.rows) /\ Made(r) = (n + 1) .. Len(r.objs)
  BY <1>7, <1>11, <1>12
<1>14. NextFor(r.todo, Made(r))
  <2> SUFFICES ASSUME r.todo # <<>>
               PROVE  Head(r.todo).do \in {"insert", "update", "save", "defaults"} /\ Touches(Head(r.todo)) \subseteq Made(r)
    BY DEF NextFor
  <2>1. r.todo \in Seq(Items)
    BY <1>5 DEF Plan
  <2>2. 1 \in DOMAIN r.todo /\ Head(r.todo) = r.todo[1]
    BY <2>1
  <2>3. Work(r.todo[1], r.objs, n)
    BY <1>5, <2>2 DEF Plan
  <2>4. r.todo[1].do \in {"insert", "update"}
    BY <2>3 DEF Work, Items
  <2>5. ToSet(r.todo[1].os) \subseteq Made(r)
    <3>1. \A o \in ToSet(r.todo[1].os) : o \in 1 .. Len(r.objs) /\ n < o
      BY <2>3 DEF Work, BatchOK, ToSet
    <3>2. Len(r.objs) \in Nat
      BY <1>5
    <3> QED BY <1>10, <1>13, <3>1, <3>2
  <2> QED BY <2>2, <2>4, <2>5 DEF Touches
<1>15. \A o \in Made(r) : o # n + 2 => r.objs[o].in_db \/ r.objs[o].id = None
  <2> SUFFICES ASSUME NEW o \in Made(r), o # n + 2 PROVE r.objs[o].in_db \/ r.objs[o].id = None
    OBVIOUS
  <2>1. o = n + 1
    <3>1. o \in (n + 1) .. Len(r.objs) /\ Len(r.objs) \in {n + 1, n + 2}
      BY <1>7, <1>13
    <3> QED BY <1>10, <3>1
  <2> QED BY <1>8, <2>1
<1>16. DOMAIN r.objs = 1 .. Len(r.objs) /\ Len(r.objs) \in Nat
  BY <1>5
<1>17. ChosenNext(r.todo, Chosen(Made(r), r.objs))
  <2> SUFFICES ASSUME NEW o \in Chosen(Made(r), r.objs)
               PROVE  r.todo # <<>> /\ Head(r.todo).do = "insert" /\ ToSet(Head(r.todo).os) = Chosen(Made(r), r.objs)
    BY DEF ChosenNext
  <2>1. \A z \in Chosen(Made(r), r.objs) : z = n + 2 /\ z \in Made(r) /\ ~r.objs[z].in_db /\ r.objs[z].id # None
    BY <1>6, <1>15 DEF Chosen
  <2>2. o = n + 2 /\ o \in Made(r) /\ ~r.objs[o].in_db /\ r.objs[o].id # None /\ Chosen(Made(r), r.objs) = {o}
    BY <2>1
  <2>3. o \in DOMAIN r.objs /\ n < o /\ \A z \in DOMAIN r.objs : n < z => z \in Made(r)
    BY <1>10, <1>13, <1>16, <2>2
  <2>4. r.todo # <<>> /\ r.todo[1] = Insert(<<o>>)
    BY <1>5, <1>15, <2>2, <2>3 DEF ChosenFirst
  <2>5. r.todo \in Seq(Items)
    BY <1>5 DEF Plan
  <2>6. Head(r.todo) = Insert(<<o>>)
    BY <2>4, <2>5
  <2>7. Insert(<<o>>).do = "insert" /\ ToSet(Insert(<<o>>).os) = {o}
    BY DEF Insert, ToSet
  <2> QED BY <2>2, <2>4, <2>6, <2>7
<1> QED BY <1>13, <1>14, <1>17 DEF Leaves

\* Whatever the statement, the call can go on.
LEMMA LeavesOK ==
  ASSUME NEW T, NEW U, NEW t \in Tasks, NEW e, NEW pick, NEW r, NEW js, Proceeds(T, U, t, e, pick, r, js),
         Promised(job[t], objs, rows), Alone(job[t])
  PROVE  Leaves(e, r)
<1>1. Answering(T, U, t, e, pick, r, js) /\ (job[t].stmt.kind = "find" => pick \in Picks(e, job[t].stmt.keys))
  BY DEF Proceeds
<1>2. job[t].stmt.kind \in Sent /\ job[t].op \in Finders \cup Bulks
  BY DEF Promised, Alone, Promising, Finders, Bulks
<1>3. CASE job[t].stmt.kind = "insert"
  BY <1>1, <1>3, LeavesInsert
<1>4. CASE job[t].stmt.kind \in {"update", "defaults"}
  BY <1>1, <1>4, LeavesPlain
<1>5. CASE job[t].stmt.kind = "find" /\ job[t].op \in Finders
  BY <1>1, <1>5, LeavesGet
<1>6. CASE job[t].stmt.kind = "find" /\ job[t].op \in Bulks
  BY <1>1, <1>6, LeavesBulk
<1> QED BY <1>2, <1>3, <1>4, <1>5, <1>6 DEF Sent

-----------------------------------------------------------------------------
(* The next statement of a promising call. *)

\* The next item is bound to a statement that writes, or reads the defaults.
LEMMA BindSent ==
  ASSUME NEW it, it.do \in {"insert", "update", "save", "defaults"}, NEW os, NEW now
  PROVE  Bind(it, os, now).stmt.kind \in Sent \ {"find"}
<1>1. CASE it.do = "save"
  <2>1. Bind(it, os, now) = BindSave(os, it.o, it.cols, now)
    BY <1>1 DEF Bind
  <2>2. BindSave(os, it.o, it.cols, now).stmt.kind \in {"insert", "update"}
    BY DEF BindSave
  <2> QED BY <2>1, <2>2 DEF Sent
<1>2. CASE it.do = "insert"
  <2>1. Bind(it, os, now) = BindInsert(os, it.os, now)
    BY <1>2 DEF Bind
  <2>2. BindInsert(os, it.os, now).stmt.kind = "insert"
    BY DEF BindInsert
  <2> QED BY <2>1, <2>2 DEF Sent
<1>3. CASE it.do = "update"
  <2>1. Bind(it, os, now) = BindUpdate(os, it.os, it.cols, now)
    BY <1>3 DEF Bind
  <2>2. BindUpdate(os, it.os, it.cols, now).stmt.kind = "update"
    BY DEF BindUpdate
  <2> QED BY <2>1, <2>2 DEF Sent
<1>4. CASE it.do = "defaults"
  <2>1. Bind(it, os, now).stmt.kind = "defaults"
    BY <1>4 DEF Bind
  <2> QED BY <2>1 DEF Sent
<1> QED BY <1>1, <1>2, <1>3, <1>4

\* A stamp identifies nothing.
LEMMA StampedSteps ==
  ASSUME NEW a, NEW b, Stamped(a, b)
  PROVE  Steps(a, b)
  BY DEF Stamped, Steps

\* A statement bound for storable instances is one the call can rely on.
LEMMA BoundPromised ==
  ASSUME NEW it, NEW os, NEW b, Bound(b, it, os), b.stmt.kind \in Sent \ {"find"}, NEW rs,
         NEW j, j.stmt = b.stmt, Touches(it) \subseteq Made(j), Made(j) \subseteq DOMAIN os, Storable(Made(j), os, rs),
         Chosen(Made(j), os) # {} => b.stmt.kind = "insert" /\ Touches(it) = Chosen(Made(j), os)
  PROVE  Promised(j, b.objs, rs)
<1> DEFINE M == Made(j)
           s == b.stmt
<1>1. /\ UsedBy(s) = Touches(it) /\ Agrees(s, b.objs, {}) /\ \A x \in DOMAIN os : Stamped(os[x], b.objs[x])
  BY DEF Bound
<1>2. Storable(M, b.objs, rs)
  <2>1. \A x \in M : Steps(os[x], b.objs[x])
    BY <1>1, StampedSteps
  <2>2. Storable(M, os, rs)
    OBVIOUS
  <2> HIDE DEF M
  <2> QED BY <2>1, <2>2, StorableStays
<1>3. KeepsKeys(s, rs)
  <2> SUFFICES ASSUME s.kind = "update", NEW i \in DOMAIN s.os, "key" \in DOMAIN s.values[i], s.ids[i] \in DOMAIN rs
               PROVE  s.values[i]["key"] = rs[s.ids[i]].key
    BY DEF KeepsKeys
  <2>1. Fits(s, i, b.objs[s.os[i]])
    BY <1>1 DEF Agrees, Writing
  <2>2. s.os[i] \in M
    BY <1>1 DEF UsedBy, ToSet
  <2>3. b.objs[s.os[i]].in_db /\ s.ids[i] = b.objs[s.os[i]].id /\ s.values[i]["key"] = b.objs[s.os[i]].key
    BY <2>1 DEF Fits, Shows
  <2> HIDE DEF M, s
  <2> QED BY <1>2, <2>2, <2>3 DEF Storable
<1>4. Chosen(M, b.objs) = Chosen(M, os)
  <2>1. \A x \in M : Steps(os[x], b.objs[x])
    BY <1>1, StampedSteps
  <2> HIDE DEF M
  <2> QED BY <2>1, ChosenStays
<1> QED BY <1>1, <1>2, <1>3, <1>4 DEF Promised

-----------------------------------------------------------------------------
(* Every step keeps the promises. *)

\* The fields of a call that goes on.
LEMMA TurningIs ==
  ASSUME NEW j, NEW n, JobOK(j, n), NEW rest, NEW s, NEW results, NEW k, k = Turning(j, rest, s, results)
  PROVE  k.op = j.op /\ k.alone = j.alone /\ k.stmt = s /\ k.results = results
<1>1. Shaped(j)
  BY DEF JobOK, Shaped
<1> QED BY <1>1 DEF Shaped, Turning

\* A call that is not alone, or did not look first, promises nothing.
LEMMA Unpromised ==
  ASSUME NEW j, ~Alone(j)
  PROVE  \A os, rs : Promised(j, os, rs)
  BY DEF Promised, Alone

\* Nor does one that is over.
LEMMA IdleUnpromised == ~Alone(Idle)
  BY DEF Alone, Idle, Promising

\* A call that is not taking a step, while rows may change for others.
LEMMA WitnessPromised ==
  ASSUME NEW t \in Tasks, NEW u \in Tasks \ {t}, NEW rs, NEW js, js = Witnessed(job, t, rs # rows),
         Promised(job[u], objs, rows), NEW os, \A x \in Made(job[u]) : Steps(objs[x], os[x]),
         NEW n, JobOK(job[u], n)
  PROVE  Promised(js[u], os, rs)
<1>1. CASE rs # rows /\ job[u].op \in Promising
  <2>1. js[u] = [job[u] EXCEPT !.alone = FALSE]
    BY <1>1 DEF Witnessed
  <2>2. "alone" \in DOMAIN job[u]
    BY DEF JobOK
  <2>3. js[u].alone = FALSE
    BY <2>1, <2>2
  <2> QED BY <2>3, Unpromised DEF Alone
<1>2. CASE ~(rs # rows /\ job[u].op \in Promising)
  <2>1. js[u] = job[u]
    BY <1>2 DEF Witnessed
  <2>2. CASE job[u].op \in Promising
    BY <1>2, <2>1, <2>2, PromisedStays
  <2>3. CASE job[u].op \notin Promising
    BY <2>1, <2>3, Unpromised DEF Alone
  <2> QED BY <2>2, <2>3
<1> QED BY <1>1, <1>2

\* An answer taken in keeps the promises of every call.
LEMMA ProceedPromises ==
  ASSUME Inv, AllPromised(job, objs, rows), NEW t \in Tasks, Proceed(t)
  PROVE  AllPromised(job', objs', rows')
<1> DEFINE j == job[t]
<1>1. PICK T, U, e, pick, r, js : Proceeds(T, U, t, e, pick, r, js)
  BY ProceedIs
<1>2. /\ \A u \in Tasks \ {t} : job'[u] = js[u]
      /\ Takes(t, j, r.objs, r.todo, r.results)
      /\ World(U, e.rows, e.serial, objs', job', spoilt, lost, {}) /\ Len(objs') = Len(r.objs)
  BY <1>1, ProceedsNext
<1>3. /\ World(T, rows, serial, objs, job, spoilt, lost, {}) /\ rows' = e.rows
      /\ js = Witnessed(job, t, e.rows # rows)
  BY <1>1 DEF Proceeds, Answering
<1>4. PICK rd : Moved(U, e, t, r.objs, rd)
  BY <1>1, ProceedsGoes DEF Shifted
<1>5. \A u \in Tasks : JobOK(job[u], Len(objs)) /\ Promised(job[u], objs, rows) /\ Made(job[u]) \subseteq 1 .. Len(objs)
  BY <1>3, OthersOld DEF World, AllPromised
<1>6. DOMAIN objs = 1 .. Len(objs) /\ DOMAIN r.objs = 1 .. Len(r.objs) /\ DOMAIN objs \subseteq DOMAIN r.objs
      /\ Len(objs) \in Nat /\ Len(r.objs) \in Nat /\ \A x \in DOMAIN objs : x \notin UsedBy(j.stmt) => Same(objs[x], r.objs[x])
  BY <1>3, <1>4 DEF World, Base, ObjsOK, Moved
<1> HIDE DEF j
<1>7. \A x \in DOMAIN r.objs : Steps(r.objs[x], objs'[x])
  <2>1. CASE r.todo = <<>>
    BY <1>2, <2>1 DEF Takes, Steps
  <2>2. CASE r.todo # <<>>
    <3>1. PICK b : Bound(b, Head(r.todo), r.objs) /\ objs' = b.objs
      BY <1>2, <2>2 DEF Takes
    <3>2. \A x \in DOMAIN r.objs : Stamped(r.objs[x], b.objs[x])
      BY <3>1 DEF Bound
    <3> QED BY <3>1, <3>2, StampedSteps
  <2> QED BY <2>1, <2>2
<1>8. ASSUME NEW u \in Tasks \ {t} PROVE Promised(job'[u], objs', rows')
  <2>1. Made(job[u]) \cap UsedBy(j.stmt) = {}
    <3>1. Apart(job[u], job[t], spoilt)
      BY <1>3 DEF World
    <3> QED BY <3>1 DEF Apart, Busied, j
  <2>2. \A x \in Made(job[u]) : Steps(objs[x], objs'[x])
    BY <1>5, <1>6, <1>7, <2>1 DEF Steps, Same
  <2>3. job'[u] = js[u] /\ rows' = e.rows /\ Promised(job[u], objs, rows) /\ JobOK(job[u], Len(objs))
    BY <1>2, <1>3, <1>5
  <2>4. Promised(js[u], objs', e.rows)
    BY <1>3, <2>2, <2>3, WitnessPromised
  <2> QED BY <2>3, <2>4
<1>9. Promised(job'[t], objs', rows')
  <2>1. CASE r.todo = <<>>
    <3>1. job'[t] = Idle
      BY <1>2, <2>1 DEF Takes
    <3> QED BY <3>1, IdleUnpromised, Unpromised
  <2>2. CASE r.todo # <<>>
    <3> DEFINE it == Head(r.todo)
    <3>1. PICK b : /\ b = Bind(it, r.objs, j.now) /\ Bound(b, it, r.objs) /\ objs' = b.objs
                   /\ job'[t] = Turning(j, Tail(r.todo), b.stmt, r.results)
      BY <1>2, <2>2 DEF Takes
    <3>2. job'[t].op = j.op /\ job'[t].alone = j.alone /\ job'[t].stmt = b.stmt /\ job'[t].results = r.results
      BY <1>5, <3>1, TurningIs DEF j
    <3>3. CASE ~Alone(j)
      BY <3>2, <3>3, Unpromised DEF Alone
    <3>4. CASE Alone(j)
      <4>1. Leaves(e, r)
        BY <1>1, <1>5, <3>4, LeavesOK DEF j
      <4>2. Made(job'[t]) = Made(r)
        BY <3>2 DEF Made
      <4>3. it.do \in {"insert", "update", "save", "defaults"} /\ Touches(it) \subseteq Made(job'[t])
            /\ Storable(Made(job'[t]), r.objs, e.rows)
        <5> HIDE DEF it
        <5> QED BY <2>2, <4>1, <4>2 DEF Leaves, NextFor, it
      <4>4. Made(job'[t]) \subseteq DOMAIN r.objs
        <5>1. JobOK(job'[t], Len(objs'))
          BY <1>2 DEF World
        <5> DEFINE w == job'[t]
        <5>2. \A i \in DOMAIN w.results : w.results[i].o \in 1 .. Len(objs')
          BY <5>1 DEF JobOK
        <5> QED BY <1>2, <1>6, <5>2 DEF Made, ToSet
      <4>5. b.stmt.kind \in Sent \ {"find"}
        <5> HIDE DEF it
        <5> QED BY <3>1, <4>3, BindSent
      <4>7. Chosen(Made(job'[t]), r.objs) # {} => b.stmt.kind = "insert" /\ Touches(it) = Chosen(Made(job'[t]), r.objs)
        <5> HAVE Chosen(Made(job'[t]), r.objs) # {}
        <5>1. it.do = "insert" /\ ToSet(it.os) = Chosen(Made(job'[t]), r.objs)
          BY <4>1, <4>2 DEF Leaves, ChosenNext
        <5> HIDE DEF it
        <5>2. Bind(it, r.objs, j.now) = BindInsert(r.objs, it.os, j.now)
          BY <5>1 DEF Bind
        <5> QED BY <3>1, <5>1, <5>2 DEF BindInsert, Touches
      <4>6. Promised(job'[t], b.objs, e.rows)
        <5> HIDE DEF it
        <5> QED BY <3>1, <3>2, <4>3, <4>4, <4>5, <4>7, BoundPromised
      <4> QED BY <1>3, <3>1, <4>6
    <3> QED BY <3>3, <3>4
  <2> QED BY <2>1, <2>2
<1> QED BY <1>8, <1>9 DEF AllPromised

\* A step that leaves the rows alone and keeps what identifies the instances others use.
LEMMA OthersPromised ==
  ASSUME AllPromised(job, objs, rows), NEW t, NEW os, \A u \in Tasks \ {t} : \A x \in Made(job[u]) : Steps(objs[x], os[x])
  PROVE  \A u \in Tasks \ {t} : Promised(job[u], os, rows)
  BY PromisedStays DEF AllPromised

\* The find a call begins with makes nothing and changes nothing.
LEMMA FindPromised ==
  ASSUME NEW j, j.results = <<>>, NEW it, j.stmt = [kind |-> "find", os |-> <<>>, keys |-> it.keys],
         NEW rs, j.op \in Bulks => LooksFor(it.keys, j.records, rs), NEW os
  PROVE  Promised(j, os, rs)
<1>1. Made(j) = {} /\ UsedBy(j.stmt) = {}
  BY DEF Made, UsedBy, ToSet
<1>2. Storable(Made(j), os, rs)
  BY <1>1 DEF Storable
<1>3. KeepsKeys(j.stmt, rs)
  BY DEF KeepsKeys
<1>4. Chosen(Made(j), os) = {}
  BY <1>1 DEF Chosen
<1> QED BY <1>1, <1>2, <1>3, <1>4 DEF Promised, Sent

\* The declarations stay, so promises of the next state are those about its values.
LEMMA PromisesNext ==
  ASSUME decl' = decl, \A u \in Tasks : Promised(job'[u], objs', rows'), refused' = {}
  PROVE  Promises'
  BY DEF Promises, AllPromised, Promised, Storable, Chosen

\* A call that starts keeps the promises.
LEMMA CallPromises ==
  ASSUME Inv, Promises, NEW t \in Tasks, Call(t)
  PROVE  Promises'
<1>1. PICK T : World(T, rows, serial, objs, job, spoilt, lost, {})
  BY DEF Inv
<1>2. job[t] = Idle /\ calls < MaxCalls
  BY DEF Call
<1>3. PICK op, used, os, it, records, results :
        /\ Begin(t, op, used, os, <<it>>, records, results) /\ Changed(os, {})
        /\ FirstItem(it, used, os, op, records, results) /\ Looks(op, it, records, results)
  BY CallStarts DEF Starts
<1> DEFINE c == calls + 1
           j == [Idle EXCEPT !.op = op, !.now = c, !.records = records]
           b == Bind(it, os, c)
           k == Turning(j, <<>>, b.stmt, results)
<1>4. /\ used \subseteq Usable /\ Continue(job, t, j, os, <<it>>, results)
      /\ rows' = rows /\ refused' = {} /\ decl' = decl
  BY <1>3 DEF Begin, Promises
<1>5. /\ c \in Stamps /\ decl \in Declarations /\ ObjsOK(os) /\ ObjsOK(objs) /\ Len(objs) <= Len(os)
      /\ DOMAIN job = Tasks
  <2>1. calls \in Stamps
    BY DEF Inv
  <2>2. c \in Stamps
    BY <1>2, <2>1, PersistenceAssumption DEF Stamps
  <2> QED BY <1>1, <1>3, <2>2 DEF World, Base, Changed
<1>6. j = Started(op, c, records)
  BY DEF Started
<1>7. j.now = c /\ j.op = op /\ j.records = records /\ Shaped(j)
  <2> HIDE DEF j, c
  <2>1. Begins(j, op, c, records)
    BY <1>6, StartedIs
  <2> QED BY <2>1 DEF Begins
<1>8. objs' = b.objs /\ job' = [job EXCEPT ![t] = k]
  <2>1. <<it>> # <<>> /\ Tail(<<it>>) = <<>> /\ Head(<<it>>) = it
    OBVIOUS
  <2> HIDE DEF j, c
  <2> QED BY <1>4, <1>7, <2>1 DEF Continue, Turning
<1> HIDE DEF j
<1>9. Bound(b, it, os)
  <2> HIDE DEF c
  <2> QED BY <1>3, <1>5, BindOK DEF FirstItem
<1>10. job'[t] = k /\ (\A u \in Tasks \ {t} : job'[u] = job[u])
       /\ k.op = op /\ k.records = records /\ k.results = results /\ k.stmt = b.stmt
  <2> HIDE DEF b
  <2> QED BY <1>5, <1>7, <1>8 DEF Turning, Shaped
<1>11. \A u \in Tasks \ {t} : Promised(job[u], objs', rows)
  <2> SUFFICES ASSUME NEW u \in Tasks \ {t}, NEW x \in Made(job[u]) PROVE Steps(objs[x], objs'[x])
    BY OthersPromised DEF Promises
  <2>1. x \in 1 .. Len(objs) /\ x \notin used
    BY <1>1, <1>4, OthersOld DEF Usable, Private, Made
  <2>2. x \in DOMAIN objs /\ x \in DOMAIN os
    BY <1>5, <2>1 DEF ObjsOK
  <2>3. Lasts(objs[x], os[x]) /\ Stamped(os[x], b.objs[x])
    BY <1>3, <1>9, <2>2 DEF Changed, Bound
  <2> HIDE DEF b
  <2> QED BY <1>8, <2>3 DEF Lasts, Stamped, Steps
<1>12. Promised(k, objs', rows)
  <2>1. CASE op \in Promising
    <3>1. it.do = "find" /\ results = <<>> /\ (op \in Bulks => LooksFor(it.keys, records, rows))
      BY <1>3, <2>1 DEF Looks
    <3>2. b.stmt = [kind |-> "find", os |-> <<>>, keys |-> it.keys]
      BY <3>1 DEF Bind
    <3> HIDE DEF k, b
    <3> QED BY <1>10, <3>1, <3>2, FindPromised
  <2>2. CASE op \notin Promising
    <3> HIDE DEF k
    <3> QED BY <1>10, <2>2, Unpromised DEF Alone
  <2> QED BY <2>1, <2>2
<1> HIDE DEF k
<1> QED BY <1>4, <1>10, <1>11, <1>12, PromisesNext

\* So does an attribute written.
LEMMA WritePromises ==
  ASSUME Inv, Promises, NEW o \in Usable, NEW ob, NEW col, Write(o, ob, col)
  PROVE  Promises'
<1>1. objs' = [objs EXCEPT ![o] = ob] /\ job' = job /\ rows' = rows /\ refused' = {} /\ decl' = decl
  BY DEF Write, Promises
<1>2. ASSUME NEW u \in Tasks PROVE Promised(job[u], objs', rows)
  <2>1. \A x \in Made(job[u]) : Steps(objs[x], objs'[x])
    BY <1>1 DEF Usable, Private, Made, Steps
  <2>2. Promised(job[u], objs, rows)
    BY DEF Promises, AllPromised
  <2> QED BY <2>1, <2>2, PromisedStays
<1> QED BY <1>1, <1>2, PromisesNext

\* Whichever attribute it is.
LEMMA AttributePromises ==
  ASSUME Inv, Promises, WriteAttribute
  PROVE  Promises'
  BY WritePromises DEF WriteAttribute

\* So does a copy, which is nobody's work.
LEMMA CopyPromises ==
  ASSUME Inv, Promises, Copy
  PROVE  Promises'
<1>1. PICK T : World(T, rows, serial, objs, job, spoilt, lost, {})
  BY DEF Inv
<1>2. PICK o \in Usable : objs' = Append(objs, Clone(objs[o])) /\ job' = job /\ rows' = rows
               /\ refused' = {} /\ decl' = decl
  BY DEF Copy, Promises
<1>3. objs \in Seq(Instance) /\ Len(objs) \in Nat
  BY <1>1 DEF World, Base, ObjsOK
<1>4. \A x \in 1 .. Len(objs) : objs'[x] = objs[x]
  BY <1>2, <1>3
<1>5. ASSUME NEW u \in Tasks PROVE Promised(job[u], objs', rows)
  <2>1. Made(job[u]) \subseteq 1 .. Len(objs)
    BY <1>1, OthersOld
  <2>2. \A x \in Made(job[u]) : Steps(objs[x], objs'[x])
    BY <1>4, <2>1 DEF Steps
  <2>3. Promised(job[u], objs, rows)
    BY DEF Promises, AllPromised
  <2> QED BY <2>2, <2>3, PromisedStays
<1> QED BY <1>2, <1>5, PromisesNext

\* The statement of a promising call that nobody disturbed is not refused.
LEMMA FailPromises ==
  ASSUME Inv, Promises, NEW t \in Tasks, Fail(t)
  PROVE  Promises'
<1>1. PICK T : World(T, rows, serial, objs, job, spoilt, lost, {})
  BY DEF Inv
<1>2. /\ job' = [job EXCEPT ![t] = Idle] /\ objs' = objs /\ rows' = rows /\ decl' = decl
      /\ refused' = IF /\ ~Execute(job[t].stmt).ok /\ job[t].op \in Promising /\ job[t].alone
                       /\ ~(job[t].stmt.kind = "insert" /\ Clashes(job[t].stmt.values))
                    THEN refused \cup {job[t].op} ELSE refused
  BY DEF Fail, Raised
<1>3. DOMAIN job = Tasks /\ AllPromised(job, objs, rows) /\ refused = {}
  BY <1>1 DEF World, Promises
<1>4. refused' = {}
  BY <1>1, <1>2, <1>3, AloneAccepted DEF AllPromised
<1>5. ASSUME NEW u \in Tasks PROVE Promised(job'[u], objs, rows)
  <2>1. CASE u = t
    BY <1>2, <1>3, <2>1, IdleUnpromised, Unpromised
  <2>2. CASE u # t
    BY <1>2, <1>3, <2>2 DEF AllPromised
  <2> QED BY <2>1, <2>2
<1> QED BY <1>2, <1>4, <1>5, PromisesNext

\* A cancelled statement may have been executed: the others were not alone.
LEMMA CancelPromises ==
  ASSUME Inv, Promises, NEW t \in Tasks, Cancel(t)
  PROVE  Promises'
<1>1. PICK T : World(T, rows, serial, objs, job, spoilt, lost, {})
  BY DEF Inv
<1>2. PICK e : /\ rows' = e.rows /\ job' = [Witnessed(job, t, e.rows # rows) EXCEPT ![t] = Idle]
               /\ objs' = objs /\ refused' = {} /\ decl' = decl
  BY DEF Cancel, Promises
<1> DEFINE js == Witnessed(job, t, e.rows # rows)
<1>3. DOMAIN js = Tasks /\ refused = {}
  BY DEF Witnessed, Promises
<1>4. ASSUME NEW u \in Tasks PROVE Promised(job'[u], objs, e.rows)
  <2>1. CASE u = t
    <3> HIDE DEF js
    <3>1. job'[u] = Idle
      BY <1>2, <1>3, <2>1 DEF js
    <3> QED BY <3>1, IdleUnpromised, Unpromised
  <2>2. CASE u # t
    <3>1. job'[u] = js[u]
      BY <1>2, <2>2
    <3>2. JobOK(job[u], Len(objs)) /\ Promised(job[u], objs, rows)
      BY <1>1 DEF World, Promises, AllPromised
    <3>3. \A x \in Made(job[u]) : Steps(objs[x], objs[x])
      BY DEF Steps
    <3> HIDE DEF js
    <3>4. Promised(js[u], objs, e.rows)
      BY <2>2, <3>2, <3>3, WitnessPromised DEF js
    <3> QED BY <3>1, <3>4
  <2> QED BY <2>1, <2>2
<1> QED BY <1>2, <1>4, PromisesNext

\* Nothing has been promised yet.
LEMMA InitPromises ==
  ASSUME Init
  PROVE  Promises
<1>1. \A u \in Tasks : job[u] = Idle
  BY DEF Init
<1> QED BY <1>1, IdleUnpromised, Unpromised DEF Promises, AllPromised, Init

\* Every step keeps the promises.
LEMMA StepPromises ==
  ASSUME Inv, Promises, [Next]_vars
  PROVE  Promises'
<1>1. CASE UNCHANGED vars
  BY <1>1, PromisesNext DEF Promises, AllPromised, vars
<1>2. ASSUME NEW t \in Tasks, Proceed(t) PROVE Promises'
  <2>1. AllPromised(job', objs', rows')
    BY <1>2, ProceedPromises DEF Promises
  <2>2. refused' = {} /\ decl' = decl
    BY <1>2 DEF Proceed, Promises
  <2> QED BY <2>1, <2>2, PromisesNext DEF AllPromised
<1>3. CASE Next
  BY <1>2, <1>3, CallPromises, FailPromises, CancelPromises, AttributePromises, CopyPromises DEF Next
<1> QED BY <1>1, <1>3

\* get_or_create, update_or_create and their bulk forms are only refused by the database when
\* another task wrote while they ran (models.py:2065-2113, 2172-2311), or when a generated key
\* is one that a caller chose before; a chosen key of the batch itself is inserted first.
THEOREM AloneIsServed == Spec => []AloneNeverFails
<1>1. Init => Promises
  BY InitPromises
<1>2. Inv /\ Promises /\ [Next]_vars => Promises'
  BY StepPromises
<1>3. Promises => AloneNeverFails
  BY DEF Promises, AloneNeverFails
<1> QED BY <1>1, <1>2, <1>3, Invariant, PTL DEF Spec

-----------------------------------------------------------------------------
(* What an instance shows of its row. *)

\* The row of ob has c as ob has it, or c was never read and is marked so.
Shown(rs, ob, c) ==
  /\ ob.id \in DOMAIN rs
  /\ \/ ob[c] = rs[ob.id][c]
     \/ c = "state" /\ ob.state = None /\ ob.marks

\* The statement s writes column c of the instance o, or reads it for o.
OnWire(s, o, c) ==
  /\ o \in ToSet(s.os)
  /\ \/ s.kind = "update" /\ c \in DOMAIN s.values[1]
     \/ s.kind = "defaults" /\ c = "state"

\* A column that counts as stored is shown as it is stored, or one of the statements W is
\* at it; rd are instances the SELECT of the defaults is about to be sent for.
AtHand(rs, W, rd, ob, o, c) ==
  /\ ob.id \in DOMAIN rs
  /\ \/ Shown(rs, ob, c)
     \/ \E s \in W : OnWire(s, o, c)
     \/ c = "state" /\ o \in rd

\* Every column in cl of a stored instance is at hand; nothing is known of a spoilt one.
Recalled(cl, sp, rs, os, W, rd) ==
  \A o \in DOMAIN os :
    /\ cl[o] \subseteq Columns /\ (o \in sp => cl[o] = {})
    /\ os[o].in_db => \A c \in cl[o] : AtHand(rs, W, rd, os[o], o, c)

\* The statements that are on the wire, and those of the others.
Wire(js) == {js[u].stmt : u \in Tasks}
WireBut(js, t) == {js[u].stmt : u \in Tasks \ {t}}

\* An UPDATE writes the same columns of every row, and no row twice.
EachOnce(s) ==
  s.kind = "update" =>
    \A i, k \in DOMAIN s.os : DOMAIN s.values[i] = DOMAIN s.values[k] /\ (i # k => s.ids[i] # s.ids[k])

\* An UPDATE to come is of different rows.
Distinct(it, os) ==
  it.do = "update" => \A x, y \in ToSet(it.os) : x # y => os[x].id # os[y].id

\* A call whose UPDATEs, sent and to come, write each row once.
Orderly(j, os) == EachOnce(j.stmt) /\ \A i \in DOMAIN j.todo : Distinct(j.todo[i], os)

\* What MemoryIsStored leaves after every step, also for instances in use.
Remembered ==
  /\ Recalled(clean, spoilt, rows, objs, Wire(job), {})
  /\ \A t \in Tasks : Orderly(job[t], objs)

\* A statement for some instances, that writes what was stamped.
Sends(b, os) ==
  /\ EachOnce(b.stmt)
  /\ \A x \in DOMAIN os : os[x].in_db /\ b.objs[x].stamp # os[x].stamp => OnWire(b.stmt, x, "stamp")

\* save() stamps no column it does not write.
LEMMA SendsSave ==
  ASSUME NEW os, ObjsOK(os), NEW it, it.do = "save", it.o \in DOMAIN os, it.cols \in SUBSET Columns, NEW now
  PROVE  Sends(Bind(it, os, now), os)
<1> DEFINE o == it.o
           a == os[o]
           ob == ApplyAutoNow(a, IF a.in_db THEN it.cols ELSE Columns, now)
           written == IF it.cols = Columns /\ ob.marks THEN Columns \ {"state"} ELSE it.cols
           s == IF ~ob.in_db
                THEN [kind |-> "insert", one |-> TRUE, os |-> <<o>>, values |-> <<InsertValues(o, ob)>>]
                ELSE [kind |-> "update", os |-> <<o>>, ids |-> <<ob.id>>, values |-> <<Values(ob, written)>>]
           b == Bind(it, os, now)
<1>1. b.objs = [os EXCEPT ![o] = ob] /\ b.stmt = s
  BY DEF Bind, BindSave
<1>2. a \in Instance /\ \A x \in DOMAIN os : x # o => b.objs[x] = os[x]
  BY <1>1 DEF ObjsOK
<1>3. b.objs[o] = ob
  BY <1>1
<1>4. ob.in_db = a.in_db /\ (a.in_db /\ ob.stamp # a.stamp => "stamp" \in it.cols)
  BY <1>2 DEF ApplyAutoNow, Instance
<1> HIDE DEF a, ob, b
<1>5. "stamp" \in it.cols => "stamp" \in written
  BY DEF Columns
<1> HIDE DEF written
<1>6. CASE ~ob.in_db
  <2>1. b.stmt.kind = "insert"
    BY <1>1, <1>6
  <2>2. ~os[o].in_db
    BY <1>4, <1>6 DEF a
  <2> HIDE DEF s, o
  <2>3. \A x \in DOMAIN os : os[x].in_db => b.objs[x] = os[x]
    BY <1>2, <2>2
  <2> QED BY <2>1, <2>3 DEF Sends, EachOnce, b
<1>7. CASE ob.in_db
  <2>1. b.stmt = [kind |-> "update", os |-> <<o>>, ids |-> <<ob.id>>, values |-> <<Values(ob, written)>>]
    BY <1>1, <1>7
  <2> HIDE DEF s, o
  <2>2. b.stmt.kind = "update" /\ b.stmt.os = <<o>> /\ b.stmt.values[1] = Values(ob, written)
    BY <2>1
  <2>3. DOMAIN <<o>> = {1} /\ o \in ToSet(<<o>>)
    BY DEF ToSet
  <2>4. EachOnce(b.stmt)
    BY <2>2, <2>3 DEF EachOnce
  <2>5. a.in_db /\ ob.stamp # a.stamp => OnWire(b.stmt, o, "stamp")
    BY <1>4, <1>5, <2>2, <2>3 DEF OnWire, Values
  <2>6. ASSUME NEW x \in DOMAIN os, os[x].in_db, b.objs[x].stamp # os[x].stamp PROVE OnWire(b.stmt, x, "stamp")
    <3>1. x = o
      BY <1>2, <2>6
    <3> QED BY <1>3, <2>5, <2>6, <3>1 DEF a
  <2> QED BY <2>4, <2>6 DEF Sends, b
<1> QED BY <1>6, <1>7

\* bulk_update stamps nothing it does not write, and writes each row once.
LEMMA SendsUpdate ==
  ASSUME NEW os, ObjsOK(os), decl \in Declarations, NEW it, it.do = "update", BatchOK(it.os, Len(os)),
         Distinct(it, os), NEW now
  PROVE  Sends(Bind(it, os, now), os)
<1> DEFINE batch == it.os
           after == [o \in DOMAIN os |->
                       IF o \in ToSet(batch) /\ decl.stamp # "add" THEN ApplyAutoNow(os[o], Columns, now) ELSE os[o]]
           written == IF decl.stamp = "add" THEN it.cols ELSE it.cols \cup {"stamp"}
           ids == [i \in DOMAIN batch |-> os[batch[i]].id]
           values == [i \in DOMAIN batch |-> Values(after[batch[i]], written)]
           b == Bind(it, os, now)
<1>1. b = [objs |-> after, stmt |-> [kind |-> "update", os |-> batch, ids |-> ids, values |-> values]]
  BY DEF Bind, BindUpdate
<1>2. b.objs = after /\ b.stmt.kind = "update" /\ b.stmt.os = batch /\ b.stmt.ids = ids /\ b.stmt.values = values
  <2> HIDE DEF after, ids, values, b
  <2> QED BY <1>1
<1>3. \A x \in DOMAIN os : x \notin ToSet(batch) \/ decl.stamp = "add" => after[x] = os[x]
  OBVIOUS
<1>4. /\ batch # <<>> /\ Len(batch) \in Nat /\ DOMAIN batch = 1 .. Len(batch)
      /\ \A i \in DOMAIN batch : batch[i] \in ToSet(batch)
      /\ \A i, k \in DOMAIN batch : i # k => batch[i] # batch[k]
  BY DEF BatchOK, ToSet, Once
<1>5. 1 \in DOMAIN batch
  BY <1>4 DEF BatchOK
<1>6. \A i \in DOMAIN batch : DOMAIN values[i] = written
  BY DEF Values
<1>7. \A i, k \in DOMAIN batch : i # k => ids[i] # ids[k]
  BY <1>4 DEF Distinct
<1> HIDE DEF after, ids, values, b
<1>8. EachOnce(b.stmt)
  BY <1>2, <1>6, <1>7 DEF EachOnce
<1>9. ASSUME NEW x \in DOMAIN os, b.objs[x].stamp # os[x].stamp PROVE OnWire(b.stmt, x, "stamp")
  <2>1. x \in ToSet(batch) /\ "stamp" \in written
    BY <1>2, <1>3, <1>9
  <2> QED BY <1>2, <1>5, <1>6, <2>1 DEF OnWire
<1> QED BY <1>8, <1>9 DEF Sends, b

\* Whatever the item, its statement writes what was stamped.
LEMMA SendsOK ==
  ASSUME NEW os, ObjsOK(os), decl \in Declarations, NEW it, ItemOK(it, Len(os)), ItemFits(it, os), Distinct(it, os),
         NEW now \in Stamps
  PROVE  Sends(Bind(it, os, now), os)
<1>1. DOMAIN os = 1 .. Len(os)
  BY DEF ObjsOK
<1> DEFINE b == Bind(it, os, now)
<1>2. CASE it.do = "save"
  BY <1>1, <1>2, SendsSave DEF ItemOK, Targeted
<1>3. CASE it.do = "update"
  BY <1>3, SendsUpdate DEF ItemOK, Targeted
<1>4. CASE it.do \in {"insert", "upsert"}
  <2>1. b.stmt.kind # "update"
    BY <1>4 DEF Bind, BindInsert, BindUpsert
  <2>2. Bound(b, it, os)
    BY BindOK
  <2> HIDE DEF b
  <2>3. \A x \in DOMAIN os : os[x].in_db => b.objs[x] = os[x]
    BY <1>4, <2>2 DEF ItemFits, Touches, Bound
  <2> QED BY <2>1, <2>3 DEF Sends, EachOnce, b
<1>5. CASE it.do \in {"find", "prefetch"} \cup Targeted
  <2>1. b.stmt.kind # "update" /\ b.objs = os
    BY <1>5 DEF Bind, Targeted
  <2> QED BY <2>1 DEF Sends, EachOnce
<1> QED BY <1>2, <1>3, <1>4, <1>5 DEF ItemOK

-----------------------------------------------------------------------------
(* A call sends its next statement. *)

\* An instance whose columns are the same but for what is on the wire.
LEMMA AtHandStays ==
  ASSUME NEW rs, NEW W, NEW rd, NEW a, NEW o, NEW c \in Columns, AtHand(rs, W, rd, a, o, c),
         NEW V, W \subseteq V, NEW rd2, rd \subseteq rd2, NEW b, b.id = a.id, b.state = a.state, a.marks => b.marks,
         b.key = a.key, b.author = a.author, b.stamp = a.stamp \/ c # "stamp"
  PROVE  AtHand(rs, V, rd2, b, o, c)
<1>1. b[c] = a[c]
  BY DEF Columns
<1> QED BY <1>1 DEF AtHand, Shown

\* The next item of the work can be bound to a statement.
NextFits(todo, os) ==
  todo # <<>> =>
    /\ ItemOK(Head(todo), Len(os)) /\ ItemFits(Head(todo), os) /\ Distinct(Head(todo), os)
    /\ \A i \in DOMAIN Tail(todo) : Distinct(Tail(todo)[i], os)

\* The rows of a batch stay those of different keys.
LEMMA DistinctStays ==
  ASSUME NEW it, NEW os, Distinct(it, os), NEW os2, it.do = "update" => \A x \in ToSet(it.os) : os2[x].id = os[x].id
  PROVE  Distinct(it, os2)
BY DEF Distinct

\* With the statement on the wire what was shown still is, or is being written or read.
LEMMA RecalledSent ==
  ASSUME NEW os, ObjsOK(os), NEW it, NEW b, Bound(b, it, os), Sends(b, os),
         NEW cl, NEW sp, NEW rs, NEW W, NEW rd, Recalled(cl, sp, rs, os, W, rd),
         \A o \in rd : it = Reading(o)
  PROVE  Recalled(cl, sp, rs, b.objs, W \cup {b.stmt}, {})
<1>1. DOMAIN b.objs = DOMAIN os
  BY DEF Bound, ObjsOK
<1> SUFFICES ASSUME NEW o \in DOMAIN os, b.objs[o].in_db, NEW c \in cl[o]
             PROVE  AtHand(rs, W \cup {b.stmt}, {}, b.objs[o], o, c)
  BY <1>1 DEF Recalled
<1>2. Stamped(os[o], b.objs[o])
  BY DEF Bound
<1>3. c \in Columns /\ AtHand(rs, W, rd, os[o], o, c) /\ os[o].in_db
  BY <1>2 DEF Recalled, Stamped
<1>4. CASE OnWire(b.stmt, o, c)
  BY <1>2, <1>3, <1>4 DEF AtHand, Stamped
<1>5. CASE ~OnWire(b.stmt, o, c)
  <2>1. b.objs[o].stamp = os[o].stamp \/ c # "stamp"
    BY <1>3, <1>5 DEF Sends
  <2>2. ~(c = "state" /\ o \in rd)
    <3> SUFFICES ASSUME c = "state", o \in rd PROVE FALSE
      OBVIOUS
    <3>1. it.do = "defaults" /\ it.o = o
      BY DEF Reading
    <3>2. b.stmt.kind = "defaults" /\ b.stmt.os = <<o>>
      BY <3>1 DEF Bound
    <3>3. o \in ToSet(<<o>>)
      BY DEF ToSet
    <3> QED BY <1>5, <3>2, <3>3 DEF OnWire
  <2>3. AtHand(rs, W, {}, os[o], o, c)
    BY <1>3, <2>2 DEF AtHand
  <2> QED BY <1>2, <1>3, <2>1, <2>3, AtHandStays DEF Stamped
<1> QED BY <1>4, <1>5

\* The call of t ends or sends its next statement, and the others stay as they are.
LEMMA RecalledNext ==
  ASSUME NEW os, ObjsOK(os), decl \in Declarations, NEW t, NEW j, Shaped(j), j.now \in Stamps, NEW todo, NEW results,
         Takes(t, j, os, todo, results), NextFits(todo, os), JobOK(job'[t], Len(os)),
         NEW cl, NEW sp, NEW rs, NEW W, NEW rd, Recalled(cl, sp, rs, os, W, rd),
         \A o \in rd : Follows(todo, o)
  PROVE  Recalled(cl, sp, rs, objs', W \cup {job'[t].stmt}, {}) /\ Orderly(job'[t], objs')
<1>1. CASE todo = <<>>
  <2>1. objs' = os /\ job'[t] = Idle /\ rd = {}
    BY <1>1 DEF Takes, Follows
  <2>2. Recalled(cl, sp, rs, objs', W \cup {job'[t].stmt}, {})
    BY <2>1 DEF Recalled, AtHand
  <2>3. Orderly(Idle, os)
    BY DEF Orderly, Idle, EachOnce
  <2> QED BY <2>1, <2>2, <2>3
<1>2. CASE todo # <<>>
  <2> DEFINE it == Head(todo)
  <2>1. PICK b : /\ b = Bind(it, os, j.now) /\ Bound(b, it, os)
                 /\ objs' = b.objs /\ job'[t] = Turning(j, Tail(todo), b.stmt, results)
    BY <1>2 DEF Takes
  <2>3. job'[t].todo = Tail(todo) /\ job'[t].stmt = b.stmt
    BY <2>1 DEF Turning, Shaped
  <2>4. ItemOK(it, Len(os)) /\ ItemFits(it, os) /\ Distinct(it, os) /\ \A i \in DOMAIN Tail(todo) : Distinct(Tail(todo)[i], os)
    BY <1>2 DEF NextFits
  <2>5. \A o \in rd : it = Reading(o)
    BY DEF Follows
  <2> HIDE DEF it
  <2>6. Sends(b, os)
    BY <2>1, <2>4, SendsOK
  <2>7. Recalled(cl, sp, rs, b.objs, W \cup {b.stmt}, {})
    <3>1. Bound(b, it, os)
      BY <2>1
    <3> QED BY <2>5, <2>6, <3>1, RecalledSent
  <2>8. \A i \in DOMAIN Tail(todo) : Distinct(Tail(todo)[i], b.objs)
    <3> SUFFICES ASSUME NEW i \in DOMAIN Tail(todo), NEW x \in ToSet(Tail(todo)[i].os) PROVE b.objs[x].id = os[x].id
      BY <2>4, DistinctStays
    <3>1. BatchOK(Tail(todo)[i].os, Len(os))
      BY <2>3 DEF JobOK
    <3>2. x \in DOMAIN os
      BY <3>1 DEF BatchOK, ToSet, ObjsOK
    <3> QED BY <2>1, <3>2 DEF Bound, Stamped
  <2> QED BY <2>1, <2>3, <2>6, <2>7, <2>8 DEF Orderly, Sends
<1> QED BY <1>1, <1>2

-----------------------------------------------------------------------------
(* What is shown after an answer. *)

\* The instances the defaults of which are read next.
Coming(todo) == {o \in Nat : Follows(todo, o)}

\* What the row of an instance keeps, the instance still shows.
LEMMA Unwritten ==
  ASSUME NEW t \in Tasks, NEW e, NEW ob, NEW o, NEW c \in Columns, AtHand(rows, Wire(job), {}, ob, o, c),
         ~OnWire(job[t].stmt, o, c), NEW s, c \notin WrittenTo(s, e, ob.id)
  PROVE  AtHand(e.rows, WireBut(job, t), {}, ob, o, c)
<1>1. ob.id \in DOMAIN rows
  BY DEF AtHand
<1>2. ob.id \in DOMAIN e.rows /\ e.rows[ob.id][c] = rows[ob.id][c]
  BY <1>1 DEF WrittenTo
<1>3. ASSUME NEW w \in Wire(job), OnWire(w, o, c) PROVE w \in WireBut(job, t)
  BY <1>3 DEF Wire, WireBut
<1> QED BY <1>2, <1>3 DEF AtHand, Shown

\* So it is for an instance the statement neither inserted, updated nor loaded.
LEMMA KnownElse ==
  ASSUME Remembered, NEW t \in Tasks, NEW o \in Objs, objs[o].in_db, NEW s, NEW e, NEW os, os[o].id = objs[o].id,
         ~(o \in ToSet(s.os) /\ s.kind \in {"insert", "reload", "update"}),
         NEW c \in Known(o, s, e, os), ~OnWire(job[t].stmt, o, c)
  PROVE  AtHand(e.rows, WireBut(job, t), {}, objs[o], o, c)
<1>1. /\ clean[o] \subseteq Columns
      /\ \A x \in clean[o] : AtHand(rows, Wire(job), {}, objs[o], o, x)
  BY DEF Remembered, Recalled, Objs
<1>2. CASE objs[o].id \in DOMAIN rows \cup DOMAIN e.rows
  <2>1. c \in clean[o] /\ c \notin WrittenTo(s, e, objs[o].id)
    BY <1>2 DEF Known
  <2> QED BY <1>1, <2>1, Unwritten
<1>3. CASE objs[o].id \notin DOMAIN rows \cup DOMAIN e.rows
  <2>1. c \in clean[o]
    BY <1>3 DEF Known
  <2> QED BY <1>1, <1>3, <2>1 DEF AtHand
<1> QED BY <1>2, <1>3

\* An instance shows what was inserted for it, or has its default marked or read next.
LEMMA ShownInserted ==
  ASSUME NEW v, NEW a, Gives(v, a), NEW rs, NEW p \in DOMAIN rs, rs[p] = Stored(v),
         NEW b, NEW follows, Saved(a, b, p, rs[p], follows), NEW c \in Columns
  PROVE  b.id = p /\ (Shown(rs, b, c) \/ (c = "state" /\ follows))
<1>1. b.id = p
  BY DEF Saved
<1>2. rs[p].key = b.key /\ rs[p].author = b.author /\ rs[p].stamp = b.stamp
  BY DEF Stored, Gives, Saved
<1>3. b.state = rs[p].state \/ (b.state = None /\ (b.marks \/ follows))
  <2>1. CASE a.state = None
    BY <2>1 DEF Saved
  <2>2. CASE a.state # None
    BY <2>2 DEF Stored, Gives, Saved
  <2> QED BY <2>1, <2>2
<1> QED BY <1>1, <1>2, <1>3 DEF Shown, Columns

\* The statement that is answered, and what is known about it.
LEMMA AnsweredIs ==
  ASSUME NEW T, NEW U, NEW t, NEW e, NEW pick, NEW r, NEW js, Answering(T, U, t, e, pick, r, js)
  PROVE  LET s == job[t].stmt IN
         /\ t \in Tasks /\ StmtOK(s, Len(objs)) /\ Agrees(s, objs, spoilt) /\ e = Execute(s) /\ e.ok
         /\ s.kind \in Kinds /\ DOMAIN objs = 1 .. Len(objs) /\ Len(objs) \in Nat /\ TableOK(rows, serial)
BY AnsweringIs, TableIsOK DEF Asked, Executed, JobInv, StmtOK

\* What was inserted is shown.
LEMMA KnownInsert ==
  ASSUME NEW T, NEW U, NEW t, NEW e, NEW pick, NEW r, NEW js, Answering(T, U, t, e, pick, r, js),
         job[t].stmt.kind = "insert", NEW o \in ToSet(job[t].stmt.os), o \notin spoilt, NEW c \in Columns
  PROVE  AtHand(e.rows, WireBut(job, t), Coming(r.todo), r.objs[o], o, c)
<1> DEFINE s == job[t].stmt
<1>1. InsertOK(s, Len(objs)) /\ Agrees(s, objs, spoilt) /\ e = ExecuteInsert(s.values) /\ e.ok /\ serial \in Nat
      /\ Len(objs) \in Nat
  BY AnsweredIs, ExecuteKinds DEF StmtOK, TableOK
<1>2. InsertTaken(e, t, r)
  BY TakenInsert
<1> HIDE DEF s
<1>3. PICK i \in DOMAIN s.os : s.os[i] = o
  BY DEF ToSet, s
<1>4. DOMAIN s.values = DOMAIN s.os /\ s.values \in Seq(Value) /\ o \in Nat
  BY <1>1, <1>3 DEF InsertOK, BatchOK
<1>5. e.ids[i] \in DOMAIN e.rows /\ e.rows[e.ids[i]] = Stored(s.values[i])
  BY <1>1, <1>3, <1>4, Inserts
<1>6. Gives(s.values[i], objs[o])
  BY <1>1, <1>3 DEF Agrees, Writing, Fits, s
<1>7. Saved(objs[o], r.objs[o], e.ids[i], e.rows[e.ids[i]], Follows(r.todo, o))
  BY <1>2, <1>3 DEF InsertTaken, s
<1>8. r.objs[o].id = e.ids[i] /\ (Shown(e.rows, r.objs[o], c) \/ (c = "state" /\ Follows(r.todo, o)))
  BY <1>5, <1>6, <1>7, ShownInserted
<1> QED BY <1>4, <1>5, <1>8 DEF AtHand, Coming

\* What was loaded is shown.
LEMMA KnownReload ==
  ASSUME NEW T, NEW U, NEW t, NEW e, NEW pick, NEW r, NEW js, Answering(T, U, t, e, pick, r, js),
         job[t].stmt.kind = "reload", NEW o \in ToSet(job[t].stmt.os), o \notin spoilt, NEW c \in Columns
  PROVE  AtHand(e.rows, WireBut(job, t), {}, r.objs[o], o, c)
<1> DEFINE s == job[t].stmt
<1>1. Targets(s, e, objs[s.os[1]], r.objs[s.os[1]])
  BY AnsweringIs, AnswerTargeted
<1>2. o = s.os[1] /\ 1 \in DOMAIN s.os
  BY AnsweredIs DEF StmtOK, Targeted, ToSet
<1>3. s.id = objs[o].id
  BY <1>2, AnsweredIs DEF Agrees, Writing, Fits
<1> HIDE DEF s
<1>4. /\ r.objs[o].id = s.id /\ s.id \in DOMAIN e.rows
      /\ r.objs[o].key = e.rows[s.id].key /\ r.objs[o].author = e.rows[s.id].author
      /\ r.objs[o].state = e.rows[s.id].state /\ r.objs[o].stamp = e.rows[s.id].stamp
  BY <1>1, <1>2, <1>3 DEF Targets, s
<1> QED BY <1>4 DEF AtHand, Shown, Columns

\* What was updated is shown, and what was not is as it was.
LEMMA KnownUpdate ==
  ASSUME Remembered, NEW T, NEW U, NEW t, NEW e, NEW pick, NEW r, NEW js, Answering(T, U, t, e, pick, r, js),
         job[t].stmt.kind = "update", NEW o \in ToSet(job[t].stmt.os), o \notin spoilt,
         NEW c \in Known(o, job[t].stmt, e, r.objs)
  PROVE  AtHand(e.rows, WireBut(job, t), {}, r.objs[o], o, c)
<1> DEFINE s == job[t].stmt
           p == objs[o].id
<1>1. r.objs = objs
  BY TakenPlain DEF PlainTaken
<1>2. /\ s.os \in Seq(1 .. Len(objs)) /\ s.os # <<>> /\ Len(s.ids) = Len(s.os) /\ DOMAIN s.values = DOMAIN s.os
      /\ s.ids \in Seq(Ids) /\ (\A i \in DOMAIN s.os : PartOK(s.values[i]))
      /\ Agrees(s, objs, spoilt) /\ e = ExecuteUpdate(s.ids, s.values) /\ TableOK(rows, serial)
      /\ DOMAIN objs = 1 .. Len(objs)
  BY AnsweredIs, ExecuteKinds DEF StmtOK, BatchOK
<1>3. EachOnce(s)
  BY AnsweredIs DEF Remembered, Orderly
<1> HIDE DEF s
<1>4. PICK i \in DOMAIN s.os : s.os[i] = o
  BY DEF ToSet, s
<1>5. o \in DOMAIN objs /\ objs[o].in_db /\ s.ids[i] = p /\ Shows(s.values[i], objs[o])
  BY <1>2, <1>4 DEF Agrees, Writing, Fits, s
<1> HIDE DEF p
<1>6. p \in DOMAIN e.rows /\ c \in clean[o] \cup DOMAIN s.values[1]
  BY <1>1, <1>5 DEF Known, Objs, s, p
<1>7. DOMAIN s.values[1] = DOMAIN s.values[i] /\ \A k \in DOMAIN s.os : s.ids[k] = p => k = i
  <2>1. 1 \in DOMAIN s.os
    BY <1>2
  <2> QED BY <1>3, <1>4, <1>5, <2>1 DEF EachOnce, s
<1>8. p \in DOMAIN rows /\ e.rows[p] = Put(rows[p], s.values[i])
  <2> DEFINE n == Len(s.os)
  <2>1. n \in Nat /\ DOMAIN s.ids = 1 .. n /\ DOMAIN s.values = 1 .. n /\ i \in 1 .. n /\ DOMAIN s.os = 1 .. n
    BY <1>2, <1>4
  <2>2. e = ExecuteUpdate(s.ids, s.values)
    BY <1>2
  <2> HIDE DEF n
  <2>3. DOMAIN e.rows = DOMAIN rows
        /\ \A q \in DOMAIN rows : \/ e.rows[q] = rows[q] /\ \A k \in 1 .. n : s.ids[k] # q
                                  \/ \E k \in 1 .. n : s.ids[k] = q /\ e.rows[q] = Put(rows[q], s.values[k])
    BY <2>1, <2>2, Updates
  <2> QED BY <1>5, <1>6, <1>7, <2>1, <2>3
<1>9. rows[p] \in Row /\ PartOK(s.values[i])
  BY <1>2, <1>4, <1>8 DEF TableOK
<1>10. /\ e.rows[p].key = IF "key" \in DOMAIN s.values[i] THEN objs[o].key ELSE rows[p].key
       /\ e.rows[p].author = IF "author" \in DOMAIN s.values[i] THEN objs[o].author ELSE rows[p].author
       /\ e.rows[p].state = IF "state" \in DOMAIN s.values[i] THEN objs[o].state ELSE rows[p].state
       /\ e.rows[p].stamp = IF "stamp" \in DOMAIN s.values[i] THEN objs[o].stamp ELSE rows[p].stamp
  BY <1>5, <1>8, <1>9, PutRow DEF Shows
<1>11. CASE c \in DOMAIN s.values[i]
  <2>1. c \in Columns
    BY <1>9, <1>11 DEF PartOK
  <2>2. e.rows[p][c] = objs[o][c]
    BY <1>10, <1>11, <2>1 DEF Columns
  <2> QED BY <1>1, <1>6, <2>2 DEF AtHand, Shown, p
<1>12. CASE c \notin DOMAIN s.values[i]
  <2>1. c \in clean[o] /\ ~OnWire(s, o, c)
    BY <1>6, <1>7, <1>12 DEF OnWire, s
  <2>2. c \in Columns /\ AtHand(rows, Wire(job), {}, objs[o], o, c)
    BY <1>5, <2>1 DEF Remembered, Recalled
  <2>3. e.rows[p][c] = rows[p][c]
    BY <1>10, <1>12, <2>2 DEF Columns
  <2>4. c \notin WrittenTo(s, e, p)
    BY <1>6, <1>8, <2>3 DEF WrittenTo
  <2>5. t \in Tasks
    BY AnsweredIs
  <2> QED BY <1>1, <2>1, <2>2, <2>4, <2>5, Unwritten DEF s, p
<1> QED BY <1>11, <1>12

\* The default that was read is shown, and the other columns as they were.
LEMMA KnownDefaults ==
  ASSUME Remembered, NEW T, NEW U, NEW t, NEW e, NEW pick, NEW r, NEW js, Answering(T, U, t, e, pick, r, js),
         job[t].stmt.kind = "defaults", NEW o \in ToSet(job[t].stmt.os), o \notin spoilt, r.objs[o].in_db,
         NEW c \in Known(o, job[t].stmt, e, r.objs), c \in Columns
  PROVE  AtHand(e.rows, WireBut(job, t), {}, r.objs[o], o, c)
<1> DEFINE s == job[t].stmt
<1>1. Targets(s, e, objs[s.os[1]], r.objs[s.os[1]])
  BY AnsweringIs, AnswerTargeted
<1>2. o = s.os[1] /\ 1 \in DOMAIN s.os /\ o \in Objs /\ t \in Tasks
  BY AnsweredIs DEF StmtOK, Targeted, ToSet, Objs
<1>3. s.id = objs[o].id
  BY <1>2, AnsweredIs DEF Agrees, Writing, Fits
<1> HIDE DEF s
<1>4. /\ r.objs[o].id = objs[o].id /\ objs[o].id \in DOMAIN e.rows /\ objs[o].in_db
      /\ r.objs[o].key = objs[o].key /\ r.objs[o].author = objs[o].author /\ r.objs[o].stamp = objs[o].stamp
      /\ r.objs[o].state = e.rows[objs[o].id].state
  BY <1>1, <1>2, <1>3 DEF Targets, s
<1>5. CASE c = "state"
  BY <1>4, <1>5 DEF AtHand, Shown
<1>6. CASE c # "state"
  <2>1. ~OnWire(s, o, c)
    BY <1>6 DEF OnWire, s
  <2>2. AtHand(e.rows, WireBut(job, t), {}, objs[o], o, c)
    BY <1>2, <1>4, <2>1, KnownElse DEF s
  <2>3. r.objs[o][c] = objs[o][c]
    BY <1>4, <1>6 DEF Columns
  <2> QED BY <1>4, <1>6, <2>2, <2>3 DEF AtHand, Shown
<1> QED BY <1>5, <1>6

\* An instance that is not stored shows nothing: one that was deleted, or that an upsert
\* may have inserted.
LEMMA NotStored ==
  ASSUME NEW T, NEW U, NEW t, NEW e, NEW pick, NEW r, NEW js, Answering(T, U, t, e, pick, r, js),
         job[t].stmt.kind \in {"delete", "upsert"}, NEW o \in ToSet(job[t].stmt.os), o \notin spoilt
  PROVE  ~r.objs[o].in_db
<1> DEFINE s == job[t].stmt
<1>1. CASE s.kind = "delete"
  <2>1. Targets(s, e, objs[s.os[1]], r.objs[s.os[1]])
    BY <1>1, AnsweringIs, AnswerTargeted
  <2>2. o = s.os[1]
    BY <1>1, AnsweredIs DEF StmtOK, Targeted, ToSet
  <2> QED BY <1>1, <2>1, <2>2 DEF Targets
<1>2. CASE s.kind = "upsert"
  <2>1. JobOK(job[t], Len(objs)) /\ ObjsOK(objs) /\ e.ok /\ r = Resume(job[t], e, objs, pick)
    BY AnsweringIs
  <2>2. r.objs = objs
    BY <1>2, <2>1, AnswerPlain
  <2>3. PICK i \in DOMAIN s.os : s.os[i] = o
    BY DEF ToSet
  <2>4. ~objs[o].in_db
    BY <1>2, <2>3, AnsweredIs DEF Agrees, Writing, Fits
  <2> QED BY <2>2, <2>4
<1> QED BY <1>1, <1>2

\* An instance that was there shows what counts as stored.
LEMMA KnownOld ==
  ASSUME Remembered, NEW T, NEW U, NEW t, NEW e, NEW pick, NEW r, NEW js, Answering(T, U, t, e, pick, r, js),
         Shifted(U, e, t, r.objs), NEW o \in DOMAIN objs, r.objs[o].in_db,
         NEW c \in Known(o, job[t].stmt, e, r.objs), c \in Columns
  PROVE  AtHand(e.rows, WireBut(job, t), Coming(r.todo), r.objs[o], o, c)
<1> DEFINE s == job[t].stmt
<1>1. o \notin spoilt
  BY DEF Known, Objs
<1>2. s.kind \in Kinds /\ t \in Tasks
  BY AnsweredIs
<1>3. CASE o \in ToSet(s.os) /\ s.kind = "insert"
  BY <1>1, <1>3, KnownInsert
<1>4. CASE o \in ToSet(s.os) /\ s.kind \in {"reload", "update", "defaults"}
  <2>1. AtHand(e.rows, WireBut(job, t), {}, r.objs[o], o, c)
    BY <1>1, <1>4, KnownReload, KnownUpdate, KnownDefaults
  <2> QED BY <2>1 DEF AtHand
<1>5. CASE o \in ToSet(s.os) /\ s.kind \in {"delete", "upsert"}
  BY <1>1, <1>5, NotStored
<1>6. CASE o \notin ToSet(s.os) \/ s.kind \in {"none", "find", "prefetch", "relation"}
  <2>1. PICK rd : Moved(U, e, t, r.objs, rd)
    BY DEF Shifted
  <2>2. o \notin UsedBy(s)
    <3>1. s.kind = "find" => o \notin ToSet(s.os)
      BY AnsweredIs DEF StmtOK, ToSet
    <3> QED BY <1>6, <3>1 DEF UsedBy
  <2>3. Same(objs[o], r.objs[o])
    BY <2>1, <2>2 DEF Moved
  <2>4. ~OnWire(s, o, c)
    BY <1>6 DEF OnWire
  <2>5. AtHand(e.rows, WireBut(job, t), {}, objs[o], o, c)
    BY <1>2, <1>6, <2>3, <2>4, KnownElse DEF Same, Objs
  <2> QED BY <2>3, <2>5, AtHandStays DEF Same
<1> QED BY <1>2, <1>3, <1>4, <1>5, <1>6 DEF Kinds

\* An instance that was made of a row shows the row where it says so.
LEMMA KnownNew ==
  ASSUME NEW T, NEW U, NEW t \in Tasks, NEW e, NEW pick, NEW r, NEW js, Proceeds(T, U, t, e, pick, r, js),
         NEW o \in DOMAIN r.objs \ DOMAIN objs, r.objs[o].in_db, NEW c \in Known(o, job[t].stmt, e, r.objs)
  PROVE  AtHand(e.rows, WireBut(job, t), Coming(r.todo), r.objs[o], o, c)
<1> DEFINE s == job[t].stmt
<1>1. Answering(T, U, t, e, pick, r, js) /\ s.kind # "none"
  BY DEF Proceeds
<1>2. r.objs[o][c] = e.rows[r.objs[o].id][c]
  BY DEF Known, Objs
<1>3. objs \in Seq(Instance) /\ DOMAIN objs = 1 .. Len(objs) /\ Len(objs) \in Nat /\ s.kind \in Kinds
  BY <1>1, AnsweringIs, AnsweredIs
<1>4. s.kind = "find" /\ job[t].op \in Finders \cup Bulks
  <2>1. CASE s.kind = "insert"
    <3>1. Kept(r, job[t])
      BY <1>1, <2>1, TakenInsert DEF InsertTaken
    <3> QED BY <1>3, <3>1 DEF Kept
  <2>2. CASE s.kind \in {"upsert", "update", "delete", "defaults", "reload", "relation", "prefetch"}
    <3>1. Kept(r, job[t])
      BY <1>1, <2>2, AnsweringIs, AnswerPlain, AnswerTargeted, AnswerCache
    <3> QED BY <1>3, <3>1 DEF Kept
  <2>3. s.kind = "find" => Finding(job[t].op, job[t].records)
    BY <1>1, AnsweringIs DEF JobOK
  <2> QED BY <1>1, <1>3, <2>1, <2>2, <2>3 DEF Kinds, Finding
<1>5. CASE job[t].op \in Finders
  <2>1. PICK rec \in Lookups : Got(r, e, rec)
    BY <1>1, <1>4, <1>5, TakenGet
  <2>2. PICK b \in Instance : /\ r.objs = Append(objs, b)
                              /\ b = New(rec) \/ \E p \in DOMAIN e.rows : FromRow(b, p, e.rows[p])
    BY <2>1 DEF Got
  <2>3. r.objs[o] = b
    BY <1>3, <2>2
  <2>4. \E p \in DOMAIN e.rows : FromRow(b, p, e.rows[p])
    BY <2>2, <2>3 DEF New
  <2> QED BY <1>2, <2>3, <2>4 DEF AtHand, Shown, FromRow
<1>6. CASE job[t].op \in Bulks
  <2>1. PickOK(e, pick)
    BY <1>4, ProceedsGoes
  <2>2. BulkTaken(e, t, pick, r)
    BY <1>1, <1>4, <1>6, <2>1, TakenBulk
  <2>3. PICK a, b \in Record : Answered(r, a, b, e, pick) /\ r.objs \in Seq(Instance)
    BY <2>2 DEF BulkTaken
  <2>4. \E rec \in Record, made \in BOOLEAN : For(r.objs[o], rec, made, e, pick)
    <3>1. o = Len(objs) + 1 \/ (o = Len(objs) + 2 /\ a.key # b.key)
      <4> DEFINE n == Len(objs)
                 m == Len(r.objs)
      <4>1. m = (IF a.key = b.key THEN n + 1 ELSE n + 2)
        BY <2>3 DEF Answered
      <4>2. o \in 1 .. m /\ o \notin 1 .. n /\ n \in Nat
        BY <1>3, <2>3
      <4> HIDE DEF n, m
      <4> QED BY <4>1, <4>2 DEF n
    <3> QED BY <2>3, <3>1 DEF Answered
  <2>5. \E p \in DOMAIN e.rows : FromRow(r.objs[o], p, e.rows[p])
    BY <2>1, <2>4 DEF For, PickOK, New
  <2> QED BY <1>2, <2>5 DEF AtHand, Shown, FromRow
<1> QED BY <1>4, <1>5, <1>6

\* Every instance shows what counts as stored once the answer is in.
LEMMA RecalledAnswer ==
  ASSUME Inv, Remembered, NEW T, NEW U, NEW t \in Tasks, NEW e, NEW pick, NEW r, NEW js,
         Proceeds(T, U, t, e, pick, r, js)
  PROVE  Recalled(clean', spoilt, e.rows, r.objs, WireBut(job, t), Coming(r.todo))
<1> DEFINE s == job[t].stmt
<1>1. Answering(T, U, t, e, pick, r, js) /\ s.kind # "none"
      /\ clean' = [o \in DOMAIN r.objs |-> Known(o, s, e, r.objs)]
  BY DEF Proceeds
<1>2. Shifted(U, e, t, r.objs) /\ JobOK(job[t], Len(objs))
  BY ProceedsGoes
<1>3. ObjsOK(objs) /\ DOMAIN objs = 1 .. Len(objs) /\ spoilt \subseteq 1 .. Len(objs)
  BY <1>1, AnsweringIs DEF World, Base
<1> SUFFICES ASSUME NEW o \in DOMAIN r.objs
             PROVE  /\ clean'[o] \subseteq Columns /\ (o \in spoilt => clean'[o] = {})
                    /\ r.objs[o].in_db =>
                         \A c \in clean'[o] : AtHand(e.rows, WireBut(job, t), Coming(r.todo), r.objs[o], o, c)
  BY DEF Recalled
<1>4. clean'[o] = Known(o, s, e, r.objs)
  BY <1>1
<1>5. Known(o, s, e, r.objs) \in SUBSET Columns
  BY <1>1, <1>2, <1>3, KnownCols DEF Inv
<1>6. o \in spoilt => Known(o, s, e, r.objs) = {}
  BY <1>3 DEF Known, Objs
<1>7. ASSUME r.objs[o].in_db, NEW c \in Known(o, s, e, r.objs)
      PROVE  AtHand(e.rows, WireBut(job, t), Coming(r.todo), r.objs[o], o, c)
  <2>1. c \in Columns
    BY <1>5
  <2>2. CASE o \in DOMAIN objs
    BY <1>1, <1>2, <1>7, <2>1, <2>2, KnownOld
  <2>3. CASE o \notin DOMAIN objs
    BY <1>7, <2>3, KnownNew
  <2> QED BY <2>2, <2>3
<1> QED BY <1>4, <1>5, <1>6, <1>7

-----------------------------------------------------------------------------
(* The work after an answer. *)

\* The next item of work, where a call goes on.
LEMMA HeadFits ==
  ASSUME NEW U, NEW rs, NEW n, NEW os, NEW js, NEW sp, NEW ls, NEW t \in Tasks, NEW j, NEW todo, NEW results,
         DOMAIN js = Tasks, GoesOn(U, rs, n, os, js, sp, ls, t, j, todo, results), todo # <<>>
  PROVE  ItemOK(Head(todo), Len(os)) /\ ItemFits(Head(todo), os)
<1>1. PICK rest, rd : LET k == [js EXCEPT ![t] = Waiting(j, rest, results)] IN
        /\ World(U, rs, n, os, k, sp, ls, rd)
        /\ \/ todo = rest /\ rd = {}
           \/ todo # <<>> /\ Tail(todo) = rest /\ Ready(Head(todo), t, os, k, sp, ls, rd)
  BY DEF GoesOn
<1> DEFINE k == [js EXCEPT ![t] = Waiting(j, rest, results)]
           m == [k EXCEPT ![t] = Waiting(j, Tail(todo), results)]
<1>2. k[t] = Waiting(j, rest, results)
  OBVIOUS
<1> HIDE DEF k, m
<1>3. CASE todo = rest /\ rd = {}
  <2>1. World(U, rs, n, os, k, sp, ls, {}) /\ k[t] = Waiting(j, todo, results)
    BY <1>1, <1>2, <1>3 DEF k
  <2>2. Ready(Head(todo), t, os, m, sp, ls, {})
    BY <2>1, TakeItem DEF m
  <2> QED BY <2>2 DEF Ready
<1>4. CASE Ready(Head(todo), t, os, k, sp, ls, rd)
  BY <1>4 DEF Ready
<1> QED BY <1>1, <1>3, <1>4 DEF k

\* An UPDATE that a bulk call plans is of the rows of different keys.
LEMMA BulkDistinct ==
  ASSUME NEW T, NEW U, NEW t, NEW e, NEW pick, NEW r, NEW js, Answering(T, U, t, e, pick, r, js),
         job[t].stmt.kind = "find", job[t].op \in Bulks, PickOK(e, pick), NEW i \in DOMAIN r.todo
  PROVE  Distinct(r.todo[i], r.objs)
<1> DEFINE n == Len(objs)
           m == Len(r.objs)
           it == r.todo[i]
<1>1. BulkTaken(e, t, pick, r)
  BY TakenBulk
<1>2. PICK a, b \in Record : Answered(r, a, b, e, pick) /\ Plan(r.todo, r.objs, n)
  BY <1>1 DEF BulkTaken
<1>3. Work(it, r.objs, n) /\ n \in Nat
  BY <1>2, AnsweringIs DEF Plan
<1> SUFFICES ASSUME it.do = "update", NEW x \in ToSet(it.os), NEW y \in ToSet(it.os), x # y
             PROVE  r.objs[x].id # r.objs[y].id
  BY DEF Distinct
<1>4. BatchOK(it.os, m) /\ n < x /\ n < y /\ r.objs[x].in_db /\ r.objs[y].in_db
  BY <1>3 DEF Work
<1>5. m = IF a.key = b.key THEN n + 1 ELSE n + 2
  BY <1>2 DEF Answered
<1> HIDE DEF it, m, n
<1>6. x \in 1 .. m /\ y \in 1 .. m
  <2>1. it.os \in Seq(1 .. m)
    BY <1>4 DEF BatchOK
  <2>2. PICK k \in DOMAIN it.os, l \in DOMAIN it.os : x = it.os[k] /\ y = it.os[l]
    BY DEF ToSet
  <2> DEFINE S == 1 .. m
  <2>3. it.os \in Seq(S)
    BY <2>1
  <2> HIDE DEF S
  <2>4. x \in S /\ y \in S
    BY <2>2, <2>3
  <2> QED BY <2>4 DEF S
<1>7. a.key # b.key /\ ((x = n + 1 /\ y = n + 2) \/ (x = n + 2 /\ y = n + 1))
  BY <1>3, <1>4, <1>5, <1>6
<1> DEFINE p == r.objs[n + 1]
           q == r.objs[n + 2]
<1>8. PICK made \in BOOLEAN, more \in BOOLEAN : For(p, a, made, e, pick) /\ For(q, b, more, e, pick)
  BY <1>2, <1>7 DEF Answered, n
<1>9. p.in_db /\ q.in_db
  BY <1>4, <1>7
<1> HIDE DEF p, q
<1>10. p.id = pick[a.key] /\ a.key \in DOMAIN pick /\ q.id = pick[b.key] /\ b.key \in DOMAIN pick
  BY <1>8, <1>9 DEF For, FromRow, New
<1>11. p.id # q.id
  BY <1>7, <1>10 DEF PickOK
<1> QED BY <1>7, <1>11 DEF p, q

\* Work for instances an answer leaves alone stays work for different rows.
LEMMA KeptDistinct ==
  ASSUME Remembered, NEW T, NEW U, NEW t, NEW e, NEW pick, NEW r, NEW js, Answering(T, U, t, e, pick, r, js),
         Shifted(U, e, t, r.objs), NEW u \in Tasks, Later(job[u]) \cap UsedBy(job[t].stmt) = {},
         NEW i \in DOMAIN job[u].todo
  PROVE  Distinct(job[u].todo[i], r.objs)
<1> DEFINE it == job[u].todo[i]
<1>1. PICK rd : Moved(U, e, t, r.objs, rd)
  BY DEF Shifted
<1>2. Distinct(it, objs)
  BY DEF Remembered, Orderly
<1>3. JobOK(job[u], Len(objs)) /\ DOMAIN objs = 1 .. Len(objs)
  BY AnsweringIs DEF World
<1> SUFFICES ASSUME NEW x \in ToSet(it.os) PROVE r.objs[x].id = objs[x].id
  BY <1>2, DistinctStays
<1>4. x \in Later(job[u]) /\ BatchOK(it.os, Len(objs))
  BY <1>3 DEF Later, JobOK
<1> HIDE DEF it
<1>5. x \in DOMAIN objs
  BY <1>3, <1>4 DEF BatchOK, ToSet
<1> QED BY <1>1, <1>4, <1>5 DEF Moved, Same

\* The next statement of the call that is answered can be bound.
LEMMA ProceedsFits ==
  ASSUME Remembered, NEW T, NEW U, NEW t \in Tasks, NEW e, NEW pick, NEW r, NEW js,
         Proceeds(T, U, t, e, pick, r, js)
  PROVE  NextFits(r.todo, r.objs)
<1> DEFINE j == job[t]
           todo == r.todo
<1> SUFFICES ASSUME todo # <<>> PROVE NextFits(todo, r.objs)
  BY DEF NextFits
<1>1. Answering(T, U, t, e, pick, r, js) /\ j.stmt.kind # "none"
  BY DEF Proceeds
<1>2. /\ GoesOn(U, e.rows, e.serial, r.objs, js, spoilt, lost, t, j, todo, r.results)
      /\ Shifted(U, e, t, r.objs) /\ JobOK(j, Len(objs)) /\ (j.stmt.kind = "find" => PickOK(e, pick))
  BY ProceedsGoes
<1>3. ItemOK(Head(todo), Len(r.objs)) /\ ItemFits(Head(todo), r.objs)
  BY <1>1, <1>2, HeadFits DEF Answering
<1>4. \A i \in DOMAIN j.todo : Distinct(j.todo[i], r.objs)
  <2>1. Later(j) \cap UsedBy(j.stmt) = {}
    BY <1>1, AnsweringIs DEF JobInv, JobOwn
  <2> QED BY <1>1, <1>2, <2>1, KeptDistinct
<1>5. \A S : todo \in Seq(S) /\ (\A i \in DOMAIN todo : Distinct(todo[i], r.objs)) => NextFits(todo, r.objs)
  <2> SUFFICES ASSUME NEW S, todo \in Seq(S), \A i \in DOMAIN todo : Distinct(todo[i], r.objs)
               PROVE  NextFits(todo, r.objs)
    OBVIOUS
  <2> HIDE DEF todo
  <2> QED BY <1>3, Tails DEF NextFits, todo
<1>6. j.todo \in Seq(Items) /\ j.stmt.kind \in Kinds
  BY <1>2 DEF JobOK, StmtOK
<1>7. CASE todo = j.todo
  BY <1>4, <1>5, <1>6, <1>7
<1>8. CASE j.stmt.kind = "insert" /\ todo # j.todo
  <2>1. InsertTaken(e, t, r)
    BY <1>1, <1>8, TakenInsert
  <2>2. PICK o : Follows(todo, o) /\ Tail(todo) = j.todo
    BY <1>8, <2>1 DEF InsertTaken
  <2>3. Distinct(Head(todo), r.objs)
    BY <2>2 DEF Follows, Reading, Distinct
  <2> HIDE DEF todo
  <2> QED BY <1>3, <1>4, <2>2, <2>3 DEF NextFits, todo
<1>9. CASE j.stmt.kind \in {"upsert", "update", "delete", "defaults", "reload", "relation", "prefetch"}
  <2>1. todo = j.todo
    BY <1>1, <1>9, TakenPlain DEF PlainTaken
  <2> QED BY <1>7, <2>1
<1>10. CASE j.stmt.kind = "find"
  <2>1. j.op \in Finders \cup Bulks
    BY <1>2, <1>10 DEF JobOK, Finding
  <2>2. CASE j.op \in Finders
    <3>1. PICK rec : Got(r, e, rec)
      BY <1>1, <1>10, <2>2, TakenGet
    <3>2. todo = <<Save(Len(objs) + 1, Columns)>>
      BY <3>1 DEF Got
    <3>3. \A i \in DOMAIN todo : Distinct(todo[i], r.objs)
      BY <3>2 DEF Save, Distinct
    <3>4. todo \in Seq({Save(Len(objs) + 1, Columns)})
      BY <3>2
    <3> QED BY <1>5, <3>3, <3>4
  <2>3. CASE j.op \in Bulks
    <3>1. \A i \in DOMAIN todo : Distinct(todo[i], r.objs)
      BY <1>1, <1>2, <1>10, <2>3, BulkDistinct
    <3>2. todo \in Seq(Items)
      BY <1>1, <1>2, <1>10, <2>3, TakenBulk DEF BulkTaken, Plan
    <3> QED BY <1>5, <3>1, <3>2
  <2> QED BY <2>1, <2>2, <2>3
<1> QED BY <1>1, <1>6, <1>7, <1>8, <1>9, <1>10 DEF Kinds

-----------------------------------------------------------------------------
(* Every step keeps what counts as stored. *)

\* Remembered, in the next state.
LEMMA RememberedNext ==
  ASSUME Recalled(clean', spoilt', rows', objs', Wire(job'), {}), \A t \in Tasks : Orderly(job'[t], objs')
  PROVE  Remembered'
BY DEF Remembered, Recalled, Wire, Orderly, EachOnce, Distinct, AtHand, Shown, OnWire

\* A call whose statement and work are the same, for instances with the same keys.
LEMMA OrderlyStays ==
  ASSUME NEW j, NEW os, Orderly(j, os), NEW k, k.stmt = j.stmt, k.todo = j.todo,
         NEW os2, \A x \in Later(j) : os2[x].id = os[x].id
  PROVE  Orderly(k, os2)
<1> SUFFICES ASSUME NEW i \in DOMAIN j.todo PROVE Distinct(j.todo[i], os2)
  BY DEF Orderly
<1>1. \A x \in ToSet(j.todo[i].os) : os2[x].id = os[x].id
  BY DEF Later
<1> QED BY <1>1, DistinctStays DEF Orderly

\* A task without a call is orderly.
LEMMA IdleOrderly ==
  ASSUME NEW os
  PROVE  Orderly(Idle, os)
BY DEF Orderly, Idle, EachOnce

\* The column is as it was, and unread if it was.
LEMMA AtHandSame ==
  ASSUME NEW rs, NEW W, NEW rd, NEW a, NEW o, NEW c, AtHand(rs, W, rd, a, o, c), NEW V, W \subseteq V,
         NEW b, b.id = a.id, b[c] = a[c], c = "state" => b.state = a.state /\ (a.marks => b.marks)
  PROVE  AtHand(rs, V, rd, b, o, c)
BY DEF AtHand, Shown

\* The statement of a call is not at an instance the call does not use.
LEMMA OffWire ==
  ASSUME NEW t \in Tasks, NEW o, o \notin UsedBy(job[t].stmt),
         NEW rs, NEW rd, NEW ob, NEW c, AtHand(rs, Wire(job), rd, ob, o, c)
  PROVE  AtHand(rs, WireBut(job, t), rd, ob, o, c) /\ ~OnWire(job[t].stmt, o, c)
<1>1. ~OnWire(job[t].stmt, o, c)
  BY DEF OnWire, UsedBy
<1> QED BY <1>1 DEF AtHand, Wire, WireBut

\* What was true of an answer is true after the next statement, or the end of the call.
LEMMA ProceedRemembers ==
  ASSUME Inv, Remembered, NEW t \in Tasks, Proceed(t)
  PROVE  Remembered'
<1> DEFINE j == job[t]
<1>1. PICK T, U, e, pick, r, js : Proceeds(T, U, t, e, pick, r, js)
  BY ProceedIs
<1>2. /\ \A u \in Tasks \ {t} : job'[u] = js[u]
      /\ Takes(t, j, r.objs, r.todo, r.results)
      /\ World(U, e.rows, e.serial, objs', job', spoilt, lost, {}) /\ Len(objs') = Len(r.objs)
  BY <1>1, ProceedsNext
<1>3. /\ Answering(T, U, t, e, pick, r, js)
      /\ World(T, rows, serial, objs, job, spoilt, lost, {}) /\ rows' = e.rows /\ spoilt' = spoilt
      /\ \A u \in Tasks \ {t} : Alike2(job[u], js[u])
  BY <1>1 DEF Proceeds, Answering
<1>4. Shifted(U, e, t, r.objs) /\ JobOK(j, Len(objs))
  BY <1>1, ProceedsGoes
<1>5. PICK rd : Moved(U, e, t, r.objs, rd)
  BY <1>4 DEF Shifted
<1>6. DOMAIN objs = 1 .. Len(objs) /\ DOMAIN r.objs = 1 .. Len(r.objs) /\ DOMAIN objs \subseteq DOMAIN r.objs
      /\ Len(objs) \in Nat /\ Len(r.objs) \in Nat /\ ObjsOK(r.objs) /\ decl \in Declarations
      /\ \A x \in DOMAIN objs : x \notin UsedBy(j.stmt) => Same(objs[x], r.objs[x])
  BY <1>3, <1>5 DEF World, Base, ObjsOK, Moved
<1>7. JobOK(job'[t], Len(r.objs))
  BY <1>2 DEF World
<1>8. Shaped(j) /\ j.now \in Stamps
  BY <1>4 DEF JobOK, Shaped
<1> HIDE DEF j
<1>9. /\ Recalled(clean', spoilt, e.rows, objs', WireBut(job, t) \cup {job'[t].stmt}, {})
      /\ Orderly(job'[t], objs')
  <2>1. Recalled(clean', spoilt, e.rows, r.objs, WireBut(job, t), Coming(r.todo))
    BY <1>1, RecalledAnswer
  <2>2. NextFits(r.todo, r.objs)
    BY <1>1, ProceedsFits
  <2>3. \A o \in Coming(r.todo) : Follows(r.todo, o)
    BY DEF Coming
  <2>4. Takes(t, j, r.objs, r.todo, r.results) /\ ObjsOK(r.objs) /\ decl \in Declarations
    BY <1>2, <1>6
  <2> DEFINE W == WireBut(job, t)
             rd2 == Coming(r.todo)
             cl == clean'
  <2> HIDE DEF W, rd2, cl
  <2>5. Recalled(cl, spoilt, e.rows, r.objs, W, rd2) /\ \A o \in rd2 : Follows(r.todo, o)
    BY <2>1, <2>3 DEF W, rd2, cl
  <2>6. Recalled(cl, spoilt, e.rows, objs', W \cup {job'[t].stmt}, {}) /\ Orderly(job'[t], objs')
    BY <1>7, <1>8, <2>2, <2>4, <2>5, RecalledNext
  <2> QED BY <2>6 DEF W, cl
<1>10. \A u \in Tasks \ {t} : job'[u].stmt = job[u].stmt /\ job'[u].todo = job[u].todo /\ JobOK(job[u], Len(objs))
  <2> SUFFICES ASSUME NEW u \in Tasks \ {t}
               PROVE  job'[u].stmt = job[u].stmt /\ job'[u].todo = job[u].todo /\ JobOK(job[u], Len(objs))
    OBVIOUS
  <2>1. JobOK(job[u], Len(objs)) /\ Alike2(job[u], job'[u])
    BY <1>2, <1>3 DEF World
  <2> QED BY <2>1, AlikeKeeps
<1>11. Wire(job') = WireBut(job, t) \cup {job'[t].stmt}
  <2>1. Wire(job') = {job'[u].stmt : u \in Tasks \ {t}} \cup {job'[t].stmt}
    BY DEF Wire
  <2> QED BY <1>10, <2>1 DEF WireBut
<1>12. \A x \in DOMAIN r.objs : objs'[x].id = r.objs[x].id
  <2>1. CASE r.todo = <<>>
    BY <1>2, <2>1 DEF Takes
  <2>2. CASE r.todo # <<>>
    BY <1>2, <2>2 DEF Takes, Bound, Stamped
  <2> QED BY <2>1, <2>2
<1>13. ASSUME NEW u \in Tasks \ {t} PROVE Orderly(job'[u], objs')
  <2>1. \A x \in Later(job[u]) : x \in DOMAIN objs /\ x \notin UsedBy(j.stmt)
    <3>1. Apart(job[u], j, spoilt) /\ Later(job[u]) \subseteq Made(job[u])
      BY <1>3 DEF World, JobInv, JobOwn, j
    <3>2. Made(job[u]) \subseteq 1 .. Len(objs)
      BY <1>3, OthersOld
    <3> QED BY <1>6, <3>1, <3>2 DEF Apart, Busied
  <2>2. \A x \in Later(job[u]) : objs'[x].id = objs[x].id
    BY <1>6, <1>12, <2>1 DEF Same
  <2>3. Orderly(job[u], objs)
    BY DEF Remembered
  <2> QED BY <1>10, <2>2, <2>3, OrderlyStays
<1> QED BY <1>3, <1>9, <1>11, <1>13, RememberedNext

\* Once a call has sent its first statement, the others are as they were.
LEMMA CallRemembers ==
  ASSUME Inv, Remembered, NEW t \in Tasks, Call(t)
  PROVE  Remembered'
<1>1. PICK T : World(T, rows, serial, objs, job, spoilt, lost, {})
  BY DEF Inv
<1>2. job[t] = Idle /\ calls < MaxCalls
  BY DEF Call
<1>3. PICK op, used, os, it, records, results :
        /\ Begin(t, op, used, os, <<it>>, records, results) /\ Changed(os, {})
        /\ FirstItem(it, used, os, op, records, results)
  BY CallStarts DEF Starts
<1> DEFINE c == calls + 1
           j == [Idle EXCEPT !.op = op, !.now = c, !.records = records]
           b == Bind(it, os, c)
           k == Turning(j, <<>>, b.stmt, results)
<1>4. /\ used \subseteq Usable /\ Continue(job, t, j, os, <<it>>, results)
      /\ rows' = rows /\ decl' = decl /\ spoilt' = spoilt \cup (used \cap Busy)
      /\ clean' = [o \in DOMAIN os |-> IF o \in Objs THEN Forget(clean, used \cap Busy)[o] ELSE {}]
  BY <1>3 DEF Begin
<1>5. /\ c \in Stamps /\ decl \in Declarations /\ ObjsOK(os) /\ ObjsOK(objs) /\ Len(objs) <= Len(os)
      /\ DOMAIN job = Tasks /\ spoilt \subseteq 1 .. Len(objs)
  <2>1. calls \in Stamps
    BY DEF Inv
  <2>2. c \in Stamps
    BY <1>2, <2>1, PersistenceAssumption DEF Stamps
  <2> QED BY <1>1, <1>3, <2>2 DEF World, Base, Changed
<1>6. j = Started(op, c, records)
  BY DEF Started
<1>7. j.now = c /\ Shaped(j)
  <2> HIDE DEF j, c
  <2>1. Begins(j, op, c, records)
    BY <1>6, StartedIs
  <2> QED BY <2>1 DEF Begins
<1>8. objs' = b.objs /\ job' = [job EXCEPT ![t] = k] /\ <<it>> # <<>> /\ Tail(<<it>>) = <<>> /\ Head(<<it>>) = it
  <2>1. <<it>> # <<>> /\ Tail(<<it>>) = <<>> /\ Head(<<it>>) = it
    OBVIOUS
  <2> HIDE DEF j, c
  <2> QED BY <1>4, <1>7, <2>1 DEF Continue, Turning
<1> HIDE DEF j
<1>9. Bound(b, it, os)
  <2> HIDE DEF c
  <2> QED BY <1>3, <1>5, BindOK DEF FirstItem
<1>10. job'[t] = k /\ \A u \in Tasks \ {t} : job'[u] = job[u]
  <2> HIDE DEF b
  <2> QED BY <1>5, <1>8
<1>11. Takes(t, j, os, <<it>>, results)
  <2> HIDE DEF c
  <2>1. b = Bind(it, os, j.now)
    BY <1>7
  <2> HIDE DEF b
  <2> QED BY <1>8, <1>9, <1>10, <2>1 DEF Takes
<1>12. NextFits(<<it>>, os)
  BY <1>3, <1>8 DEF NextFits, FirstItem, Distinct
<1>13. JobOK(job'[t], Len(os))
  <2>1. PICK U : World(U, rows', serial', objs', job', spoilt', lost', {})
    BY CallStep DEF Onward
  <2>2. Len(objs') = Len(os)
    <3> HIDE DEF b
    <3> QED BY <1>8, <1>9 DEF Bound
  <2>3. JobOK(job'[t], Len(objs'))
    BY <2>1 DEF World
  <2> QED BY <2>2, <2>3
<1> HIDE DEF k, b, c
<1>14. DOMAIN objs = 1 .. Len(objs) /\ DOMAIN os = 1 .. Len(os) /\ DOMAIN objs \subseteq DOMAIN os
       /\ \A x \in DOMAIN objs : Same(objs[x], os[x])
  BY <1>3, <1>5 DEF ObjsOK, Changed
<1>15. Recalled(clean', spoilt', rows, os, WireBut(job, t), {})
  <2> SUFFICES ASSUME NEW o \in DOMAIN os
               PROVE  /\ clean'[o] \subseteq Columns /\ (o \in spoilt' => clean'[o] = {})
                      /\ os[o].in_db => \A d \in clean'[o] : AtHand(rows, WireBut(job, t), {}, os[o], o, d)
    BY DEF Recalled
  <2>1. CASE o \notin Objs
    BY <1>4, <2>1
  <2>2. CASE o \in Objs
    <3>1. clean'[o] = IF o \in used \cap Busy THEN {} ELSE clean[o]
      <4>1. DOMAIN clean = Objs
        BY <1>14 DEF Inv, Objs
      <4> QED BY <1>4, <2>2, <4>1 DEF Forget
    <3>2. /\ clean[o] \subseteq Columns /\ (o \in spoilt => clean[o] = {})
          /\ objs[o].in_db => \A d \in clean[o] : AtHand(rows, Wire(job), {}, objs[o], o, d)
      BY <2>2 DEF Remembered, Recalled, Objs
    <3>3. Same(objs[o], os[o])
      BY <1>14, <2>2 DEF Objs
    <3>4. o \notin UsedBy(job[t].stmt)
      BY <1>2 DEF Idle, UsedBy
    <3>5. ASSUME os[o].in_db, NEW d \in clean'[o] PROVE AtHand(rows, WireBut(job, t), {}, os[o], o, d)
      <4>1. d \in Columns /\ AtHand(rows, WireBut(job, t), {}, objs[o], o, d)
        BY <3>1, <3>2, <3>3, <3>4, <3>5, OffWire DEF Same
      <4> QED BY <3>3, <4>1, AtHandStays DEF Same
    <3> QED BY <1>4, <3>1, <3>2, <3>5
  <2> QED BY <2>1, <2>2
<1>16. Recalled(clean', spoilt', rows, objs', WireBut(job, t) \cup {job'[t].stmt}, {}) /\ Orderly(job'[t], objs')
  <2> DEFINE W == WireBut(job, t)
             cl == clean'
             sp == spoilt'
             todo == <<it>>
             rd == {}
  <2> HIDE DEF W, cl, sp, todo, rd
  <2>1. Recalled(cl, sp, rows, os, W, rd) /\ Shaped(j) /\ j.now \in Stamps /\ \A o \in rd : Follows(todo, o)
    BY <1>5, <1>7, <1>15 DEF W, cl, sp, rd
  <2>2. Takes(t, j, os, todo, results) /\ NextFits(todo, os)
    BY <1>11, <1>12 DEF todo
  <2>3. Recalled(cl, sp, rows, objs', W \cup {job'[t].stmt}, {}) /\ Orderly(job'[t], objs')
    BY <1>5, <1>13, <2>1, <2>2, RecalledNext
  <2> QED BY <2>3 DEF W, cl, sp
<1>17. Wire(job') = WireBut(job, t) \cup {job'[t].stmt}
  BY <1>10 DEF Wire, WireBut
<1>18. ASSUME NEW u \in Tasks \ {t} PROVE Orderly(job'[u], objs')
  <2>1. \A x \in Later(job[u]) : x \in DOMAIN objs
    <3>1. JobInv(T, serial, objs, spoilt, lost, job[u]) /\ Made(job[u]) \subseteq 1 .. Len(objs)
      BY <1>1, OthersOld DEF World
    <3> QED BY <1>14, <3>1 DEF JobInv, JobOwn
  <2>2. \A x \in DOMAIN objs : objs'[x].id = objs[x].id
    BY <1>8, <1>9, <1>14 DEF Bound, Stamped, Same
  <2>3. Orderly(job[u], objs) /\ job'[u] = job[u]
    BY <1>10 DEF Remembered
  <2> QED BY <2>1, <2>2, <2>3, OrderlyStays
<1> QED BY <1>4, <1>16, <1>17, <1>18, RememberedNext

\* The work of a call is for instances there are.
LEMMA LaterOld ==
  ASSUME Inv, NEW u \in Tasks
  PROVE  Later(job[u]) \subseteq DOMAIN objs
<1>1. PICK T : World(T, rows, serial, objs, job, spoilt, lost, {})
  BY DEF Inv
<1>2. JobInv(T, serial, objs, spoilt, lost, job[u]) /\ Made(job[u]) \subseteq 1 .. Len(objs) /\ ObjsOK(objs)
  BY <1>1, OthersOld DEF World, Base
<1> QED BY <1>2 DEF JobInv, JobOwn, ObjsOK

\* What an attribute written leaves of an instance.
Writes(a, b, col) ==
  /\ b.in_db = a.in_db /\ b.id = a.id
  /\ \A c \in Columns \ {col} : b[c] = a[c]
  /\ col # "state" => b.marks = a.marks

\* A column that is written no longer counts as stored.
LEMMA WriteRemembers ==
  ASSUME Inv, Remembered, NEW o \in Usable, NEW ob, NEW col \in Columns, Write(o, ob, col), Writes(objs[o], ob, col)
  PROVE  Remembered'
<1>1. /\ objs' = [objs EXCEPT ![o] = ob] /\ job' = job /\ rows' = rows
      /\ spoilt' = (IF o \in Busy THEN spoilt \cup {o} ELSE spoilt)
      /\ clean' = [clean EXCEPT ![o] = IF o \in Busy THEN {} ELSE @ \ {col}]
  BY DEF Write
<1>2. DOMAIN clean = DOMAIN objs /\ o \in DOMAIN objs
  <2>1. ObjsOK(objs) /\ clean \in Seq(SUBSET Columns) /\ Len(clean) = Len(objs)
    BY DEF Inv, World, Base
  <2> QED BY <2>1 DEF ObjsOK, Usable, Objs
<1>3. Recalled(clean', spoilt', rows', objs', Wire(job'), {})
  <2> SUFFICES ASSUME NEW x \in DOMAIN objs
               PROVE  /\ clean'[x] \subseteq Columns /\ (x \in spoilt' => clean'[x] = {})
                      /\ objs'[x].in_db => \A c \in clean'[x] : AtHand(rows, Wire(job), {}, objs'[x], x, c)
    BY <1>1 DEF Recalled
  <2>1. /\ clean[x] \subseteq Columns /\ (x \in spoilt => clean[x] = {})
        /\ objs[x].in_db => \A c \in clean[x] : AtHand(rows, Wire(job), {}, objs[x], x, c)
    BY DEF Remembered, Recalled
  <2>2. CASE x # o
    BY <1>1, <2>1, <2>2
  <2>3. CASE x = o /\ o \in Busy
    BY <1>1, <1>2, <2>3
  <2>4. CASE x = o /\ o \notin Busy
    <3>1. clean'[x] = clean[x] \ {col} /\ spoilt' = spoilt /\ objs'[x] = ob
      BY <1>1, <1>2, <2>4
    <3>2. ASSUME ob.in_db, NEW c \in clean'[x] PROVE AtHand(rows, Wire(job), {}, ob, x, c)
      <4>1. c \in Columns /\ c # col /\ AtHand(rows, Wire(job), {}, objs[x], x, c)
        BY <2>1, <2>4, <3>1, <3>2 DEF Writes
      <4>2. ob.id = objs[x].id /\ ob[c] = objs[x][c]
        BY <2>4, <4>1 DEF Writes
      <4>3. c = "state" => ob.state = objs[x].state /\ (objs[x].marks => ob.marks)
        BY <2>4, <4>1, <4>2 DEF Writes
      <4> QED BY <4>1, <4>2, <4>3, AtHandSame
    <3> QED BY <2>1, <3>1, <3>2
  <2> QED BY <2>2, <2>3, <2>4
<1>4. ASSUME NEW u \in Tasks PROVE Orderly(job'[u], objs')
  <2>1. \A x \in Later(job[u]) : objs'[x].id = objs[x].id
    BY <1>1, LaterOld DEF Writes
  <2>2. Orderly(job[u], objs)
    BY DEF Remembered
  <2>3. job'[u].stmt = job[u].stmt /\ job'[u].todo = job[u].todo
    BY <1>1
  <2> QED BY <2>1, <2>2, <2>3, OrderlyStays
<1> QED BY <1>3, <1>4, RememberedNext

\* Whichever attribute it is.
LEMMA AttributeRemembers ==
  ASSUME Inv, Remembered, WriteAttribute
  PROVE  Remembered'
<1>1. \A o \in Usable : objs[o] \in Instance
  BY DEF Inv, World, Base, ObjsOK, Usable, Objs
<1>2. ASSUME NEW o \in Usable, NEW v PROVE Writes(objs[o], SetAttr(objs[o], "state", v), "state")
  BY <1>1 DEF Writes, SetAttr, Instance, Columns
<1>3. ASSUME NEW o \in Usable, NEW v PROVE Writes(objs[o], SetAttr(objs[o], "author", v), "author")
  BY <1>1 DEF Writes, SetAttr, Instance, Columns
<1>4. ASSUME NEW o \in Usable, NEW v, NEW is PROVE Writes(objs[o], SetRelation(objs[o], v, is), "author")
  BY <1>1 DEF Writes, SetRelation, Instance, Columns
<1>5. "state" \in Columns /\ "author" \in Columns
  BY DEF Columns
<1> QED BY <1>2, <1>3, <1>4, <1>5, WriteRemembers DEF WriteAttribute

\* A copy is not stored.
LEMMA CopyRemembers ==
  ASSUME Inv, Remembered, Copy
  PROVE  Remembered'
<1>1. PICK o \in Usable : /\ objs' = Append(objs, Clone(objs[o])) /\ clean' = Append(clean, {})
                          /\ job' = job /\ rows' = rows /\ spoilt' = spoilt
  BY DEF Copy
<1>2. ObjsOK(objs) /\ clean \in Seq(SUBSET Columns) /\ Len(clean) = Len(objs) /\ spoilt \subseteq 1 .. Len(objs)
  BY DEF Inv, World, Base
<1>3. Clone(objs[o]) \in Instance /\ ~Clone(objs[o]).in_db
  BY <1>2, CloneOK DEF ObjsOK, Usable, Objs
<1>4. /\ DOMAIN objs' = DOMAIN objs \cup {Len(objs) + 1} /\ (\A x \in DOMAIN objs : objs'[x] = objs[x])
      /\ ~objs'[Len(objs) + 1].in_db /\ Len(objs) + 1 \notin spoilt
      /\ (\A x \in DOMAIN objs : clean'[x] = clean[x]) /\ clean'[Len(objs) + 1] = {}
  <2>1. objs \in Seq(Instance) /\ Len(objs) \in Nat /\ Len(clean) = Len(objs)
    BY <1>2 DEF ObjsOK
  <2> QED BY <1>1, <1>2, <1>3, <2>1
<1>5. Recalled(clean', spoilt', rows', objs', Wire(job'), {})
  <2>1. Recalled(clean, spoilt, rows, objs, Wire(job), {})
    BY DEF Remembered
  <2> QED BY <1>1, <1>4, <2>1 DEF Recalled
<1>6. ASSUME NEW u \in Tasks PROVE Orderly(job'[u], objs')
  <2>1. \A x \in Later(job[u]) : objs'[x].id = objs[x].id
    BY <1>4, LaterOld
  <2>2. Orderly(job[u], objs)
    BY DEF Remembered
  <2>3. job'[u].stmt = job[u].stmt /\ job'[u].todo = job[u].todo
    BY <1>1
  <2> QED BY <2>1, <2>2, <2>3, OrderlyStays
<1> QED BY <1>5, <1>6, RememberedNext

\* After a call that raised, nothing is known of the instances its statement used.
LEMMA FailRemembers ==
  ASSUME Inv, Remembered, NEW t \in Tasks, Fail(t)
  PROVE  Remembered'
<1> DEFINE s == job[t].stmt
<1>1. /\ job' = [job EXCEPT ![t] = Idle] /\ objs' = objs /\ rows' = rows
      /\ spoilt' = spoilt \cup UsedBy(s) /\ clean' = Forget(clean, UsedBy(s))
  BY DEF Fail, Raised
<1>2. DOMAIN clean = DOMAIN objs /\ DOMAIN job = Tasks
  <2>1. ObjsOK(objs) /\ clean \in Seq(SUBSET Columns) /\ Len(clean) = Len(objs) /\ DOMAIN job = Tasks
    BY DEF Inv, World, Base
  <2> QED BY <2>1 DEF ObjsOK
<1> HIDE DEF s
<1>3. Recalled(clean', spoilt', rows', objs', Wire(job'), {})
  <2> SUFFICES ASSUME NEW x \in DOMAIN objs
               PROVE  /\ clean'[x] \subseteq Columns /\ (x \in spoilt' => clean'[x] = {})
                      /\ objs[x].in_db => \A c \in clean'[x] : AtHand(rows, Wire(job'), {}, objs[x], x, c)
    BY <1>1 DEF Recalled
  <2>1. /\ clean[x] \subseteq Columns /\ (x \in spoilt => clean[x] = {})
        /\ objs[x].in_db => \A c \in clean[x] : AtHand(rows, Wire(job), {}, objs[x], x, c)
    BY DEF Remembered, Recalled
  <2>2. CASE x \in UsedBy(s)
    BY <1>1, <1>2, <2>2 DEF Forget
  <2>3. CASE x \notin UsedBy(s)
    <3>1. clean'[x] = clean[x]
      BY <1>1, <1>2, <2>3 DEF Forget
    <3>2. WireBut(job, t) \subseteq Wire(job')
      BY <1>1, <1>2 DEF WireBut, Wire
    <3>3. ASSUME objs[x].in_db, NEW c \in clean[x] PROVE AtHand(rows, Wire(job'), {}, objs[x], x, c)
      <4>1. AtHand(rows, WireBut(job, t), {}, objs[x], x, c)
        BY <2>1, <2>3, <3>3, OffWire DEF s
      <4> QED BY <3>2, <4>1 DEF AtHand
    <3> QED BY <1>1, <2>1, <2>3, <3>1, <3>3
  <2> QED BY <2>2, <2>3
<1>4. ASSUME NEW u \in Tasks PROVE Orderly(job'[u], objs')
  BY <1>1, <1>2, IdleOrderly DEF Remembered
<1> QED BY <1>3, <1>4, RememberedNext

\* Nor of one that was cancelled.
LEMMA CancelRemembers ==
  ASSUME Inv, Remembered, NEW t \in Tasks, Cancel(t)
  PROVE  Remembered'
<1> DEFINE s == job[t].stmt
           sNone == [s EXCEPT !.os = <<>>]
<1>1. PICK T : World(T, rows, serial, objs, job, spoilt, lost, {})
  BY DEF Inv
<1>2. PICK e : /\ rows' = e.rows /\ job' = [Witnessed(job, t, e.rows # rows) EXCEPT ![t] = Idle]
               /\ spoilt' = spoilt \cup UsedBy(s) /\ objs' = objs
               /\ clean' = [o \in Objs |-> IF o \in spoilt' THEN {} ELSE Known(o, sNone, e, objs)]
  BY DEF Cancel
<1>3. /\ DOMAIN job = Tasks /\ JobOK(job[t], Len(objs)) /\ ObjsOK(objs) /\ job[t] # Idle /\ s.kind # "none"
      /\ clean \in Seq(SUBSET Columns) /\ Len(clean) = Len(objs)
  BY <1>1 DEF World, Base, Inv, Settled, Cancel
<1> DEFINE js == Witnessed(job, t, e.rows # rows)
<1>4. /\ DOMAIN js = Tasks /\ job'[t] = Idle /\ \A u \in Tasks \ {t} : job'[u] = js[u] /\ Alike2(job[u], js[u])
  <2>1. DOMAIN js = Tasks /\ \A u \in Tasks \ {t} : Alike2(job[u], js[u])
    <3>1. Settled(job) /\ (e.rows # rows) \in BOOLEAN
      BY DEF Inv
    <3> QED BY <1>1, <3>1, WitnessedIs
  <2> HIDE DEF js
  <2>2. job' = [js EXCEPT ![t] = Idle]
    BY <1>2 DEF js
  <2> QED BY <2>1, <2>2
<1> HIDE DEF js
<1>5. \A u \in Tasks \ {t} : job'[u].stmt = job[u].stmt /\ job'[u].todo = job[u].todo
  <2> SUFFICES ASSUME NEW u \in Tasks \ {t} PROVE job'[u].stmt = job[u].stmt /\ job'[u].todo = job[u].todo
    OBVIOUS
  <2>1. JobOK(job[u], Len(objs)) /\ Alike2(job[u], job'[u])
    BY <1>1, <1>4 DEF World
  <2> QED BY <2>1, AlikeKeeps
<1>6. sNone.os = <<>>
  BY <1>3 DEF JobOK, StmtOK
<1>7. Recalled(clean', spoilt', rows', objs', Wire(job'), {})
  <2> SUFFICES ASSUME NEW x \in DOMAIN objs
               PROVE  /\ clean'[x] \subseteq Columns /\ (x \in spoilt' => clean'[x] = {})
                      /\ objs[x].in_db => \A c \in clean'[x] : AtHand(e.rows, Wire(job'), {}, objs[x], x, c)
    BY <1>2 DEF Recalled
  <2>1. clean'[x] = IF x \in spoilt' THEN {} ELSE Known(x, sNone, e, objs)
    BY <1>2 DEF Objs
  <2>2. CASE x \in spoilt'
    BY <2>1, <2>2
  <2>3. CASE x \notin spoilt'
    <3>1. clean'[x] = Known(x, sNone, e, objs) /\ x \notin UsedBy(s)
      BY <1>2, <2>1, <2>3
    <3>2. Known(x, sNone, e, objs) \in SUBSET Columns
      BY <1>3, KnownCols
    <3>3. WireBut(job, t) \subseteq Wire(job')
      BY <1>5 DEF WireBut, Wire
    <3>4. ~(x \in ToSet(sNone.os) /\ sNone.kind \in {"insert", "reload", "update"})
      <4>1. x \notin ToSet(<<>>)
        BY DEF ToSet
      <4> QED BY <1>6, <4>1
    <3>5. ASSUME objs[x].in_db, NEW c \in Known(x, sNone, e, objs) PROVE AtHand(e.rows, Wire(job'), {}, objs[x], x, c)
      <4> HIDE DEF sNone
      <4>1. ~OnWire(s, x, c)
        BY <3>1 DEF OnWire, UsedBy
      <4>2. AtHand(e.rows, WireBut(job, t), {}, objs[x], x, c)
        BY <3>4, <3>5, <4>1, KnownElse DEF Objs
      <4> QED BY <3>3, <4>2 DEF AtHand
    <3> QED BY <2>3, <3>1, <3>2, <3>5
  <2> QED BY <2>2, <2>3
<1>8. ASSUME NEW u \in Tasks PROVE Orderly(job'[u], objs')
  <2>1. CASE u = t
    BY <1>4, <2>1, IdleOrderly
  <2>2. CASE u # t
    <3>1. Orderly(job[u], objs) /\ \A x \in Later(job[u]) : objs'[x].id = objs[x].id
      BY <1>2 DEF Remembered
    <3>2. job'[u].stmt = job[u].stmt /\ job'[u].todo = job[u].todo
      BY <1>5, <2>2
    <3> QED BY <3>1, <3>2, OrderlyStays
  <2> QED BY <2>1, <2>2
<1> QED BY <1>7, <1>8, RememberedNext

\* Nothing is stored yet.
LEMMA InitRemembers ==
  ASSUME Init
  PROVE  Remembered
<1>1. objs = <<>> /\ \A t \in Tasks : job[t] = Idle
  BY DEF Init
<1> QED BY <1>1, IdleOrderly DEF Remembered, Recalled

\* Every step keeps what counts as stored.
LEMMA StepRemembers ==
  ASSUME Inv, Remembered, [Next]_vars
  PROVE  Remembered'
<1>1. CASE UNCHANGED vars
  <2>1. Recalled(clean, spoilt, rows, objs, Wire(job), {}) /\ \A t \in Tasks : Orderly(job[t], objs)
    BY DEF Remembered
  <2>2. clean' = clean /\ spoilt' = spoilt /\ rows' = rows /\ objs' = objs /\ job' = job
    BY <1>1 DEF vars
  <2>3. Wire(job') = Wire(job)
    BY <2>2
  <2>4. Recalled(clean', spoilt', rows', objs', Wire(job'), {})
    BY <2>1, <2>2, <2>3
  <2>5. \A t \in Tasks : Orderly(job'[t], objs')
    BY <2>1, <2>2
  <2> QED BY <2>4, <2>5, RememberedNext
<1>2. CASE Next
  BY <1>2, ProceedRemembers, CallRemembers, FailRemembers, CancelRemembers, AttributeRemembers, CopyRemembers
  DEF Next
<1> QED BY <1>1, <1>2

\* An instance nobody is using has no statement at it.
LEMMA RememberedStored ==
  ASSUME Remembered
  PROVE  MemoryIsStored
<1> SUFFICES ASSUME NEW o \in Objs \ Busy, objs[o].in_db, NEW c \in clean[o]
             PROVE  /\ objs[o].id \in DOMAIN rows
                    /\ \/ objs[o][c] = rows[objs[o].id][c]
                       \/ c = "state" /\ objs[o].state = None /\ objs[o].marks
  BY DEF MemoryIsStored
<1>1. AtHand(rows, Wire(job), {}, objs[o], o, c)
  BY DEF Remembered, Recalled, Objs
<1>2. \A s \in Wire(job) : ~OnWire(s, o, c)
  BY DEF Wire, OnWire, Busy, UsedBy
<1> QED BY <1>1, <1>2 DEF AtHand, Shown

\* An instance that is not in use shows what the table has in every column that was stored
\* or read since it was last written to, or has it marked as unread: no column is stamped
\* or dropped in memory alone (models.py:1213-1236, 1345-1357).
THEOREM StoredIsShown == Spec => []MemoryIsStored
<1>1. Init => Remembered
  BY InitRemembers
<1>2. Inv /\ Remembered /\ [Next]_vars => Remembered'
  BY StepRemembers
<1>3. Remembered => MemoryIsStored
  BY RememberedStored
<1> QED BY <1>1, <1>2, <1>3, Invariant, PTL DEF Spec

-----------------------------------------------------------------------------
(* What a bulk call will report. *)

\* The instances reported as created.
Created(w) == {w.results[i].o : i \in {k \in DOMAIN w.results : w.results[k].created}}

\* The row o carries the key of was inserted by o, or inserted again by another instance
\* that carries the key; only a chosen key can have gone to an upsert.
Originated(o, os, rs, sp) ==
  os[o].in_db /\ os[o].id \in DOMAIN rs =>
    LET y == rs[os[o].id].by
    IN y = o \/ y \in sp \/ os[y].id = os[o].id \/ (os[o].id = OwnId /\ decl.unique)

\* Two records have one result if they have one key, and then it was made but once.
Paired(records, results) ==
  /\ DOMAIN records = {1, 2} /\ DOMAIN results = {1, 2}
  /\ results[1].o = results[2].o <=> records[1].key = records[2].key
  /\ records[1].key = records[2].key => ~results[2].created

\* The results are those of the records; what was not created had a row of another.
Told(records, w, os, rs, sp) ==
  /\ Paired(records, w.results)
  /\ \A i \in {1, 2} : os[w.results[i].o].key = records[i].key
  /\ \A o \in Created(w) : Originated(o, os, rs, sp)
  /\ \A o \in Made(w) \ Created(w) : os[o].in_db /\ \A p \in DOMAIN rs : rs[p].by # o

\* The instances an INSERT is still to be sent for, and those of the one that was sent.
ToInsert(todo, o) == \E i \in DOMAIN todo : todo[i].do = "insert" /\ o \in ToSet(todo[i].os)

Sending(s, o) == s.kind = "insert" /\ o \in ToSet(s.os)

\* After its SELECT a bulk call knows its report, and what is not stored it will insert.
Tells(j, os, rs, sp) ==
  j.op \in Bulks =>
    /\ j.stmt.kind \in Sent
    /\ j.stmt.kind # "find" =>
         /\ Told(j.records, j, os, rs, sp)
         /\ \A o \in Made(j) : os[o].in_db \/ Sending(j.stmt, o) \/ ToInsert(j.todo, o)

AllTell(js, os, rs, sp) == \A u \in Tasks : Tells(js[u], os, rs, sp)

Telling == AllTell(job, objs, rows, spoilt)

\* An instance gets the row it has inserted.
Stores(x, a, b, rs) == ~a.in_db /\ b.in_db /\ b.key = a.key /\ b.id \in DOMAIN rs /\ rs[b.id].by = x

\* Instances keep the keys they carry, and rows who inserted them; a new row is of an
\* instance that carries its key, or none of M does.
Carries(M, os, rs, os2, rs2, sp2) ==
  /\ \A x \in M : Steps(os[x], os2[x]) \/ Stores(x, os[x], os2[x], rs2)
  /\ \A x \in DOMAIN os \ sp2 : os[x].id # None => os2[x].id = os[x].id
  /\ \A p \in DOMAIN rs2 \cap DOMAIN rs : rs2[p].by = rs[p].by
  /\ \A p \in DOMAIN rs2 \ DOMAIN rs :
       /\ rs2[p].by \in M => ~os[rs2[p].by].in_db
       /\ \/ rs2[p].by \in sp2 \/ os2[rs2[p].by].id = p \/ (p = OwnId /\ decl.unique)
          \/ \A x \in M : os2[x].id # p

\* The instances and rows a call may speak of.
Placed(w, os, rs) == Made(w) \subseteq DOMAIN os /\ \A p \in DOMAIN rs : p # None /\ rs[p].by \in DOMAIN os

\* What a call made is what its results name.
LEMMA MadeIs ==
  ASSUME NEW w, NEW i \in DOMAIN w.results
  PROVE  w.results[i].o \in Made(w) /\ Created(w) \subseteq Made(w)
  BY DEF Made, Created, ToSet

\* What a call is going to report stays true.
LEMMA ToldStays ==
  ASSUME NEW records, NEW w, NEW os, NEW rs, NEW sp, Told(records, w, os, rs, sp), Placed(w, os, rs),
         NEW os2, NEW rs2, NEW sp2, sp \subseteq sp2, Carries(Made(w), os, rs, os2, rs2, sp2)
  PROVE  Told(records, w, os2, rs2, sp2)
<1>1. Paired(records, w.results) /\ DOMAIN w.results = {1, 2}
  BY DEF Told, Paired
<1>2. Created(w) \subseteq Made(w) /\ \A i \in {1, 2} : w.results[i].o \in Made(w)
  BY <1>1, MadeIs
<1>3. \A x \in Made(w) : Steps(os[x], os2[x]) \/ Stores(x, os[x], os2[x], rs2)
  BY DEF Carries
<1>4. \A i \in {1, 2} : os2[w.results[i].o].key = records[i].key
  BY <1>2, <1>3 DEF Told, Steps, Stores
<1>5. ASSUME NEW o \in Created(w) PROVE Originated(o, os2, rs2, sp2)
  <2> DEFINE p == os2[o].id
             y == rs2[p].by
  <2> SUFFICES ASSUME os2[o].in_db, p \in DOMAIN rs2
               PROVE  y = o \/ y \in sp2 \/ os2[y].id = p \/ (p = OwnId /\ decl.unique)
    BY DEF Originated
  <2>1. CASE Stores(o, os[o], os2[o], rs2)
    BY <2>1 DEF Stores
  <2>2. CASE Steps(os[o], os2[o])
    <3>1. os[o].in_db /\ os[o].id = p
      BY <2>2 DEF Steps
    <3>2. CASE p \in DOMAIN rs
      <4>1. rs[p].by = y /\ y \in DOMAIN os /\ p # None
        BY <3>2 DEF Carries, Placed
      <4>2. y = o \/ y \in sp \/ os[y].id = p \/ (p = OwnId /\ decl.unique)
        BY <3>1, <3>2, <4>1 DEF Told, Originated
      <4> HIDE DEF y, p
      <4> QED BY <4>1, <4>2 DEF Carries
    <3>3. CASE p \notin DOMAIN rs
      <4>1. o \in Made(w) /\ os2[o].id = p
        BY <1>2
      <4> QED BY <3>3, <4>1 DEF Carries
    <3> QED BY <3>2, <3>3
  <2> QED BY <1>2, <1>3, <2>1, <2>2
<1>6. ASSUME NEW o \in Made(w) \ Created(w) PROVE os2[o].in_db /\ \A p \in DOMAIN rs2 : rs2[p].by # o
  <2>1. os[o].in_db /\ \A p \in DOMAIN rs : rs[p].by # o
    BY DEF Told
  <2>2. os2[o].in_db
    BY <1>3, <2>1 DEF Steps, Stores
  <2> QED BY <2>1, <2>2 DEF Carries
<1> QED BY <1>1, <1>4, <1>5, <1>6 DEF Told

\* While a call waits for its answer, what the others do leaves it true.
LEMMA TellsStays ==
  ASSUME NEW j, NEW os, NEW rs, NEW sp, Tells(j, os, rs, sp), Placed(j, os, rs),
         NEW os2, NEW rs2, NEW sp2, sp \subseteq sp2, Carries(Made(j), os, rs, os2, rs2, sp2),
         NEW k, k.op = j.op, k.stmt = j.stmt, k.todo = j.todo, k.results = j.results, k.records = j.records
  PROVE  Tells(k, os2, rs2, sp2)
<1> SUFFICES ASSUME j.op \in Bulks, j.stmt.kind # "find"
             PROVE  /\ Told(j.records, k, os2, rs2, sp2)
                    /\ \A o \in Made(k) : os2[o].in_db \/ Sending(j.stmt, o) \/ ToInsert(j.todo, o)
  BY DEF Tells
<1>1. Made(k) = Made(j) /\ Created(k) = Created(j)
  BY DEF Made, Created
<1>2. Told(j.records, j, os2, rs2, sp2)
  BY ToldStays DEF Tells
<1>3. \A o \in Made(j) : os[o].in_db => os2[o].in_db
  BY DEF Carries, Steps, Stores
<1> QED BY <1>1, <1>2, <1>3 DEF Tells, Told

\* Steps of instances, with the rows as they were.
LEMMA CarriesSteps ==
  ASSUME NEW M, NEW os, NEW rs, NEW os2, NEW sp2, M \subseteq DOMAIN os, \A x \in DOMAIN os : Steps(os[x], os2[x])
  PROVE  Carries(M, os, rs, os2, rs, sp2)
  BY DEF Carries, Steps

\* Calls and rows speak of instances that there are.
LEMMA PlacedIs ==
  ASSUME NEW T, World(T, rows, serial, objs, job, spoilt, lost, {}), NEW u \in Tasks
  PROVE  Placed(job[u], objs, rows) /\ DOMAIN objs = 1 .. Len(objs) /\ Len(objs) \in Nat
<1>1. RowsOK(rows, Len(objs)) /\ ObjsOK(objs) /\ None \notin Nat \cup {OwnId}
  BY PersistenceAssumption DEF World, Base
<1>2. DOMAIN objs = 1 .. Len(objs) /\ Len(objs) \in Nat
  BY <1>1 DEF ObjsOK
<1>3. Made(job[u]) \subseteq 1 .. Len(objs)
  BY OthersOld
<1> QED BY <1>1, <1>2, <1>3 DEF RowsOK, Placed

-----------------------------------------------------------------------------
(* What an answer carries over. *)

\* The row an INSERT added for an instance, and the instance after the answer.
LEMMA InsertCarries ==
  ASSUME NEW T, NEW U, NEW t, NEW e, NEW pick, NEW r, NEW js, Answering(T, U, t, e, pick, r, js),
         job[t].stmt.kind = "insert"
  PROVE  LET s == job[t].stmt IN
         /\ \A o \in UsedBy(s) \ spoilt : /\ Stores(o, objs[o], r.objs[o], e.rows)
                                          /\ objs[o].id # None => r.objs[o].id = objs[o].id
         /\ \A p \in DOMAIN e.rows \ DOMAIN rows : r.objs[e.rows[p].by].id = p
<1> DEFINE s == job[t].stmt
<1>1. InsertOK(s, Len(objs)) /\ Agrees(s, objs, spoilt) /\ e = ExecuteInsert(s.values) /\ e.ok /\ serial \in Nat
      /\ Len(objs) \in Nat
  BY AnsweredIs, ExecuteKinds DEF StmtOK, TableOK
<1>2. InsertTaken(e, t, r)
  BY TakenInsert
<1>3. UsedBy(s) = ToSet(s.os)
  BY DEF UsedBy
<1>4. \A i \in DOMAIN s.os : s.os[i] \in spoilt \/ (~objs[s.os[i]].in_db /\ s.values[i].id = objs[s.os[i]].id)
  BY <1>1 DEF Agrees, Writing, Fits, Gives
<1>5. \A i \in DOMAIN s.os : /\ r.objs[s.os[i]].in_db /\ r.objs[s.os[i]].id = e.ids[i]
                             /\ r.objs[s.os[i]].key = objs[s.os[i]].key
  BY <1>2 DEF InsertTaken, Saved
<1> HIDE DEF s
<1>6. /\ DOMAIN s.values = DOMAIN s.os /\ s.values \in Seq(Value)
      /\ \A i \in DOMAIN s.os : s.values[i].by = s.os[i]
  BY <1>1 DEF InsertOK, BatchOK
<1>7. /\ \A i \in DOMAIN s.values :
           /\ e.ids[i] \in DOMAIN e.rows /\ e.rows[e.ids[i]] = Stored(s.values[i])
           /\ s.values[i].id # None => e.ids[i] = s.values[i].id
      /\ \A p \in DOMAIN e.rows \ DOMAIN rows : \E i \in DOMAIN s.values : e.ids[i] = p
  BY <1>1, <1>6, Inserts
<1>8. \A i \in DOMAIN s.os : e.rows[e.ids[i]].by = s.os[i]
  <2>1. \A v : Stored(v).by = v.by
    BY DEF Stored
  <2> QED BY <1>6, <1>7, <2>1
<1>9. ASSUME NEW o \in UsedBy(s) \ spoilt
      PROVE  /\ Stores(o, objs[o], r.objs[o], e.rows)
             /\ objs[o].id # None => r.objs[o].id = objs[o].id
  <2>1. PICK i \in DOMAIN s.os : s.os[i] = o
    BY <1>3 DEF ToSet
  <2> QED BY <1>4, <1>5, <1>6, <1>7, <1>8, <2>1 DEF Stores
<1>10. ASSUME NEW p \in DOMAIN e.rows \ DOMAIN rows PROVE r.objs[e.rows[p].by].id = p
  <2>1. PICK i \in DOMAIN s.os : e.ids[i] = p
    BY <1>6, <1>7
  <2> QED BY <1>5, <1>8, <2>1
<1> QED BY <1>9, <1>10 DEF s

\* Whatever the answer, an instance that nobody else used keeps a key it carries, and a row
\* that is new is of an instance that carries its key, or its key is new to all or
\* is one that callers choose.
LEMMA AnswerCarries ==
  ASSUME NEW T, NEW U, NEW t, NEW e, NEW pick, NEW r, NEW js, Answering(T, U, t, e, pick, r, js),
         Shifted(U, e, t, r.objs), job[t].stmt.kind # "none"
  PROVE  /\ \A x \in DOMAIN objs \ UsedBy(job[t].stmt) : Steps(objs[x], r.objs[x])
         /\ \A x \in DOMAIN objs \ spoilt : objs[x].id # None => r.objs[x].id = objs[x].id
         /\ \A p \in DOMAIN e.rows \cap DOMAIN rows : e.rows[p].by = rows[p].by
         /\ \A p \in DOMAIN e.rows \ DOMAIN rows :
              /\ e.rows[p].by \in UsedBy(job[t].stmt)
              /\ \/ r.objs[e.rows[p].by].id = p \/ (p = OwnId /\ decl.unique)
                 \/ \A x \in DOMAIN objs : r.objs[x].id # p
<1> DEFINE s == job[t].stmt
<1>1. /\ StmtOK(s, Len(objs)) /\ e = Execute(s) /\ s.kind \in Kinds /\ TableStep(T, e, s) /\ TableOK(rows, serial)
      /\ Base(T, rows, serial, objs, spoilt)
  BY AnsweredIs, AnsweringIs DEF Executed, Asked
<1>2. \A x \in DOMAIN objs \ UsedBy(s) : Steps(objs[x], r.objs[x])
  BY DEF Shifted, Moved, Same, Steps
<1>3. \A p \in DOMAIN e.rows \cap DOMAIN rows : e.rows[p].by = rows[p].by
  BY <1>1 DEF TableStep
<1>4. \A p \in DOMAIN e.rows \ DOMAIN rows : e.rows[p].by \in UsedBy(s) /\ s.kind \in {"insert", "upsert"}
  BY <1>1 DEF TableStep
<1>5. ASSUME NEW x \in DOMAIN objs \ spoilt, objs[x].id # None PROVE r.objs[x].id = objs[x].id
  <2>1. CASE x \notin UsedBy(s)
    BY <1>2, <2>1 DEF Steps
  <2>2. CASE x \in UsedBy(s) /\ s.kind = "insert"
    BY <1>5, <2>2, InsertCarries
  <2>3. CASE s.kind \in {"upsert", "update", "delete", "defaults", "reload", "relation", "prefetch"}
    BY <2>3, TakenPlain DEF PlainTaken
  <2>4. s.kind = "find" => UsedBy(s) = {}
    BY <1>1 DEF StmtOK, UsedBy, ToSet
  <2> HIDE DEF s
  <2> QED BY <1>1, <2>1, <2>2, <2>3, <2>4 DEF Kinds, s
<1>6. ASSUME NEW p \in DOMAIN e.rows \ DOMAIN rows
      PROVE  \/ r.objs[e.rows[p].by].id = p \/ (p = OwnId /\ decl.unique)
             \/ \A x \in DOMAIN objs : r.objs[x].id # p
  <2>1. CASE s.kind = "insert"
    BY <2>1, InsertCarries
  <2>2. CASE s.kind = "upsert"
    <3>1. /\ s.values \in Seq(Value) /\ Len(s.values) = 2 /\ DOMAIN s.values = DOMAIN s.os /\ DOMAIN s.os = {1, 2}
          /\ \A i \in DOMAIN s.os : s.values[i].by = s.os[i]
          /\ s.cols \in SUBSET {"author"} /\ Once(s.os) /\ decl.unique
      BY <1>1, <2>2 DEF StmtOK, InsertOK, BatchOK
    <3>2. s.values[1].by # s.values[2].by
      BY <3>1 DEF Once
    <3>3. e = ExecuteUpsert(s.values, s.cols)
      BY <1>1, <2>2, ExecuteKinds
    <3>4. p \in Nat /\ serial < p
      BY <1>1, <3>1, <3>2, <3>3, UpsertsBoth
    <3>5. \A x \in DOMAIN objs : Holds(T, serial, objs[x]) /\ r.objs[x].id = objs[x].id
      BY <1>1, <2>2, TakenPlain DEF PlainTaken, Base
    <3>6. serial \in Nat
      BY <1>1 DEF TableOK
    <3>7. CASE p # OwnId
      BY <3>4, <3>5, <3>6, <3>7 DEF Holds, Gen
    <3> QED BY <3>1, <3>7
  <2> QED BY <1>4, <2>1, <2>2
<1> QED BY <1>2, <1>3, <1>4, <1>5, <1>6

\* An answer leaves true what the other calls are going to report.
LEMMA OthersCarry ==
  ASSUME NEW T, NEW U, NEW t, NEW e, NEW pick, NEW r, NEW js, Answering(T, U, t, e, pick, r, js),
         Shifted(U, e, t, r.objs), job[t].stmt.kind # "none", NEW u \in Tasks \ {t}
  PROVE  Carries(Made(job[u]), objs, rows, r.objs, e.rows, spoilt)
<1>1. World(T, rows, serial, objs, job, spoilt, lost, {}) /\ t \in Tasks
  BY AnsweringIs
<1>2. Made(job[u]) \subseteq DOMAIN objs /\ Made(job[u]) \cap UsedBy(job[t].stmt) = {}
  BY <1>1, PlacedIs DEF Placed, World, Apart, Busied
<1> QED BY <1>2, AnswerCarries DEF Carries

\* So it does for its own call: an INSERT stores instances, no other statement of a bulk
\* call changes what they are.
LEMMA OwnCarries ==
  ASSUME NEW T, NEW U, NEW t, NEW e, NEW pick, NEW r, NEW js, Answering(T, U, t, e, pick, r, js),
         Shifted(U, e, t, r.objs), job[t].stmt.kind \in Sent \ {"find"}
  PROVE  /\ Carries(Made(job[t]), objs, rows, r.objs, e.rows, spoilt) /\ r.results = job[t].results
         /\ r.todo = job[t].todo \/ (r.todo # <<>> /\ Tail(r.todo) = job[t].todo /\ Head(r.todo).do = "defaults")
         /\ \A o \in Made(job[t]) : Sending(job[t].stmt, o) => r.objs[o].in_db
<1> DEFINE M == Made(job[t])
           s == job[t].stmt
<1>1. World(T, rows, serial, objs, job, spoilt, lost, {}) /\ t \in Tasks /\ M \cap spoilt = {}
  BY AnsweringIs DEF JobInv, JobOwn
<1>2. M \subseteq DOMAIN objs
  BY <1>1, PlacedIs DEF Placed
<1> HIDE DEF M
<1>3. /\ \A x \in DOMAIN objs \ UsedBy(s) : Steps(objs[x], r.objs[x])
      /\ \A x \in DOMAIN objs \ spoilt : objs[x].id # None => r.objs[x].id = objs[x].id
      /\ \A p \in DOMAIN e.rows \cap DOMAIN rows : e.rows[p].by = rows[p].by
      /\ \A p \in DOMAIN e.rows \ DOMAIN rows :
              /\ e.rows[p].by \in UsedBy(s)
              /\ \/ r.objs[e.rows[p].by].id = p \/ (p = OwnId /\ decl.unique)
                 \/ \A x \in DOMAIN objs : r.objs[x].id # p
  BY AnswerCarries DEF Sent
<1>4. CASE s.kind = "insert"
  <2>1. \A o \in UsedBy(s) \ spoilt : Stores(o, objs[o], r.objs[o], e.rows)
    BY <1>4, InsertCarries
  <2>2. Carries(M, objs, rows, r.objs, e.rows, spoilt)
    <3>1. \A x \in M : Steps(objs[x], r.objs[x]) \/ Stores(x, objs[x], r.objs[x], e.rows)
      BY <1>1, <1>2, <1>3, <2>1
    <3>2. \A y \in M \cap UsedBy(s) : ~objs[y].in_db
      BY <1>1, <2>1 DEF Stores
    <3> QED BY <1>2, <1>3, <3>1, <3>2 DEF Carries
  <2>3. \A o \in M : Sending(s, o) => r.objs[o].in_db
    BY <1>1, <1>4, <2>1 DEF Sending, UsedBy, Stores
  <2>4. InsertTaken(e, t, r)
    BY <1>4, TakenInsert
  <2>5. \A o : Reading(o).do = "defaults"
    BY DEF Reading
  <2> QED BY <2>2, <2>3, <2>4, <2>5 DEF InsertTaken, Kept, Follows, M
<1>5. CASE s.kind \in {"update", "defaults"}
  <2>1. PlainTaken(U, e, t, r)
    BY <1>5, TakenPlain
  <2>2. \A x \in DOMAIN objs : Steps(objs[x], r.objs[x])
    BY <1>5, <2>1 DEF PlainTaken, Steps
  <2>3. DOMAIN e.rows \ DOMAIN rows = {}
    BY <1>5, AnsweringIs DEF Executed, TableStep
  <2>4. Carries(M, objs, rows, r.objs, e.rows, spoilt)
    BY <1>2, <1>3, <2>2, <2>3 DEF Carries
  <2> QED BY <1>5, <2>1, <2>4 DEF PlainTaken, Sending, M
<1> QED BY <1>4, <1>5 DEF Sent

-----------------------------------------------------------------------------
(* What a bulk call reports when its answer is in. *)

\* The report, and the work for what is not stored yet: what is left, after a SELECT of
\* the database defaults at most.
Reports(t, e, r) ==
  /\ Told(job[t].records, r, r.objs, e.rows, spoilt)
  /\ \E rest \in Seq(Items) :
       /\ \A o \in Made(r) : r.objs[o].in_db \/ ToInsert(rest, o)
       /\ r.todo = rest \/ (r.todo # <<>> /\ Tail(r.todo) = rest /\ Head(r.todo).do = "defaults")

\* No row is of an instance that is made only now.
LEMMA ByOthers ==
  ASSUME NEW n \in Nat, NEW o \in Nat, n < o, NEW rs, RowsOK(rs, n)
  PROVE  \A p \in DOMAIN rs : rs[p].by # o
<1> SUFFICES ASSUME NEW p \in DOMAIN rs, rs[p].by = o PROVE FALSE
  OBVIOUS
<1>1. o \in 1 .. n
  BY DEF RowsOK
<1> QED BY <1>1

\* After its find: created is what had no row.
LEMMA ReportedFind ==
  ASSUME NEW T, NEW U, NEW t \in Tasks, NEW e, NEW pick, NEW r, NEW js, Proceeds(T, U, t, e, pick, r, js),
         job[t].stmt.kind = "find", job[t].op \in Bulks
  PROVE  Reports(t, e, r)
<1> DEFINE n == Len(objs)
<1>1. Answering(T, U, t, e, pick, r, js) /\ PickOK(e, pick)
  BY ProceedsGoes DEF Proceeds
<1>2. BulkTaken(e, t, pick, r) /\ n \in Nat /\ RowsOK(e.rows, n)
  BY <1>1, TakenBulk, AnsweringIs DEF Executed
<1>3. PICK a \in Record, b \in Record :
        /\ job[t].records = <<a, b>> /\ r.objs \in Seq(Instance)
        /\ Answered(r, a, b, e, pick) /\ Plan(r.todo, r.objs, n)
  BY <1>2 DEF BulkTaken
<1> HIDE DEF n
<1>4. PICK made \in BOOLEAN, more \in BOOLEAN :
        /\ For(r.objs[n + 1], a, made, e, pick)
        /\ \/ a.key = b.key /\ Len(r.objs) = n + 1 /\ r.results = <<Result(n + 1, made), Result(n + 1, FALSE)>>
           \/ /\ a.key # b.key /\ Len(r.objs) = n + 2 /\ For(r.objs[n + 2], b, more, e, pick)
              /\ r.results = <<Result(n + 1, made), Result(n + 2, more)>>
  BY <1>3 DEF Answered, n
<1>5. n + 1 \in Nat /\ n + 2 \in Nat /\ n < n + 1 /\ n < n + 2 /\ n + 1 # n + 2
  BY <1>2
<1>6. /\ r.objs[n + 1].key = a.key /\ (r.objs[n + 1].in_db <=> ~made)
      /\ made => Originated(n + 1, r.objs, e.rows, spoilt)
      /\ \A p \in DOMAIN e.rows : e.rows[p].by # n + 1
  <2> DEFINE x == r.objs[n + 1]
  <2>1. For(x, a, made, e, pick)
    BY <1>4
  <2>2. \A p \in DOMAIN e.rows : e.rows[p].by # n + 1
    BY <1>2, <1>5, ByOthers
  <2> HIDE DEF x
  <2>3. x.key = a.key /\ (x.in_db <=> ~made)
    BY <1>1, <2>1, ForKey
  <2> QED BY <2>2, <2>3 DEF Originated, x
<1> DEFINE records == <<a, b>>
<1>7. ASSUME a.key = b.key, r.results = <<Result(n + 1, made), Result(n + 1, FALSE)>>
      PROVE  Told(records, r, r.objs, e.rows, spoilt) /\ \A o \in Made(r) : n < o
  <2>1. r.results[1] = Result(n + 1, made) /\ r.results[2] = Result(n + 1, FALSE) /\ DOMAIN r.results = {1, 2}
    BY <1>7
  <2>2. Paired(records, r.results) /\ \A i \in {1, 2} : r.results[i].o = n + 1 /\ records[i].key = a.key
    BY <1>7, <2>1 DEF Paired, Result
  <2>3. Made(r) = {n + 1}
    BY <1>7 DEF Made, ToSet, Result
  <2>4. Created(r) = IF made THEN {n + 1} ELSE {}
    BY <2>1 DEF Created, Result
  <2> HIDE DEF records
  <2> QED BY <1>5, <1>6, <2>2, <2>3, <2>4 DEF Told
<1>8. ASSUME a.key # b.key, For(r.objs[n + 2], b, more, e, pick), r.results = <<Result(n + 1, made), Result(n + 2, more)>>
      PROVE  Told(records, r, r.objs, e.rows, spoilt) /\ \A o \in Made(r) : n < o
  <2>1. r.results[1] = Result(n + 1, made) /\ r.results[2] = Result(n + 2, more) /\ DOMAIN r.results = {1, 2}
    BY <1>8
  <2>2. /\ r.objs[n + 2].key = b.key /\ (r.objs[n + 2].in_db <=> ~more)
        /\ more => Originated(n + 2, r.objs, e.rows, spoilt)
        /\ \A p \in DOMAIN e.rows : e.rows[p].by # n + 2
    <3> DEFINE y == r.objs[n + 2]
    <3>1. For(y, b, more, e, pick)
      BY <1>8
    <3>2. \A p \in DOMAIN e.rows : e.rows[p].by # n + 2
      BY <1>2, <1>5, ByOthers
    <3> HIDE DEF y, records
    <3>3. y.key = b.key /\ (y.in_db <=> ~more)
      BY <1>1, <3>1, ForKey
    <3> QED BY <3>2, <3>3 DEF Originated, y
  <2>3. Paired(records, r.results)
    BY <1>5, <1>8, <2>1 DEF Paired, Result
  <2>4. r.results[1].o = n + 1 /\ r.results[2].o = n + 2 /\ records[1].key = a.key /\ records[2].key = b.key
    BY <2>1 DEF Result
  <2>5. Made(r) = {n + 1, n + 2}
    <3>1. ToSet(r.results) = {Result(n + 1, made), Result(n + 2, more)}
      BY <1>8 DEF ToSet
    <3> QED BY <3>1 DEF Made, Result
  <2>6. Created(r) = (IF made THEN {n + 1} ELSE {}) \cup (IF more THEN {n + 2} ELSE {})
    BY <2>1 DEF Created, Result
  <2> HIDE DEF records
  <2> QED BY <1>5, <1>6, <2>2, <2>3, <2>4, <2>5, <2>6 DEF Told
<1>9. Told(job[t].records, r, r.objs, e.rows, spoilt) /\ \A o \in Made(r) : n < o
  BY <1>3, <1>4, <1>7, <1>8
<1>10. Made(r) \subseteq DOMAIN r.objs
  <2>1. DOMAIN r.objs = 1 .. Len(r.objs) /\ Len(r.objs) \in Nat
    BY <1>3
  <2>2. n + 1 \in DOMAIN r.objs /\ (Len(r.objs) = n + 2 => n + 2 \in DOMAIN r.objs)
    <3>1. n \in Nat /\ Len(r.objs) \in {n + 1, n + 2}
      BY <1>2, <1>4
    <3> QED BY <2>1, <3>1
  <2>3. \A i \in DOMAIN r.results : r.results[i].o = n + 1 \/ (Len(r.objs) = n + 2 /\ r.results[i].o = n + 2)
    BY <1>4 DEF Result
  <2> QED BY <2>2, <2>3 DEF Made, ToSet
<1>11. \A o \in Made(r) : r.objs[o].in_db \/ ToInsert(r.todo, o)
  <2> SUFFICES ASSUME NEW o \in Made(r), ~r.objs[o].in_db PROVE ToInsert(r.todo, o)
    OBVIOUS
  <2>1. PICK i \in DOMAIN r.todo : o \in ToSet(r.todo[i].os)
    BY <1>3, <1>9, <1>10 DEF Plan
  <2>2. Work(r.todo[i], r.objs, n)
    BY <1>3 DEF Plan
  <2>3. r.todo[i].do = "insert"
    BY <2>1, <2>2 DEF Work, Items
  <2> QED BY <2>1, <2>3 DEF ToInsert
<1>12. r.todo \in Seq(Items)
  BY <1>3 DEF Plan
<1> QED BY <1>9, <1>11, <1>12 DEF Reports

\* After any later answer: the report stays, and what was sent to be inserted is stored.
LEMMA ReportedKept ==
  ASSUME NEW T, NEW U, NEW t \in Tasks, NEW e, NEW pick, NEW r, NEW js, Proceeds(T, U, t, e, pick, r, js),
         job[t].stmt.kind \in Sent \ {"find"}, job[t].op \in Bulks, Tells(job[t], objs, rows, spoilt)
  PROVE  Reports(t, e, r)
<1> DEFINE j == job[t]
<1>1. Answering(T, U, t, e, pick, r, js) /\ Shifted(U, e, t, r.objs) /\ j.stmt.kind # "none"
  BY ProceedsGoes DEF Proceeds
<1>2. World(T, rows, serial, objs, job, spoilt, lost, {}) /\ JobOK(j, Len(objs))
  BY <1>1, AnsweringIs
<1>3. Placed(j, objs, rows)
  BY <1>2, PlacedIs
<1>4. /\ Carries(Made(j), objs, rows, r.objs, e.rows, spoilt) /\ r.results = j.results
      /\ r.todo = j.todo \/ (r.todo # <<>> /\ Tail(r.todo) = j.todo /\ Head(r.todo).do = "defaults")
      /\ \A o \in Made(j) : Sending(j.stmt, o) => r.objs[o].in_db
  BY <1>1, OwnCarries
<1>5. /\ Told(j.records, j, objs, rows, spoilt)
      /\ \A o \in Made(j) : objs[o].in_db \/ Sending(j.stmt, o) \/ ToInsert(j.todo, o)
  BY DEF Tells
<1> HIDE DEF j
<1>6. Told(j.records, j, r.objs, e.rows, spoilt)
  BY <1>3, <1>4, <1>5, ToldStays
<1>7. Made(r) = Made(j) /\ Created(r) = Created(j)
  BY <1>4 DEF Made, Created
<1>8. Told(j.records, r, r.objs, e.rows, spoilt)
  BY <1>4, <1>6, <1>7 DEF Told
<1>9. \A o \in Made(j) : objs[o].in_db => r.objs[o].in_db
  BY <1>4 DEF Carries, Steps, Stores
<1>10. \A o \in Made(r) : r.objs[o].in_db \/ ToInsert(j.todo, o)
  BY <1>4, <1>5, <1>7, <1>9
<1>11. j.todo \in Seq(Items)
  BY <1>2 DEF JobOK
<1> QED BY <1>4, <1>8, <1>10, <1>11 DEF Reports, j

\* Whatever the answer.
LEMMA ReportedOK ==
  ASSUME NEW T, NEW U, NEW t \in Tasks, NEW e, NEW pick, NEW r, NEW js, Proceeds(T, U, t, e, pick, r, js),
         job[t].op \in Bulks, Tells(job[t], objs, rows, spoilt)
  PROVE  Reports(t, e, r)
  BY ReportedFind, ReportedKept DEF Tells

\* The next item of a bulk call is bound; what it inserts is sent.
LEMMA BoundTells ==
  ASSUME NEW rest \in Seq(Items), NEW todo, todo # <<>>, NEW os, NEW now,
         todo = rest \/ (Tail(todo) = rest /\ Head(todo).do = "defaults")
  PROVE  LET s == Bind(Head(todo), os, now).stmt IN
         /\ s.kind \in Sent \ {"find"}
         /\ \A o : ToInsert(rest, o) => Sending(s, o) \/ ToInsert(Tail(todo), o)
<1> DEFINE it == Head(todo)
           s == Bind(it, os, now).stmt
<1>1. CASE todo = rest
  <2>1. it = rest[1] /\ 1 \in DOMAIN rest /\ it \in Items
    BY <1>1
  <2>2. it.do \in {"insert", "update"}
    BY <2>1 DEF Items
  <2>3. it.do = "insert" => s.kind = "insert" /\ s.os = it.os
    BY DEF Bind, BindInsert
  <2> HIDE DEF it
  <2>4. s.kind \in Sent \ {"find"}
    BY <2>2, BindSent
  <2> HIDE DEF s
  <2>5. ASSUME NEW o, ToInsert(rest, o) PROVE Sending(s, o) \/ ToInsert(Tail(todo), o)
    <3>1. PICK i \in DOMAIN rest : rest[i].do = "insert" /\ o \in ToSet(rest[i].os)
      BY <2>5 DEF ToInsert
    <3>2. CASE i = 1
      BY <2>1, <2>3, <3>1, <3>2 DEF Sending
    <3>3. CASE i # 1
      <4>1. DOMAIN rest = 1 .. Len(rest) /\ Len(rest) \in Nat
        OBVIOUS
      <4>2. i - 1 \in DOMAIN Tail(rest) /\ Tail(rest)[i - 1] = rest[i]
        BY <1>1, <3>3, <4>1
      <4> QED BY <1>1, <3>1, <4>2 DEF ToInsert
    <3> QED BY <3>2, <3>3
  <2> QED BY <2>4, <2>5 DEF s, it
<1>2. CASE Tail(todo) = rest /\ it.do = "defaults"
  <2> HIDE DEF it
  <2>1. s.kind \in Sent \ {"find"}
    BY <1>2, BindSent
  <2> QED BY <1>2, <2>1 DEF it
<1> QED BY <1>1, <1>2

-----------------------------------------------------------------------------
(* Every step leaves true what the bulk calls are going to report. *)

\* A call that learnt that it is not alone is the same call.
LEMMA AlikeCall ==
  ASSUME NEW j, NEW k, Alike2(j, k), NEW m, JobOK(j, m)
  PROVE  k.op = j.op /\ k.stmt = j.stmt /\ k.todo = j.todo /\ k.results = j.results /\ k.records = j.records
  BY DEF Alike2, JobOK

\* A call between two statements has no report to make, and one that is over has none.
LEMMA IdleTells == \A os, rs, sp : Tells(Idle, os, rs, sp)
  BY DEF Idle, Tells, Bulks

\* The declarations stay, so what will be told in the next state is about its values.
LEMMA TellingNext ==
  ASSUME decl' = decl, \A u \in Tasks : Tells(job'[u], objs', rows', spoilt')
  PROVE  Telling'
  BY DEF Telling, AllTell, Tells, Told, Originated

\* Instances and rows an answer leaves are there.
LEMMA PlacedAnswer ==
  ASSUME NEW T, NEW U, NEW t \in Tasks, NEW e, NEW pick, NEW r, NEW js, Proceeds(T, U, t, e, pick, r, js),
         NEW w, Made(w) \subseteq DOMAIN r.objs
  PROVE  Placed(w, r.objs, e.rows)
<1>1. PICK rd : Moved(U, e, t, r.objs, rd)
  BY ProceedsGoes DEF Shifted
<1>2. Answering(T, U, t, e, pick, r, js)
  BY DEF Proceeds
<1>3. RowsOK(e.rows, Len(objs)) /\ Len(objs) \in Nat /\ None \notin Nat \cup {OwnId}
  BY <1>2, AnsweringIs, PersistenceAssumption DEF Executed
<1>4. 1 .. Len(objs) \subseteq DOMAIN r.objs
  <2>1. DOMAIN r.objs = 1 .. Len(r.objs) /\ Len(r.objs) \in Nat /\ Len(objs) <= Len(r.objs)
    BY <1>1 DEF Moved, ObjsOK
  <2> QED BY <1>3, <2>1
<1> QED BY <1>3, <1>4 DEF RowsOK, Placed

\* An answer taken in: what the others and the call itself are going to report.
LEMMA ProceedTells ==
  ASSUME Inv, Telling, NEW t \in Tasks, Proceed(t)
  PROVE  Telling'
<1> DEFINE j == job[t]
<1>1. PICK T, U, e, pick, r, js : Proceeds(T, U, t, e, pick, r, js)
  BY ProceedIs
<1>2. /\ \A u \in Tasks \ {t} : job'[u] = js[u]
      /\ Takes(t, j, r.objs, r.todo, r.results)
      /\ World(U, e.rows, e.serial, objs', job', spoilt, lost, {}) /\ Len(objs') = Len(r.objs)
  BY <1>1, ProceedsNext
<1>3. /\ World(T, rows, serial, objs, job, spoilt, lost, {}) /\ rows' = e.rows /\ spoilt' = spoilt
      /\ Answering(T, U, t, e, pick, r, js) /\ j.stmt.kind # "none" /\ Shifted(U, e, t, r.objs)
      /\ \A u \in Tasks \ {t} : Alike2(job[u], js[u])
  BY <1>1, ProceedsGoes DEF Proceeds, Answering
<1>4. \A u \in Tasks : JobOK(job[u], Len(objs)) /\ Tells(job[u], objs, rows, spoilt) /\ Made(job[u]) \subseteq 1 .. Len(objs)
  BY <1>3, OthersOld DEF World, Telling, AllTell
<1>5. /\ DOMAIN r.objs = 1 .. Len(r.objs) /\ Len(r.objs) \in Nat
      /\ Len(objs) \in Nat /\ Len(objs) <= Len(r.objs)
  BY <1>3 DEF World, Base, ObjsOK, Shifted, Moved
<1> HIDE DEF j
<1>7. \A x \in DOMAIN r.objs : Steps(r.objs[x], objs'[x])
  <2>1. CASE r.todo = <<>>
    BY <1>2, <2>1 DEF Takes, Steps
  <2>2. CASE r.todo # <<>>
    <3>1. PICK b : Bound(b, Head(r.todo), r.objs) /\ objs' = b.objs
      BY <1>2, <2>2 DEF Takes
    <3>2. \A x \in DOMAIN r.objs : Stamped(r.objs[x], b.objs[x])
      BY <3>1 DEF Bound
    <3> QED BY <3>1, <3>2, StampedSteps
  <2> QED BY <2>1, <2>2
<1>8. ASSUME NEW u \in Tasks \ {t} PROVE Tells(job'[u], objs', rows', spoilt')
  <2> DEFINE w == job[u]
             k == js[u]
  <2>1. Carries(Made(w), objs, rows, r.objs, e.rows, spoilt)
    BY <1>3, OthersCarry DEF j
  <2>2. Placed(w, objs, rows) /\ Tells(w, objs, rows, spoilt) /\ Alike2(w, k) /\ JobOK(w, Len(objs))
    BY <1>3, <1>4, PlacedIs
  <2>3. Made(w) \subseteq DOMAIN r.objs
    BY <1>4, <1>5
  <2>4. Placed(w, r.objs, e.rows)
    BY <1>1, <2>3, PlacedAnswer
  <2>5. job'[u] = k
    BY <1>2
  <2> HIDE DEF w, k
  <2>6. Tells(w, r.objs, e.rows, spoilt)
    BY <2>1, <2>2, TellsStays
  <2>7. Carries(Made(w), r.objs, e.rows, objs', e.rows, spoilt)
    BY <1>7, <2>3, CarriesSteps
  <2>8. k.op = w.op /\ k.stmt = w.stmt /\ k.todo = w.todo /\ k.results = w.results /\ k.records = w.records
    BY <2>2, AlikeCall
  <2>9. Tells(k, objs', e.rows, spoilt)
    BY <2>4, <2>6, <2>7, <2>8, TellsStays
  <2> QED BY <1>3, <2>5, <2>9
<1>9. Tells(job'[t], objs', rows', spoilt')
  <2>1. CASE r.todo = <<>>
    <3>1. job'[t] = Idle
      BY <1>2, <2>1 DEF Takes
    <3> QED BY <3>1, IdleTells
  <2>2. CASE r.todo # <<>>
    <3> DEFINE it == Head(r.todo)
               k == job'[t]
    <3>1. PICK b : /\ b = Bind(it, r.objs, j.now) /\ Bound(b, it, r.objs) /\ objs' = b.objs
                   /\ k = Turning(j, Tail(r.todo), b.stmt, r.results)
      BY <1>2, <2>2 DEF Takes
    <3>2. Shaped(j)
      BY <1>4 DEF JobOK, Shaped, j
    <3> HIDE DEF it
    <3>3. k.op = j.op /\ k.stmt = b.stmt /\ k.todo = Tail(r.todo) /\ k.results = r.results /\ k.records = j.records
      <4> HIDE DEF k
      <4> QED BY <3>1, <3>2 DEF Shaped, Turning
    <3>4. Made(k) \subseteq DOMAIN r.objs
      <4>1. JobOK(k, Len(objs'))
        BY <1>2 DEF World
      <4> HIDE DEF k
      <4>2. \A i \in DOMAIN k.results : k.results[i].o \in 1 .. Len(objs')
        BY <4>1 DEF JobOK
      <4> QED BY <1>2, <1>5, <4>2 DEF Made, ToSet
    <3> HIDE DEF k
    <3> SUFFICES ASSUME j.op \in Bulks PROVE Tells(k, objs', e.rows, spoilt)
      BY <1>3, <3>3 DEF Tells, k
    <3>5. Reports(t, e, r)
      BY <1>1, <1>4, ReportedOK DEF j
    <3>6. Placed(k, r.objs, e.rows)
      BY <1>1, <3>4, PlacedAnswer
    <3>7. Made(k) = Made(r) /\ Created(k) = Created(r)
      BY <3>3 DEF Made, Created
    <3>8. Told(j.records, k, r.objs, e.rows, spoilt)
      BY <3>3, <3>5, <3>7 DEF Reports, Told, j
    <3>9. Carries(Made(k), r.objs, e.rows, objs', e.rows, spoilt)
      BY <1>7, <3>4, CarriesSteps
    <3>10. Told(j.records, k, objs', e.rows, spoilt)
      BY <3>6, <3>8, <3>9, ToldStays
    <3>11. PICK rest \in Seq(Items) :
             /\ \A o \in Made(k) : r.objs[o].in_db \/ ToInsert(rest, o)
             /\ r.todo = rest \/ (r.todo # <<>> /\ Tail(r.todo) = rest /\ Head(r.todo).do = "defaults")
      BY <3>5, <3>7 DEF Reports
    <3>12. /\ b.stmt.kind \in Sent \ {"find"}
           /\ \A o : ToInsert(rest, o) => Sending(b.stmt, o) \/ ToInsert(Tail(r.todo), o)
      BY <2>2, <3>1, <3>11, BoundTells DEF it
    <3>13. \A o \in Made(k) : objs'[o].in_db \/ Sending(k.stmt, o) \/ ToInsert(k.todo, o)
      BY <1>7, <3>3, <3>4, <3>11, <3>12 DEF Steps
    <3> QED BY <3>3, <3>10, <3>12, <3>13 DEF Tells
  <2> QED BY <2>1, <2>2
<1>10. decl' = decl
  BY DEF Proceed
<1> QED BY <1>8, <1>9, <1>10, TellingNext

\* A step that leaves the rows alone and what identifies the instances.
LEMMA OthersTell ==
  ASSUME Inv, Telling, \A x \in DOMAIN objs : Steps(objs[x], objs'[x]), spoilt \subseteq spoilt'
  PROVE  \A u \in Tasks : Tells(job[u], objs', rows, spoilt')
<1> TAKE u \in Tasks
<1>1. Placed(job[u], objs, rows) /\ Tells(job[u], objs, rows, spoilt)
  BY PlacedIs DEF Inv, Telling, AllTell
<1>2. Carries(Made(job[u]), objs, rows, objs', rows, spoilt')
  BY <1>1, CarriesSteps DEF Placed
<1> QED BY <1>1, <1>2, TellsStays

\* A call that begins has nothing to report before its first answer.
LEMMA CallTells ==
  ASSUME Inv, Telling, NEW t \in Tasks, Call(t)
  PROVE  Telling'
<1>1. PICK T : World(T, rows, serial, objs, job, spoilt, lost, {})
  BY DEF Inv
<1>2. job[t] = Idle /\ calls < MaxCalls
  BY DEF Call
<1>3. PICK op, used, os, it, records, results :
        /\ Begin(t, op, used, os, <<it>>, records, results) /\ Changed(os, {})
        /\ FirstItem(it, used, os, op, records, results) /\ Looks(op, it, records, results)
  BY CallStarts DEF Starts
<1> DEFINE c == calls + 1
           j == [Idle EXCEPT !.op = op, !.now = c, !.records = records]
           b == Bind(it, os, c)
           k == Turning(j, <<>>, b.stmt, results)
<1>4. /\ Continue(job, t, j, os, <<it>>, results) /\ rows' = rows /\ spoilt \subseteq spoilt'
  BY <1>3 DEF Begin
<1>5. /\ c \in Stamps /\ decl \in Declarations /\ ObjsOK(os) /\ ObjsOK(objs) /\ Len(objs) <= Len(os)
      /\ DOMAIN job = Tasks
  <2>1. calls \in Stamps
    BY DEF Inv
  <2>2. c \in Stamps
    BY <1>2, <2>1, PersistenceAssumption DEF Stamps
  <2> QED BY <1>1, <1>3, <2>2 DEF World, Base, Changed
<1>6. j = Started(op, c, records)
  BY DEF Started
<1>7. j.now = c /\ j.op = op /\ j.records = records /\ Shaped(j)
  <2> HIDE DEF j, c
  <2>1. Begins(j, op, c, records)
    BY <1>6, StartedIs
  <2> QED BY <2>1 DEF Begins
<1>8. objs' = b.objs /\ job' = [job EXCEPT ![t] = k]
  <2>1. <<it>> # <<>> /\ Tail(<<it>>) = <<>> /\ Head(<<it>>) = it
    OBVIOUS
  <2> HIDE DEF j, c
  <2> QED BY <1>4, <1>7, <2>1 DEF Continue, Turning
<1> HIDE DEF j
<1>9. Bound(b, it, os)
  <2> HIDE DEF c
  <2> QED BY <1>3, <1>5, BindOK DEF FirstItem
<1>10. job'[t] = k /\ (\A u \in Tasks \ {t} : job'[u] = job[u]) /\ k.op = op /\ k.stmt = b.stmt
  <2> HIDE DEF b
  <2> QED BY <1>5, <1>7, <1>8 DEF Turning, Shaped
<1>11. \A u \in Tasks : Tells(job[u], objs', rows, spoilt')
  <2> SUFFICES ASSUME NEW x \in DOMAIN objs PROVE Steps(objs[x], objs'[x])
    BY <1>4, OthersTell
  <2>1. x \in DOMAIN os
    BY <1>5 DEF ObjsOK
  <2>2. Lasts(objs[x], os[x]) /\ Stamped(os[x], b.objs[x])
    BY <1>3, <1>9, <2>1 DEF Changed, Bound
  <2> HIDE DEF b
  <2> QED BY <1>8, <2>2 DEF Lasts, Stamped, Steps
<1>12. Tells(k, objs', rows, spoilt')
  <2>1. CASE op \in Bulks
    <3>1. it.do = "find"
      BY <1>3, <2>1 DEF Looks, Bulks, Promising
    <3>2. b.stmt.kind = "find"
      BY <3>1 DEF Bind
    <3> HIDE DEF k, b
    <3> QED BY <1>10, <3>2 DEF Tells, Sent
  <2>2. CASE op \notin Bulks
    <3> HIDE DEF k
    <3> QED BY <1>10, <2>2 DEF Tells
  <2> QED BY <2>1, <2>2
<1> HIDE DEF k
<1>13. decl' = decl
  BY <1>3 DEF Begin
<1> QED BY <1>4, <1>10, <1>11, <1>12, <1>13, TellingNext

\* An attribute written is not the key.
LEMMA AttributeTells ==
  ASSUME Inv, Telling, WriteAttribute
  PROVE  Telling'
<1>1. PICK o \in Usable : \E ob, col : Write(o, ob, col) /\ Steps(objs[o], ob)
  <2>1. \A o \in Usable : objs[o] \in Instance
    BY DEF Inv, World, Base, ObjsOK, Usable, Objs
  <2>2. ASSUME NEW o \in Usable, NEW v
        PROVE  Steps(objs[o], SetAttr(objs[o], "state", v)) /\ Steps(objs[o], SetAttr(objs[o], "author", v))
    BY <2>1 DEF Steps, SetAttr, Instance
  <2>3. ASSUME NEW o \in Usable, NEW v, NEW is PROVE Steps(objs[o], SetRelation(objs[o], v, is))
    BY <2>1 DEF Steps, SetRelation, Instance
  <2> QED BY <2>2, <2>3 DEF WriteAttribute
<1>2. PICK ob, col : Write(o, ob, col) /\ Steps(objs[o], ob)
  BY <1>1
<1>3. objs' = [objs EXCEPT ![o] = ob] /\ job' = job /\ rows' = rows /\ spoilt \subseteq spoilt' /\ decl' = decl
  BY <1>2 DEF Write
<1>4. \A x \in DOMAIN objs : Steps(objs[x], objs'[x])
  BY <1>2, <1>3 DEF Steps
<1> QED BY <1>3, <1>4, OthersTell, TellingNext

\* A copy is no instance of a call.
LEMMA CopyTells ==
  ASSUME Inv, Telling, Copy
  PROVE  Telling'
<1>1. PICK o \in Usable : objs' = Append(objs, Clone(objs[o])) /\ job' = job /\ rows' = rows /\ spoilt' = spoilt
               /\ decl' = decl
  BY DEF Copy
<1>2. objs \in Seq(Instance)
  BY DEF Inv, World, Base, ObjsOK
<1>3. \A x \in DOMAIN objs : Steps(objs[x], objs'[x])
  BY <1>1, <1>2 DEF Steps
<1> QED BY <1>1, <1>3, OthersTell, TellingNext

\* A call that raises reports nothing.
LEMMA FailTells ==
  ASSUME Inv, Telling, NEW t \in Tasks, Fail(t)
  PROVE  Telling'
<1>1. job' = [job EXCEPT ![t] = Idle] /\ objs' = objs /\ rows' = rows /\ spoilt \subseteq spoilt' /\ decl' = decl
  BY DEF Fail, Raised
<1>2. DOMAIN job = Tasks
  BY DEF Inv, World
<1>3. \A u \in Tasks : Tells(job[u], objs', rows, spoilt')
  BY <1>1, OthersTell DEF Steps
<1> QED BY <1>1, <1>2, <1>3, IdleTells, TellingNext

\* Nor one that was cancelled; the rows it may have inserted are of instances spoilt.
LEMMA CancelTells ==
  ASSUME Inv, Telling, NEW t \in Tasks, Cancel(t)
  PROVE  Telling'
<1> DEFINE s == job[t].stmt
<1>1. PICK T : World(T, rows, serial, objs, job, spoilt, lost, {})
  BY DEF Inv
<1>2. PICK e \in Outcomes(Execute(s)) :
         /\ rows' = e.rows /\ job' = [Witnessed(job, t, e.rows # rows) EXCEPT ![t] = Idle]
         /\ spoilt' = spoilt \cup UsedBy(s) /\ objs' = objs
  BY DEF Cancel
<1> DEFINE js == Witnessed(job, t, e.rows # rows)
<1>3. /\ DOMAIN js = Tasks /\ \A u \in Tasks \ {t} : Alike2(job[u], js[u])
  <2>1. Settled(job) /\ (e.rows # rows) \in BOOLEAN
    BY DEF Inv
  <2> QED BY <1>1, <2>1, WitnessedIs
<1>4. job'[t] = Idle /\ \A u \in Tasks \ {t} : job'[u] = js[u]
  <2> HIDE DEF js
  <2>1. job' = [js EXCEPT ![t] = Idle]
    BY <1>2 DEF js
  <2> QED BY <1>3, <2>1
<1> HIDE DEF js
<1>5. /\ \A p \in DOMAIN e.rows \cap DOMAIN rows : e.rows[p].by = rows[p].by
      /\ \A p \in DOMAIN e.rows \ DOMAIN rows : e.rows[p].by \in UsedBy(s)
  <2> DEFINE x == Execute(s)
  <2>1. CASE e.rows = rows
    BY <2>1
  <2>2. CASE x.ok /\ e.rows = x.rows
    <3> HIDE DEF x
    <3>1. x = Execute(job[t].stmt)
      BY DEF x
    <3>2. TableStep(T, x, s)
      BY <1>1, <2>2, <3>1, ExecutedIs DEF Executed
    <3> QED BY <2>2, <3>2 DEF TableStep
  <2>3. e.rows = rows \/ (x.ok /\ e.rows = x.rows)
    <3> HIDE DEF x
    <3>1. e \in Outcomes(x)
      BY <1>2 DEF x
    <3> QED BY <3>1 DEF Outcomes
  <2> QED BY <2>1, <2>2, <2>3
<1>6. ASSUME NEW u \in Tasks \ {t} PROVE Tells(job'[u], objs', rows', spoilt')
  <2> DEFINE w == job[u]
             k == js[u]
  <2>1. Placed(w, objs, rows) /\ Tells(w, objs, rows, spoilt) /\ JobOK(w, Len(objs)) /\ Alike2(w, k)
    BY <1>1, <1>3, PlacedIs DEF World, Telling, AllTell
  <2>2. Made(w) \cap UsedBy(s) = {}
    BY <1>1 DEF World, Apart, Busied
  <2>3. job'[u] = k
    BY <1>4
  <2> HIDE DEF w, k, s
  <2>4. Carries(Made(w), objs, rows, objs', e.rows, spoilt')
    BY <1>2, <1>5, <2>2 DEF Carries, Steps
  <2>5. k.op = w.op /\ k.stmt = w.stmt /\ k.todo = w.todo /\ k.results = w.results /\ k.records = w.records
    BY <2>1, AlikeCall
  <2>6. Tells(k, objs', e.rows, spoilt')
    BY <1>2, <2>1, <2>4, <2>5, TellsStays
  <2> QED BY <1>2, <2>3, <2>6
<1>7. decl' = decl
  BY DEF Cancel
<1> QED BY <1>4, <1>6, <1>7, IdleTells, TellingNext

\* Nothing is to be reported yet.
LEMMA InitTells ==
  ASSUME Init
  PROVE  Telling
  BY IdleTells DEF Init, Telling, AllTell

\* Every step leaves true what will be reported.
LEMMA StepTells ==
  ASSUME Inv, Telling, [Next]_vars
  PROVE  Telling'
<1>1. CASE UNCHANGED vars
  BY <1>1, TellingNext DEF Telling, AllTell, vars
<1>2. CASE Next
  BY <1>2, ProceedTells, CallTells, FailTells, CancelTells, AttributeTells, CopyTells DEF Next
<1> QED BY <1>1, <1>2

-----------------------------------------------------------------------------
(* A bulk call that returns has told what it was going to tell. *)

\* What one record of a bulk call is answered with.
Answers(t, i) ==
  LET r == job[t].results[i]
      first == \A k \in 1 .. i - 1 : job[t].results[k].o # r.o
      ob == objs'[r.o]
  IN /\ ob.in_db /\ ob.key = job[t].records[i].key
     /\ \A k \in DOMAIN job[t].records :
          job[t].records[k].key = ob.key => job[t].results[k].o = r.o
     /\ r.created => first
     /\ ob.id \in DOMAIN rows' =>
          LET by == rows'[ob.id].by
          IN IF by = r.o THEN first => r.created
             ELSE r.created => \/ by \in spoilt' \/ objs'[by].id = ob.id
                               \/ ob.id = OwnId /\ decl.unique

\* A report in which everything is stored answers each record.
LEMMA ToldAnswers ==
  ASSUME NEW t, NEW w, w.results = job[t].results, Told(job[t].records, w, objs', rows', spoilt'),
         \A o \in Made(w) : objs'[o].in_db
  PROVE  \A i \in DOMAIN job[t].records : Answers(t, i)
<1> DEFINE records == job[t].records
           results == job[t].results
<1>1. /\ DOMAIN records = {1, 2} /\ DOMAIN results = {1, 2}
      /\ results[1].o = results[2].o <=> records[1].key = records[2].key
      /\ records[1].key = records[2].key => ~results[2].created
      /\ \A i \in {1, 2} : objs'[results[i].o].key = records[i].key
  BY DEF Told, Paired
<1>2. \A o \in Created(w) : Originated(o, objs', rows', spoilt')
  BY DEF Told
<1>3. \A o \in Made(w) \ Created(w) : \A p \in DOMAIN rows' : rows'[p].by # o
  BY DEF Told
<1>4. \A i \in {1, 2} : results[i].o \in Made(w) /\ (results[i].created => results[i].o \in Created(w))
  BY <1>1 DEF Made, Created, ToSet
<1>5. \A o \in Created(w) : \E k \in {1, 2} : results[k].o = o /\ results[k].created
  BY <1>1 DEF Created
<1> SUFFICES ASSUME NEW i \in {1, 2} PROVE Answers(t, i)
  BY <1>1
<1> HIDE DEF records, results
<1> DEFINE r == results[i]
           first == \A k \in 1 .. i - 1 : results[k].o # r.o
           ob == objs'[r.o]
<1>6. ob.in_db /\ ob.key = records[i].key
  BY <1>1, <1>4
<1>7. \A k \in DOMAIN records : records[k].key = ob.key => results[k].o = r.o
  BY <1>1, <1>6
<1>8. r.created => first
  <2>1. CASE i = 1
    BY <2>1
  <2>2. CASE i = 2
    BY <1>1, <2>2
  <2> QED BY <2>1, <2>2
<1>9. ASSUME r.o \in Created(w), first PROVE r.created
  <2>1. PICK k \in {1, 2} : results[k].o = r.o /\ results[k].created
    BY <1>5, <1>9
  <2>2. CASE k = i
    BY <2>1, <2>2
  <2>3. CASE k = 2 /\ i = 1
    BY <1>1, <2>1, <2>3
  <2>4. CASE k = 1 /\ i = 2
    <3>1. 1 \in 1 .. i - 1
      BY <2>4
    <3> QED BY <1>9, <2>1, <2>4, <3>1
  <2> QED BY <2>2, <2>3, <2>4
<1>10. ASSUME ob.id \in DOMAIN rows'
       PROVE  IF rows'[ob.id].by = r.o THEN first => r.created
              ELSE r.created => \/ rows'[ob.id].by \in spoilt' \/ objs'[rows'[ob.id].by].id = ob.id
                                \/ ob.id = OwnId /\ decl.unique
  <2>1. CASE rows'[ob.id].by = r.o
    <3>1. r.o \in Created(w)
      BY <1>3, <1>4, <1>10, <2>1
    <3> HIDE DEF first
    <3> QED BY <1>9, <2>1, <3>1
  <2>2. CASE rows'[ob.id].by # r.o
    <3>1. ASSUME r.created
          PROVE  \/ rows'[ob.id].by \in spoilt' \/ objs'[rows'[ob.id].by].id = ob.id
                 \/ ob.id = OwnId /\ decl.unique
      <4>1. Originated(r.o, objs', rows', spoilt')
        BY <1>2, <1>4, <3>1
      <4> QED BY <1>6, <1>10, <2>2, <4>1 DEF Originated
    <3> QED BY <2>2, <3>1
  <2> QED BY <2>1, <2>2
<1> QED BY <1>6, <1>7, <1>8, <1>10 DEF Answers, records, results

\* A call that returns got its answer.
LEMMA ReturnedIs ==
  ASSUME Inv, Telling, NEW t \in Tasks, job[t].op \in Bulks, Returned(t), [Next]_vars
  PROVE  Proceed(t)
<1>1. PICK T : World(T, rows, serial, objs, job, spoilt, lost, {})
  BY DEF Inv
<1>2. /\ job[t] # Idle /\ job'[t] = Idle /\ job[t].stmt.os # <<>> /\ ToSet(job[t].stmt.os) \cap spoilt' = {}
      /\ DOMAIN job = Tasks /\ JobOK(job[t], Len(objs)) /\ Settled(job)
  BY <1>1 DEF Returned, World, Inv
<1>3. ToSet(job[t].stmt.os) # {} /\ UsedBy(job[t].stmt) = ToSet(job[t].stmt.os)
  <2>1. job[t].stmt.kind \in Sent /\ StmtOK(job[t].stmt, Len(objs))
    BY <1>2 DEF Telling, AllTell, Tells, JobOK
  <2>2. job[t].stmt.os \in Seq(1 .. Len(objs))
    BY <1>2, <2>1 DEF Sent, StmtOK, InsertOK, BatchOK, Targeted
  <2>3. ToSet(job[t].stmt.os) # {}
    <3>1. 1 \in DOMAIN job[t].stmt.os
      BY <1>2, <2>2
    <3> QED BY <3>1 DEF ToSet
  <2> QED BY <2>1, <2>3 DEF UsedBy, Sent
<1>4. ~(UsedBy(job[t].stmt) \subseteq spoilt')
  BY <1>2, <1>3
<1>5. \A k : Alike2(job[t], k) => k # Idle
  <2>1. Idle.op \notin Bulks
    BY DEF Idle, Bulks
  <2> QED BY <1>2, <2>1, AlikeCall
<1>6. job' # job
  BY <1>2
<1>7. ASSUME NEW u \in Tasks, Call(u) PROVE FALSE
  <2>1. u # t
    BY <1>2, <1>7 DEF Call
  <2>2. PICK op, used, os, it, records, results : Begin(u, op, used, os, <<it>>, records, results)
    BY <1>7, CallStarts DEF Starts
  <2>3. PICK v : job' = [job EXCEPT ![u] = v]
    BY <2>2 DEF Begin, Continue
  <2> QED BY <1>2, <2>1, <2>3
<1>8. ASSUME NEW u \in Tasks \ {t}, Proceed(u) PROVE FALSE
  <2>1. PICK X, U, e, pick, r, js : Proceeds(X, U, u, e, pick, r, js)
    BY <1>8, ProceedIs
  <2>2. job'[t] = js[t]
    BY <2>1, ProceedsNext
  <2>3. Alike2(job[t], js[t])
    BY <2>1 DEF Proceeds, Answering
  <2> QED BY <1>2, <1>5, <2>2, <2>3
<1>9. ASSUME NEW u \in Tasks, Fail(u) PROVE FALSE
  <2>1. job' = [job EXCEPT ![u] = Idle] /\ spoilt' = spoilt \cup UsedBy(job[u].stmt)
    BY <1>9 DEF Fail, Raised
  <2>2. u = t
    BY <1>2, <2>1
  <2> QED BY <1>4, <2>1, <2>2
<1>10. ASSUME NEW u \in Tasks, Cancel(u) PROVE FALSE
  <2>1. PICK changed \in BOOLEAN : job' = [Witnessed(job, u, changed) EXCEPT ![u] = Idle]
    BY <1>10 DEF Cancel
  <2>2. spoilt' = spoilt \cup UsedBy(job[u].stmt)
    BY <1>10 DEF Cancel
  <2>3. u # t
    BY <1>4, <2>2
  <2> DEFINE js == Witnessed(job, u, changed)
  <2>4. DOMAIN js = Tasks /\ Alike2(job[t], js[t])
    BY <1>1, <1>2, <2>3, WitnessedIs
  <2> HIDE DEF js
  <2>5. job' = [js EXCEPT ![u] = Idle]
    BY <2>1 DEF js
  <2>6. job'[t] = js[t]
    BY <2>3, <2>4, <2>5
  <2> QED BY <1>2, <1>5, <2>4, <2>6
<1>11. ~WriteAttribute /\ ~Copy
  BY <1>6 DEF WriteAttribute, Write, Copy
<1>12. ~(UNCHANGED vars)
  BY <1>6 DEF vars
<1> QED BY <1>7, <1>8, <1>9, <1>10, <1>11, <1>12 DEF Next

\* And that answer was the last.
LEMMA ReturnAnswers ==
  ASSUME Inv, Telling, NEW t \in Tasks, job[t].op \in Bulks, Returned(t), [Next]_vars
  PROVE  \A i \in DOMAIN job[t].records : Answers(t, i)
<1> DEFINE j == job[t]
<1>1. Proceed(t)
  BY ReturnedIs
<1>2. PICK T, U, e, pick, r, js : Proceeds(T, U, t, e, pick, r, js)
  BY <1>1, ProceedIs
<1>3. /\ Answering(T, U, t, e, pick, r, js) /\ Shifted(U, e, t, r.objs) /\ rows' = e.rows /\ spoilt' = spoilt
      /\ JobOK(j, Len(objs)) /\ Takes(t, j, r.objs, r.todo, r.results)
  <2>1. Answering(T, U, t, e, pick, r, js) /\ rows' = e.rows /\ spoilt' = spoilt
    BY <1>2 DEF Proceeds
  <2>2. Shifted(U, e, t, r.objs) /\ JobOK(j, Len(objs))
    BY <1>2, ProceedsGoes
  <2>3. Takes(t, j, r.objs, r.todo, r.results)
    BY <1>2, ProceedsNext
  <2> QED BY <2>1, <2>2, <2>3
<1>4. Tells(j, objs, rows, spoilt) /\ j.stmt.kind \in Sent
  BY DEF Telling, AllTell, Tells
<1>5. job'[t] = Idle /\ j.stmt.os # <<>>
  BY DEF Returned
<1>6. j.stmt.kind \in Sent \ {"find"}
  BY <1>3, <1>4, <1>5 DEF JobOK, StmtOK
<1>7. r.results = j.results
  BY <1>3, <1>6, OwnCarries
<1>8. Reports(t, e, r)
  BY <1>2, <1>4, ReportedOK
<1>9. r.todo = <<>> /\ objs' = r.objs
  <2> SUFFICES ASSUME r.todo # <<>> PROVE FALSE
    BY <1>3 DEF Takes
  <2>1. PICK b : job'[t] = Turning(j, Tail(r.todo), b.stmt, r.results)
    BY <1>3 DEF Takes
  <2>2. Idle.op \notin Bulks /\ j.op \in Bulks
    BY DEF Idle, Bulks
  <2>3. job'[t].op = j.op
    <3> DEFINE k == job'[t]
    <3>1. k = Turning(j, Tail(r.todo), b.stmt, r.results) /\ JobOK(j, Len(objs))
      BY <1>3, <2>1
    <3> HIDE DEF k, j
    <3>2. k.op = j.op
      BY <3>1, TurningIs
    <3> QED BY <3>2 DEF k
  <2> QED BY <1>5, <2>2, <2>3
<1>10. Told(j.records, r, objs', rows', spoilt') /\ \A o \in Made(r) : objs'[o].in_db
  <2>1. \A o : ~ToInsert(<<>>, o)
    BY DEF ToInsert
  <2> QED BY <1>3, <1>8, <1>9, <2>1 DEF Reports
<1> QED BY <1>7, <1>10, ToldAnswers

\* The bulk calls return, in the order of their records, stored instances with the keys
\* of the records, and report exactly those as created whose row they inserted
\* (models.py:2231-2245, 2288-2311).
THEOREM BulkCallsAnswer == Spec => BulkAnswers
<1>1. Init => Telling
  BY InitTells
<1>2. Inv /\ Telling /\ [Next]_vars => Telling'
  BY StepTells
<1> DEFINE Step ==
      \A t \in Tasks :
       /\ Returned(t)
       /\ job[t].op \in {"bulk_get_or_create", "bulk_update_or_create"}
       => \A i \in DOMAIN job[t].records :
            LET r == job[t].results[i]
                first == \A k \in 1 .. i - 1 : job[t].results[k].o # r.o
                ob == objs'[r.o]
            IN /\ ob.in_db /\ ob.key = job[t].records[i].key
               /\ \A k \in DOMAIN job[t].records :
                    job[t].records[k].key = ob.key => job[t].results[k].o = r.o
               /\ r.created => first
               /\ ob.id \in DOMAIN rows' =>
                    LET by == rows'[ob.id].by
                    IN IF by = r.o THEN first => r.created
                       ELSE r.created => \/ by \in spoilt' \/ objs'[by].id = ob.id
                                         \/ ob.id = OwnId /\ decl.unique
<1>3. Inv /\ Telling /\ [Next]_vars => [Step]_vars
  BY ReturnAnswers DEF Bulks, Answers
<1>4. BulkAnswers <=> [][Step]_vars
  BY PTL DEF BulkAnswers
<1> HIDE DEF Step
<1> QED BY <1>1, <1>2, <1>3, <1>4, Invariant, PTL DEF Spec

=============================================================================
