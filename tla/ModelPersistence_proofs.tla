---------------------- MODULE ModelPersistence_proofs ----------------------
(***************************************************************************)
(* What the steps of a call of ModelPersistence do: values, statements and *)
(* their order, the table after a statement, the instances and the work    *)
(* after an answer, and the binding of an item of work to a statement.     *)
(* For any tasks, keys, authors and declarations, any number of instances  *)
(* and calls, and batches of two records.                                  *)
(*                                                                         *)
(* Each operator of the model gets a lemma.  Then the inductive invariant  *)
(* (World: the rows, the instances and the calls), and why a statement     *)
(* (Executed) and its answer (Moved) keep it; what the call does next, and *)
(* the theorems, are in ModelPersistenceSafety_proofs.                     *)
(***************************************************************************)
EXTENDS ModelPersistence, FiniteSetTheorems, SequenceTheorems, WellFoundedInduction, TLAPS

-----------------------------------------------------------------------------
(* What the state is made of. *)

Ids == Nat \cup {OwnId, None}

\* The primary keys that only the database chooses.
Gen == Nat \ {OwnId}

Stamps == 0 .. MaxCalls

Instance == [in_db : BOOLEAN, id : Ids, key : Keys, author : Authors \cup {None},
             state : States \cup {None}, stamp : Stamps \cup {None}, marks : BOOLEAN,
             cache : Authors \cup {None, Absent}]

Row == [key : Keys, author : Authors \cup {None}, state : States \cup {None}, stamp : Stamps,
        by : Nat]

Value == [id : Ids, key : Keys, author : Authors \cup {None}, state : States \cup {None},
          stamp : Stamps, by : Nat]

\* The values an UPDATE brings for some columns.
PartOK(v) ==
  /\ DOMAIN v \subseteq Columns
  /\ "key" \in DOMAIN v => v["key"] \in Keys
  /\ "author" \in DOMAIN v => v["author"] \in Authors \cup {None}
  /\ "state" \in DOMAIN v => v["state"] \in States \cup {None}
  /\ "stamp" \in DOMAIN v => v["stamp"] \in Stamps

Kinds == {"none", "insert", "upsert", "update", "find", "prefetch",
          "delete", "defaults", "reload", "relation"}
Targeted == {"delete", "defaults", "reload", "relation"}
Finders == {"get", "get_or_create", "update_or_create"}
Bulks == {"bulk_get_or_create", "bulk_update_or_create"}

Once(s) == \A i, k \in DOMAIN s : s[i] = s[k] => i = k

BatchOK(s, n) == s \in Seq(1 .. n) /\ s # <<>> /\ Once(s)

InsertOK(s, n) ==
  /\ BatchOK(s.os, n) /\ s.values \in Seq(Value) /\ Len(s.values) = Len(s.os)
  /\ \A i \in DOMAIN s.os : s.values[i].by = s.os[i]

StmtOK(s, n) ==
  /\ s.kind \in Kinds
  /\ s.kind # "none" => {"kind", "os"} \subseteq DOMAIN s
  /\ s.kind = "insert" => InsertOK(s, n) /\ s.one \in BOOLEAN /\ (s.one => Len(s.os) = 1)
  /\ s.kind = "upsert" => /\ InsertOK(s, n) /\ s.cols \subseteq {"author"} /\ decl.unique
                          /\ Len(s.os) = 2
  /\ s.kind = "update" => /\ BatchOK(s.os, n) /\ s.ids \in Seq(Ids) /\ Len(s.ids) = Len(s.os)
                          /\ "values" \in DOMAIN s /\ DOMAIN s.values = DOMAIN s.os
                          /\ \A i \in DOMAIN s.os : PartOK(s.values[i])
  /\ s.kind \in Targeted => /\ s.os \in Seq(1 .. n) /\ Len(s.os) = 1
                            /\ s.id \in Ids /\ s.author \in Authors \cup {None}
  /\ s.kind = "find" => s.os = <<>> /\ s.keys \subseteq Keys

ItemOK(it, n) ==
  \/ it.do = "save" /\ it.o \in 1 .. n /\ it.cols \subseteq Columns
  \/ it.do = "insert" /\ BatchOK(it.os, n)
  \/ it.do = "upsert" /\ BatchOK(it.os, n) /\ Len(it.os) = 2 /\ decl.unique /\ it.cols \subseteq {"author"}
  \/ it.do = "update" /\ BatchOK(it.os, n) /\ it.cols \subseteq Columns
  \/ it.do = "find" /\ it.keys \subseteq Keys
  \/ it.do = "prefetch"
  \/ it.do \in Targeted /\ it.o \in 1 .. n

\* What a call may leave for later.
Items == [do : {"insert"}, os : Seq(Nat)] \cup [do : {"update"}, os : Seq(Nat), cols : SUBSET {"author", "state"}]

\* A call that looks for rows knows the records it is for.
Finding(op, records) ==
  \/ op \in Finders /\ \E rec \in Lookups : records = <<rec>>
  \/ op \in Bulks /\ \E a, b \in Record : records = <<a, b>> /\ a.id = None

JobOK(j, n) ==
  /\ j = [op |-> j.op, now |-> j.now, todo |-> j.todo, stmt |-> j.stmt, records |-> j.records,
          results |-> j.results, alone |-> j.alone]
  /\ j.now \in Stamps /\ j.alone \in BOOLEAN
  /\ StmtOK(j.stmt, n)
  /\ j.todo \in Seq(Items) /\ \A i \in DOMAIN j.todo : BatchOK(j.todo[i].os, n)
  /\ \A i \in DOMAIN j.results : j.results[i].o \in 1 .. n
  /\ j.stmt.kind = "find" => Finding(j.op, j.records)

RowsOK(rs, n) ==
  /\ DOMAIN rs \subseteq Nat \cup {OwnId}
  /\ \A p \in DOMAIN rs : rs[p] \in Row /\ rs[p].by \in 1 .. n

ObjsOK(os) ==
  /\ os \in Seq(Instance)
  /\ \A o \in DOMAIN os : os[o].in_db => os[o].stamp # None /\ os[o].id # None

Types ==
  /\ decl \in Declarations /\ serial \in Nat /\ calls \in Stamps
  /\ ObjsOK(objs) /\ RowsOK(rows, Len(objs))
  /\ job = [t \in Tasks |-> job[t]]
  /\ \A t \in Tasks : JobOK(job[t], Len(objs)) /\ (job[t].stmt.kind = "none" => job[t] = Idle)
  /\ clean \in Seq(SUBSET Columns) /\ Len(clean) = Len(objs)
  /\ spoilt \subseteq 1 .. Len(objs) /\ lost \in BOOLEAN

\* What a batch, a statement, an item and a call say of n instances, they say of more.
LEMMA BatchGrows ==
  ASSUME NEW n \in Nat, NEW m \in Nat, n <= m, NEW s, BatchOK(s, n)
  PROVE  BatchOK(s, m)
<1>1. 1 .. n \subseteq 1 .. m
  OBVIOUS
<1> QED BY <1>1 DEF BatchOK

\* See BatchGrows.
LEMMA StmtGrows ==
  ASSUME NEW n \in Nat, NEW m \in Nat, n <= m, NEW s, StmtOK(s, n)
  PROVE  StmtOK(s, m)
<1>1. 1 .. n \subseteq 1 .. m
  OBVIOUS
<1>2. s.kind \in {"insert", "upsert"} => InsertOK(s, m)
  BY BatchGrows DEF StmtOK, InsertOK
<1>3. s.kind = "update" => BatchOK(s.os, m)
  BY BatchGrows DEF StmtOK
<1> QED BY <1>1, <1>2, <1>3 DEF StmtOK

\* See BatchGrows.
LEMMA ItemGrows ==
  ASSUME NEW n \in Nat, NEW m \in Nat, n <= m, NEW it, ItemOK(it, n)
  PROVE  ItemOK(it, m)
<1>1. it.do \in {"insert", "upsert", "update"} => BatchOK(it.os, m)
  BY BatchGrows DEF ItemOK, Targeted
<1> QED BY <1>1 DEF ItemOK

\* See BatchGrows.
LEMMA JobGrows ==
  ASSUME NEW n \in Nat, NEW m \in Nat, n <= m, NEW j, JobOK(j, n)
  PROVE  JobOK(j, m)
<1>1. StmtOK(j.stmt, m)
  BY StmtGrows DEF JobOK
<1>2. \A i \in DOMAIN j.todo : BatchOK(j.todo[i].os, m)
  BY BatchGrows DEF JobOK
<1>3. \A i \in DOMAIN j.results : j.results[i].o \in 1 .. m
  BY DEF JobOK
<1> QED BY <1>1, <1>2, <1>3 DEF JobOK

\* A task without a call is in order.
LEMMA IdleOK ==
  ASSUME NEW n \in Nat
  PROVE  JobOK(Idle, n)
<1>1. Idle.stmt.kind = "none" /\ Idle.todo = <<>> /\ Idle.results = <<>> /\ Idle.now = 0 /\ Idle.alone = TRUE
  BY DEF Idle
<1>2. StmtOK(Idle.stmt, n)
  BY <1>1 DEF StmtOK, Kinds, Targeted
<1>3. 0 \in Stamps
  BY PersistenceAssumption DEF Stamps
<1>4. Idle = [op |-> Idle.op, now |-> Idle.now, todo |-> Idle.todo, stmt |-> Idle.stmt, records |-> Idle.records,
          results |-> Idle.results, alone |-> Idle.alone]
  BY DEF Idle
<1>5. Idle.todo \in Seq(Items) /\ DOMAIN Idle.todo = {} /\ DOMAIN Idle.results = {} /\ Idle.stmt.kind # "find"
  <2>1. <<>> \in Seq(Items) /\ DOMAIN <<>> = {}
    OBVIOUS
  <2> QED BY <1>1, <2>1
<1> QED BY <1>1, <1>2, <1>3, <1>4, <1>5, Zenon DEF JobOK

-----------------------------------------------------------------------------
(* What the database does with a statement it accepts. *)

\* One INSERT takes keys above the last one generated, and no more than it says.
LEMMA NewIds ==
  ASSUME NEW values \in Seq(Value), serial \in Nat
  PROVE  /\ Generated(values) \in Nat
         /\ InsertedIds(values) \in Seq(Nat \cup {OwnId})
         /\ Len(InsertedIds(values)) = Len(values)
         /\ \A i \in DOMAIN values :
              IF values[i].id # None THEN InsertedIds(values)[i] = values[i].id
              ELSE /\ InsertedIds(values)[i] \in Nat /\ serial < InsertedIds(values)[i]
                   /\ InsertedIds(values)[i] <= serial + Generated(values)
<1> DEFINE A == {i \in DOMAIN values : values[i].id = None}
           B(i) == {k \in 1 .. i : values[k].id = None}
<1>1. IsFiniteSet(A) /\ Cardinality(A) \in Nat
  <2>1. IsFiniteSet(1 .. Len(values))
    BY FS_Interval
  <2>2. A \subseteq 1 .. Len(values)
    OBVIOUS
  <2> QED BY <2>1, <2>2, FS_Subset, FS_CardinalityType
<1>2. ASSUME NEW i \in DOMAIN values, values[i].id = None
      PROVE  /\ Cardinality(B(i)) \in Nat /\ 1 <= Cardinality(B(i))
             /\ Cardinality(B(i)) <= Cardinality(A)
  <2>1. {i} \subseteq B(i) /\ B(i) \subseteq A
    BY <1>2
  <2>2. IsFiniteSet(B(i)) /\ Cardinality(B(i)) <= Cardinality(A) /\ Cardinality(B(i)) \in Nat
    BY <1>1, <2>1, FS_Subset, FS_CardinalityType
  <2>3. Cardinality({i}) = 1 /\ Cardinality({i}) <= Cardinality(B(i))
    BY <2>1, <2>2, FS_Singleton, FS_Subset
  <2> QED BY <2>2, <2>3
<1> DEFINE ids == InsertedIds(values)
<1>3. /\ DOMAIN ids = DOMAIN values
      /\ \A i \in DOMAIN values : ids[i] = IF values[i].id # None THEN values[i].id ELSE serial + Cardinality(B(i))
  BY DEF InsertedIds
<1> HIDE DEF ids
<1> HIDE DEF A, B
<1>4. ASSUME NEW i \in DOMAIN values PROVE values[i].id \in Ids
  <2>1. values[i] \in Value
    OBVIOUS
  <2> QED BY <2>1 DEF Value
<1>5. \A i \in DOMAIN values : ids[i] \in Nat \cup {OwnId}
  BY <1>2, <1>3, <1>4 DEF Ids
<1>6. Generated(values) = Cardinality(A)
  BY DEF Generated, A
<1>7. ids \in Seq(Nat \cup {OwnId}) /\ Len(ids) = Len(values)
  <2>1. ids = [i \in 1 .. Len(values) |-> ids[i]] /\ DOMAIN values = 1 .. Len(values) /\ Len(values) \in Nat
    <3>1. DOMAIN values = 1 .. Len(values) /\ Len(values) \in Nat
      OBVIOUS
    <3> QED BY <1>3, <3>1 DEF InsertedIds, ids
  <2> QED BY <1>5, <2>1
<1> QED BY <1>1, <1>2, <1>3, <1>6, <1>7 DEF ids

\* The sequence never goes back; it goes beyond a chosen key where that moves it on.
LEMMA SequenceOn ==
  ASSUME NEW values \in Seq(Value), serial \in Nat
  PROVE  /\ Sequence(values) \in Nat /\ serial <= Sequence(values)
         /\ serial + Generated(values) <= Sequence(values)
         /\ \A i \in DOMAIN values : values[i].id = OwnId /\ decl.advances => OwnId <= Sequence(values)
<1>1. Generated(values) \in Nat
  BY NewIds
<1>2. OwnId \in Nat
  BY PersistenceAssumption
<1> DEFINE chosen == \E i \in DOMAIN values : values[i].id = OwnId
           last == serial + Generated(values)
<1>3. Sequence(values) = IF decl.advances /\ chosen /\ last < OwnId THEN OwnId ELSE last
  BY DEF Sequence
<1>4. last \in Nat /\ serial <= last
  BY <1>1
<1>5. ASSUME NEW i \in DOMAIN values, values[i].id = OwnId PROVE chosen
  BY <1>5
<1> HIDE DEF chosen, last
<1>6. Sequence(values) \in Nat /\ last <= Sequence(values)
  BY <1>2, <1>3, <1>4
<1>7. ASSUME NEW i \in DOMAIN values, values[i].id = OwnId, decl.advances PROVE OwnId <= Sequence(values)
  BY <1>2, <1>3, <1>4, <1>5, <1>7
<1> QED BY <1>4, <1>6, <1>7 DEF last

\* An INSERT that is accepted adds a row for each of its values and touches no other.
LEMMA Inserts ==
  ASSUME NEW values \in Seq(Value), serial \in Nat, ExecuteInsert(values).ok
  PROVE  LET e == ExecuteInsert(values) IN
         /\ e.serial \in Nat /\ serial <= e.serial
         /\ e.ids \in Seq(Nat \cup {OwnId}) /\ Len(e.ids) = Len(values) /\ Once(e.ids)
         /\ \A i \in DOMAIN values :
              /\ e.ids[i] \in DOMAIN e.rows \ DOMAIN rows
              /\ e.rows[e.ids[i]] = Stored(values[i])
              /\ IF values[i].id # None THEN e.ids[i] = values[i].id
                 ELSE e.ids[i] \in Nat /\ serial < e.ids[i] /\ e.ids[i] <= e.serial
              /\ values[i].id = OwnId /\ decl.advances => OwnId <= e.serial
         /\ \A p \in DOMAIN rows : p \in DOMAIN e.rows /\ e.rows[p] = rows[p]
         /\ \A p \in DOMAIN e.rows \ DOMAIN rows : \E i \in DOMAIN values : e.ids[i] = p
         /\ UniqueKeys(e.rows)
<1> DEFINE ids == InsertedIds(values)
           new == [p \in ToSet(ids) |-> Stored(values[CHOOSE i \in DOMAIN ids : ids[i] = p])]
           after == [p \in ToSet(ids) \cup DOMAIN rows |->
                       IF p \in ToSet(ids) THEN Stored(values[CHOOSE i \in DOMAIN ids : ids[i] = p])
                       ELSE rows[p]]
           e == ExecuteInsert(values)
<1>1. /\ e.ids = ids /\ e.rows = after /\ e.serial = Sequence(values)
      /\ IsInjective(ids) /\ ToSet(ids) \cap DOMAIN rows = {} /\ UniqueKeys(after)
  BY DEF ExecuteInsert
<1>2. /\ Generated(values) \in Nat
      /\ ids \in Seq(Nat \cup {OwnId}) /\ Len(ids) = Len(values)
      /\ \A i \in DOMAIN values :
           IF values[i].id # None THEN ids[i] = values[i].id
           ELSE ids[i] \in Nat /\ serial < ids[i] /\ ids[i] <= serial + Generated(values)
  BY NewIds
<1>2a. /\ e.serial \in Nat /\ serial <= e.serial /\ serial + Generated(values) <= e.serial
       /\ \A i \in DOMAIN values : values[i].id = OwnId /\ decl.advances => OwnId <= e.serial
  <2> HIDE DEF e
  <2> QED BY <1>1, SequenceOn
<1> HIDE DEF ids
<1>3. DOMAIN ids = DOMAIN values
  BY <1>2
<1>4. /\ DOMAIN after = ToSet(ids) \cup DOMAIN rows
      /\ \A p \in ToSet(ids) : after[p] = new[p]
      /\ \A p \in DOMAIN rows : p \notin ToSet(ids) => after[p] = rows[p]
  OBVIOUS
<1>5. ASSUME NEW i \in DOMAIN values PROVE ids[i] \in ToSet(ids) /\ new[ids[i]] = Stored(values[i])
  <2>1. ids[i] \in ToSet(ids)
    BY <1>3 DEF ToSet
  <2>2. (CHOOSE k \in DOMAIN ids : ids[k] = ids[i]) = i
    BY <1>1, <1>3 DEF IsInjective
  <2> QED BY <2>1, <2>2
<1>6. \A p \in ToSet(ids) : \E i \in DOMAIN values : ids[i] = p
  BY <1>3 DEF ToSet
<1> HIDE DEF new, after, e
<1>7. e.ids \in Seq(Nat \cup {OwnId}) /\ Len(e.ids) = Len(values) /\ Once(e.ids)
  BY <1>1, <1>2 DEF IsInjective, Once
<1>8. e.serial \in Nat /\ serial <= e.serial
  BY <1>2a
<1>9. ASSUME NEW i \in DOMAIN values
      PROVE  /\ e.ids[i] \in DOMAIN e.rows \ DOMAIN rows
             /\ e.rows[e.ids[i]] = Stored(values[i])
             /\ IF values[i].id # None THEN e.ids[i] = values[i].id
                ELSE e.ids[i] \in Nat /\ serial < e.ids[i] /\ e.ids[i] <= e.serial
             /\ values[i].id = OwnId /\ decl.advances => OwnId <= e.serial
  BY <1>1, <1>2, <1>2a, <1>4, <1>5
<1>10. \A p \in DOMAIN rows : p \in DOMAIN e.rows /\ e.rows[p] = rows[p]
  BY <1>1, <1>4
<1>11. \A p \in DOMAIN e.rows \ DOMAIN rows : \E i \in DOMAIN values : e.ids[i] = p
  BY <1>1, <1>4, <1>6
<1>12. UniqueKeys(e.rows)
  BY <1>1
<1> QED BY <1>7, <1>8, <1>9, <1>10, <1>11, <1>12 DEF e

\* Any set of numbers has a least one: an UPDATE ... CASE takes the first value for a key.
LEMMA Least ==
  ASSUME NEW T \in SUBSET Nat, T # {}
  PROVE  \E n \in T : \A m \in T : n <= m
<1>1. PICK x \in T : \A y \in T : ~ (<<y, x>> \in OpToRel(<, Nat))
  BY WFMin, NatLessThanWellFounded
<1>2. ASSUME NEW y \in T PROVE x <= y
  <2>1. ~ (<<y, x>> \in {ss \in Nat \X Nat : ss[1] < ss[2]})
    BY <1>1 DEF OpToRel
  <2> QED BY <2>1
<1> QED BY <1>2

\* A row with the columns of v written to it.
Put(row, v) == [c \in DOMAIN row |-> IF c \in DOMAIN v THEN v[c] ELSE row[c]]

\* An UPDATE changes rows it names, each to the values for its key, if no key is there twice.
LEMMA Updates ==
  ASSUME NEW n \in Nat, NEW ids, NEW values, DOMAIN ids = 1 .. n, DOMAIN values = 1 .. n
  PROVE  LET e == ExecuteUpdate(ids, values) IN
         /\ e.serial = serial
         /\ DOMAIN e.rows = DOMAIN rows
         /\ \A p \in DOMAIN rows :
              \/ e.rows[p] = rows[p] /\ \A i \in 1 .. n : ids[i] # p
              \/ \E i \in 1 .. n : ids[i] = p /\ e.rows[p] = Put(rows[p], values[i])
         /\ e.ok <=> UniqueKeys(e.rows)
<1> DEFINE Hits(p) == {i \in DOMAIN ids : ids[i] = p}
           At(p) == CHOOSE i \in Hits(p) : \A k \in Hits(p) : i <= k
           after == [p \in DOMAIN rows |-> IF Hits(p) = {} THEN rows[p] ELSE Put(rows[p], values[At(p)])]
           e == ExecuteUpdate(ids, values)
<1>1. e.rows = after /\ e.serial = serial /\ (e.ok <=> UniqueKeys(after))
  BY DEF ExecuteUpdate, Put
<1>2. ASSUME NEW p \in DOMAIN rows, Hits(p) # {} PROVE At(p) \in 1 .. n /\ ids[At(p)] = p
  <2>1. Hits(p) \in SUBSET Nat
    OBVIOUS
  <2>2. \E i \in Hits(p) : \A k \in Hits(p) : i <= k
    BY <1>2, <2>1, Least
  <2>3. At(p) \in Hits(p)
    BY <2>2
  <2> HIDE DEF At
  <2> QED BY <2>3
<1>3. ASSUME NEW p \in DOMAIN rows
      PROVE  \/ after[p] = rows[p] /\ \A i \in 1 .. n : ids[i] # p
             \/ \E i \in 1 .. n : ids[i] = p /\ after[p] = Put(rows[p], values[i])
  <2>1. CASE Hits(p) = {}
    BY <2>1
  <2>2. CASE Hits(p) # {}
    <3>1. At(p) \in 1 .. n /\ ids[At(p)] = p
      BY <1>2, <2>2
    <3>2. after[p] = Put(rows[p], values[At(p)])
      BY <2>2
    <3> HIDE DEF At, after
    <3> QED BY <3>1, <3>2
  <2> QED BY <2>1, <2>2
<1>4. DOMAIN after = DOMAIN rows
  OBVIOUS
<1> HIDE DEF after, e
<1> QED BY <1>1, <1>3, <1>4 DEF e

\* A row with some columns written is a row, with its columns as written or as before.
LEMMA PutRow ==
  ASSUME NEW row \in Row, NEW v, PartOK(v)
  PROVE  LET w == Put(row, v) IN
         /\ w \in Row /\ w.by = row.by
         /\ w.key = IF "key" \in DOMAIN v THEN v["key"] ELSE row.key
         /\ w.author = IF "author" \in DOMAIN v THEN v["author"] ELSE row.author
         /\ w.state = IF "state" \in DOMAIN v THEN v["state"] ELSE row.state
         /\ w.stamp = IF "stamp" \in DOMAIN v THEN v["stamp"] ELSE row.stamp
<1> DEFINE w == Put(row, v)
<1>2. DOMAIN row = {"key", "author", "state", "stamp", "by"}
  BY DEF Row
<1>3. w = [key |-> w.key, author |-> w.author, state |-> w.state, stamp |-> w.stamp, by |-> w.by]
  BY <1>2 DEF Put
<1>4. /\ w.key = IF "key" \in DOMAIN v THEN v["key"] ELSE row.key
      /\ w.author = IF "author" \in DOMAIN v THEN v["author"] ELSE row.author
      /\ w.state = IF "state" \in DOMAIN v THEN v["state"] ELSE row.state
      /\ w.stamp = IF "stamp" \in DOMAIN v THEN v["stamp"] ELSE row.stamp
      /\ w.by = IF "by" \in DOMAIN v THEN v["by"] ELSE row.by
  BY <1>2 DEF Put
<1> HIDE DEF w
<1>5. w.by = row.by
  BY <1>4 DEF PartOK, Columns
<1>6. w.key \in Keys /\ w.author \in Authors \cup {None} /\ w.state \in States \cup {None} /\ w.stamp \in Stamps
      /\ w.by \in Nat
  BY <1>4, <1>5 DEF PartOK, Row
<1>7. w \in Row
  BY <1>3, <1>6 DEF Row
<1> QED BY <1>4, <1>5, <1>7 DEF w

\* The last of the places that are left is folded first.
LEMMA LastOf == Max({1, 2}) = 2 /\ Max({1}) = 1 /\ Max({2}) = 2
<1>1. \A x : (x \in {1, 2} /\ \A y \in {1, 2} : x >= y) <=> x = 2
  OBVIOUS
<1>2. \A x : (x \in {1} /\ \A y \in {1} : x >= y) <=> x = 1
  OBVIOUS
<1>3. \A x : (x \in {2} /\ \A y \in {2} : x >= y) <=> x = 2
  OBVIOUS
<1> QED BY <1>1, <1>2, <1>3 DEF Max

\* Sequences of two, as the folds build them.
LEMMA AppendTwo ==
  ASSUME NEW a, NEW b
  PROVE  Append(<<a>>, b) = <<a, b>>
<1> DEFINE q == Append(<<a>>, b)
<1>1. <<a>> \in Seq({a, b}) /\ Len(<<a>>) = 1
  OBVIOUS
<1>2. q \in Seq({a, b}) /\ Len(q) = 2 /\ q[1] = a /\ q[2] = b
  BY <1>1
<1> HIDE DEF q
<1>3. q = [i \in 1 .. 2 |-> q[i]] /\ <<a, b>> = [i \in 1 .. 2 |-> <<a, b>>[i]]
  BY <1>2
<1>4. \A i \in 1 .. 2 : q[i] = <<a, b>>[i]
  BY <1>2
<1> QED BY <1>3, <1>4 DEF q

\* Those of a pair.
LEMMA ThosePair ==
  ASSUME NEW a, NEW b, NEW S
  PROVE  Those(<<a, b>>, S) = IF a \in S THEN IF b \in S THEN <<a, b>> ELSE <<a>>
                              ELSE IF b \in S THEN <<b>> ELSE <<>>
<1> DEFINE D == DOMAIN <<a, b>>
           At(acc, x) == IF x \in S THEN Append(acc, x) ELSE acc
           base == <<>>
           F == CHOOSE g : g = [s \in SUBSET D |->
                        IF s = {} THEN base ELSE At(g[s \ {Max(s)}], <<a, b>>[Max(s)])]
<1>1. Those(<<a, b>>, S) = F[D]
  BY DEF Those, FoldLeft, MapThenFoldSet
<1> DEFINE One == At(base, a)
           G == [s \in SUBSET {1, 2} |->
                   IF s = {} THEN base ELSE IF s = {1} THEN One
                   ELSE IF s = {2} THEN At(base, b) ELSE At(One, b)]
<1>2. D = {1, 2}
  OBVIOUS
<1> HIDE DEF At, base
<1>3. G = [s \in SUBSET D |-> IF s = {} THEN base ELSE At(G[s \ {Max(s)}], <<a, b>>[Max(s)])]
  <2> SUFFICES ASSUME NEW s \in SUBSET {1, 2}
               PROVE  G[s] = IF s = {} THEN base ELSE At(G[s \ {Max(s)}], <<a, b>>[Max(s)])
    BY <1>2
  <2>0. <<a, b>>[1] = a /\ <<a, b>>[2] = b /\ {1} # {} /\ {2} # {} /\ {2} # {1} /\ {1, 2} # {} /\ {1, 2} # {1} /\ {1, 2} # {2}
    OBVIOUS
  <2>0a. {1} \ {1} = {} /\ {2} \ {2} = {} /\ {1, 2} \ {2} = {1}
    OBVIOUS
  <2>0b. G[{}] = base /\ G[{1}] = One /\ G[{2}] = At(base, b) /\ G[{1, 2}] = At(One, b)
    BY <2>0
  <2> HIDE DEF G
  <2>1. CASE s = {}
    BY <2>1, <2>0b
  <2>2. CASE s = {1}
    BY <2>2, <2>0, <2>0a, <2>0b, LastOf, Zenon
  <2>3. CASE s = {2}
    BY <2>3, <2>0, <2>0a, <2>0b, LastOf, Zenon
  <2>4. CASE s = {1, 2}
    BY <2>4, <2>0, <2>0a, <2>0b, LastOf, Zenon
  <2>5. s = {} \/ s = {1} \/ s = {2} \/ s = {1, 2}
    OBVIOUS
  <2> QED BY <2>1, <2>2, <2>3, <2>4, <2>5
<1>4. F = [s \in SUBSET D |-> IF s = {} THEN base ELSE At(F[s \ {Max(s)}], <<a, b>>[Max(s)])]
  <2> HIDE DEF G
  <2> QED BY <1>3
<1> HIDE DEF F
<1>5. \A s \in SUBSET D : F[s] = IF s = {} THEN base ELSE At(F[s \ {Max(s)}], <<a, b>>[Max(s)])
  BY <1>4
<1>6. F[D] = At(At(base, a), b)
  <2>1. {} \in SUBSET D /\ {1} \in SUBSET D /\ {1, 2} \in SUBSET D
    BY <1>2
  <2>2. <<a, b>>[1] = a /\ <<a, b>>[2] = b /\ {1} # {} /\ {1, 2} # {}
    OBVIOUS
  <2>3. {1} \ {1} = {} /\ {1, 2} \ {2} = {1}
    OBVIOUS
  <2> HIDE DEF D
  <2>4. F[{}] = base
    BY <1>5, <2>1
  <2>5. F[{1}] = At(F[{}], a)
    BY <1>5, <2>1, <2>2, <2>3, LastOf
  <2>6. F[{1, 2}] = At(F[{1}], b)
    BY <1>5, <2>1, <2>2, <2>3, LastOf
  <2> QED BY <1>2, <2>4, <2>5, <2>6
<1>7. At(At(<<>>, a), b) = IF a \in S THEN IF b \in S THEN <<a, b>> ELSE <<a>>
                           ELSE IF b \in S THEN <<b>> ELSE <<>>
  <2> HIDE DEF D, F, G, One
  <2>1. Append(<<>>, a) = <<a>> /\ Append(<<>>, b) = <<b>>
    OBVIOUS
  <2>2. Append(<<a>>, b) = <<a, b>>
    BY AppendTwo
  <2> QED BY <2>1, <2>2, Zenon DEF At
<1> QED BY <1>1, <1>6, <1>7 DEF base

\* Those of a single one, and of none.
LEMMA ThoseOne ==
  ASSUME NEW a, NEW S
  PROVE  Those(<<a>>, S) = IF a \in S THEN <<a>> ELSE <<>>
<1> DEFINE D == DOMAIN <<a>>
           At(acc, x) == IF x \in S THEN Append(acc, x) ELSE acc
           F == CHOOSE g : g = [s \in SUBSET D |->
                        IF s = {} THEN <<>> ELSE At(g[s \ {Max(s)}], <<a>>[Max(s)])]
           G == [s \in SUBSET {1} |-> IF s = {} THEN <<>> ELSE At(<<>>, a)]
<1>1. Those(<<a>>, S) = F[D]
  BY DEF Those, FoldLeft, MapThenFoldSet
<1>2. D = {1} /\ {1} \in SUBSET D /\ {} \in SUBSET D /\ <<a>>[1] = a /\ {1} \ {1} = {} /\ {1} # {}
  OBVIOUS
<1> HIDE DEF At
<1>3. G = [s \in SUBSET D |-> IF s = {} THEN <<>> ELSE At(G[s \ {Max(s)}], <<a>>[Max(s)])]
  <2>1. G[{}] = <<>> /\ G[{1}] = At(<<>>, a)
    OBVIOUS
  <2>2. ASSUME NEW s \in SUBSET {1}
        PROVE  G[s] = IF s = {} THEN <<>> ELSE At(G[s \ {Max(s)}], <<a>>[Max(s)])
    <3> HIDE DEF G
    <3>1. CASE s = {}
      BY <2>1, <3>1
    <3>2. CASE s = {1}
      BY <1>2, <2>1, <3>2, LastOf
    <3> QED BY <3>1, <3>2
  <2> QED BY <1>2, <2>2
<1>4. F = [s \in SUBSET D |-> IF s = {} THEN <<>> ELSE At(F[s \ {Max(s)}], <<a>>[Max(s)])]
  <2> HIDE DEF G
  <2> QED BY <1>3
<1> HIDE DEF F
<1>5. F[{}] = <<>> /\ F[{1}] = At(<<>>, a)
  <2> HIDE DEF D
  <2>1. F[{}] = <<>>
    BY <1>2, <1>4
  <2>2. F[{1}] = At(F[{1} \ {1}], <<a>>[1])
    BY <1>2, <1>4, LastOf
  <2> QED BY <1>2, <2>1, <2>2
<1> QED BY <1>1, <1>2, <1>5 DEF At

\* Those selects nothing from nothing.
LEMMA ThoseNone ==
  ASSUME NEW S
  PROVE  Those(<<>>, S) = <<>>
<1> DEFINE D == DOMAIN <<>>
           F == CHOOSE g : g = [s \in SUBSET D |->
                        IF s = {} THEN <<>>
                        ELSE IF <<>>[Max(s)] \in S THEN Append(g[s \ {Max(s)}], <<>>[Max(s)])
                             ELSE g[s \ {Max(s)}]]
           G == [s \in SUBSET D |-> <<>>]
<1>1. Those(<<>>, S) = F[D]
  BY DEF Those, FoldLeft, MapThenFoldSet
<1>2. D = {}
  OBVIOUS
<1>3. G = [s \in SUBSET D |->
             IF s = {} THEN <<>>
             ELSE IF <<>>[Max(s)] \in S THEN Append(G[s \ {Max(s)}], <<>>[Max(s)])
                  ELSE G[s \ {Max(s)}]]
  BY <1>2
<1>4. F = [s \in SUBSET D |->
             IF s = {} THEN <<>>
             ELSE IF <<>>[Max(s)] \in S THEN Append(F[s \ {Max(s)}], <<>>[Max(s)])
                  ELSE F[s \ {Max(s)}]]
  <2> HIDE DEF G
  <2> QED BY <1>3
<1> HIDE DEF F
<1>5. F[{}] = <<>>
  BY <1>2, <1>4
<1> QED BY <1>1, <1>2, <1>5

\* An INSERT with conflict handling takes its two rows one after the other.
LEMMA UpsertPair ==
  ASSUME NEW a, NEW b, NEW cols
  PROVE  ExecuteUpsert(<<a, b>>, cols) =
           Upserted(Upserted([ok |-> TRUE, rows |-> rows, serial |-> serial, ids |-> <<>>], a, cols), b, cols)
<1> DEFINE D == DOMAIN <<a, b>>
           At(acc, x) == Upserted(acc, x, cols)
           base == [ok |-> TRUE, rows |-> rows, serial |-> serial, ids |-> <<>>]
           F == CHOOSE g : g = [s \in SUBSET D |->
                        IF s = {} THEN base ELSE At(g[s \ {Max(s)}], <<a, b>>[Max(s)])]
<1>1. ExecuteUpsert(<<a, b>>, cols) = F[D]
  BY DEF ExecuteUpsert, FoldLeft, MapThenFoldSet
<1> DEFINE One == At(base, a)
           G == [s \in SUBSET {1, 2} |->
                   IF s = {} THEN base ELSE IF s = {1} THEN One
                   ELSE IF s = {2} THEN At(base, b) ELSE At(One, b)]
<1>2. D = {1, 2}
  OBVIOUS
<1> HIDE DEF At, base
<1>3. G = [s \in SUBSET D |-> IF s = {} THEN base ELSE At(G[s \ {Max(s)}], <<a, b>>[Max(s)])]
  <2> SUFFICES ASSUME NEW s \in SUBSET {1, 2}
               PROVE  G[s] = IF s = {} THEN base ELSE At(G[s \ {Max(s)}], <<a, b>>[Max(s)])
    BY <1>2
  <2>0. <<a, b>>[1] = a /\ <<a, b>>[2] = b /\ {1} # {} /\ {2} # {} /\ {2} # {1} /\ {1, 2} # {} /\ {1, 2} # {1} /\ {1, 2} # {2}
    OBVIOUS
  <2>0a. {1} \ {1} = {} /\ {2} \ {2} = {} /\ {1, 2} \ {2} = {1}
    OBVIOUS
  <2>0b. G[{}] = base /\ G[{1}] = One /\ G[{2}] = At(base, b) /\ G[{1, 2}] = At(One, b)
    BY <2>0
  <2> HIDE DEF G
  <2>1. CASE s = {}
    BY <2>1, <2>0b
  <2>2. CASE s = {1}
    BY <2>2, <2>0, <2>0a, <2>0b, LastOf, Zenon
  <2>3. CASE s = {2}
    BY <2>3, <2>0, <2>0a, <2>0b, LastOf, Zenon
  <2>4. CASE s = {1, 2}
    BY <2>4, <2>0, <2>0a, <2>0b, LastOf, Zenon
  <2>5. s = {} \/ s = {1} \/ s = {2} \/ s = {1, 2}
    OBVIOUS
  <2> QED BY <2>1, <2>2, <2>3, <2>4, <2>5
<1>4. F = [s \in SUBSET D |-> IF s = {} THEN base ELSE At(F[s \ {Max(s)}], <<a, b>>[Max(s)])]
  <2> HIDE DEF G
  <2> QED BY <1>3
<1> HIDE DEF F
<1>5. \A s \in SUBSET D : F[s] = IF s = {} THEN base ELSE At(F[s \ {Max(s)}], <<a, b>>[Max(s)])
  BY <1>4
<1>6. F[D] = At(At(base, a), b)
  <2>1. {} \in SUBSET D /\ {1} \in SUBSET D /\ {1, 2} \in SUBSET D
    BY <1>2
  <2>2. <<a, b>>[1] = a /\ <<a, b>>[2] = b /\ {1} # {} /\ {1, 2} # {}
    OBVIOUS
  <2>3. {1} \ {1} = {} /\ {1, 2} \ {2} = {1}
    OBVIOUS
  <2> HIDE DEF D
  <2>4. F[{}] = base
    BY <1>5, <2>1
  <2>5. F[{1}] = At(F[{}], a)
    BY <1>5, <2>1, <2>2, <2>3, LastOf
  <2>6. F[{1, 2}] = At(F[{1}], b)
    BY <1>5, <2>1, <2>2, <2>3, LastOf
  <2> QED BY <1>2, <2>4, <2>5, <2>6
<1> QED BY <1>1, <1>6 DEF At, base

\* The records of a batch are taken one after the other.
Records(seq, j, e, pick, base) ==
  FoldLeft(LAMBDA acc, rec : BulkRecord(acc, rec, j, e, pick), base, seq)

\* The fold of the bulk calls over a batch of two records.
LEMMA RecordPair ==
  ASSUME NEW a, NEW b, NEW j, NEW e, NEW pick, NEW base
  PROVE  Records(<<a, b>>, j, e, pick, base)
           = BulkRecord(BulkRecord(base, a, j, e, pick), b, j, e, pick)
<1> DEFINE D == DOMAIN <<a, b>>
           At(acc, x) == BulkRecord(acc, x, j, e, pick)
           F == CHOOSE g : g = [s \in SUBSET D |->
                        IF s = {} THEN base ELSE At(g[s \ {Max(s)}], <<a, b>>[Max(s)])]
<1>1. Records(<<a, b>>, j, e, pick, base) = F[D]
  BY DEF Records, FoldLeft, MapThenFoldSet
<1> DEFINE One == At(base, a)
           G == [s \in SUBSET {1, 2} |->
                   IF s = {} THEN base ELSE IF s = {1} THEN One
                   ELSE IF s = {2} THEN At(base, b) ELSE At(One, b)]
<1>2. D = {1, 2}
  OBVIOUS
<1> HIDE DEF At
<1>3. G = [s \in SUBSET D |-> IF s = {} THEN base ELSE At(G[s \ {Max(s)}], <<a, b>>[Max(s)])]
  <2> SUFFICES ASSUME NEW s \in SUBSET {1, 2}
               PROVE  G[s] = IF s = {} THEN base ELSE At(G[s \ {Max(s)}], <<a, b>>[Max(s)])
    BY <1>2
  <2>0. <<a, b>>[1] = a /\ <<a, b>>[2] = b /\ {1} # {} /\ {2} # {} /\ {2} # {1} /\ {1, 2} # {} /\ {1, 2} # {1} /\ {1, 2} # {2}
    OBVIOUS
  <2>0a. {1} \ {1} = {} /\ {2} \ {2} = {} /\ {1, 2} \ {2} = {1}
    OBVIOUS
  <2>0b. G[{}] = base /\ G[{1}] = One /\ G[{2}] = At(base, b) /\ G[{1, 2}] = At(One, b)
    BY <2>0
  <2> HIDE DEF G
  <2>1. CASE s = {}
    BY <2>1, <2>0b
  <2>2. CASE s = {1}
    BY <2>2, <2>0, <2>0a, <2>0b, LastOf, Zenon
  <2>3. CASE s = {2}
    BY <2>3, <2>0, <2>0a, <2>0b, LastOf, Zenon
  <2>4. CASE s = {1, 2}
    BY <2>4, <2>0, <2>0a, <2>0b, LastOf, Zenon
  <2>5. s = {} \/ s = {1} \/ s = {2} \/ s = {1, 2}
    OBVIOUS
  <2> QED BY <2>1, <2>2, <2>3, <2>4, <2>5
<1>4. F = [s \in SUBSET D |-> IF s = {} THEN base ELSE At(F[s \ {Max(s)}], <<a, b>>[Max(s)])]
  <2> HIDE DEF G
  <2> QED BY <1>3
<1> HIDE DEF F
<1>5. \A s \in SUBSET D : F[s] = IF s = {} THEN base ELSE At(F[s \ {Max(s)}], <<a, b>>[Max(s)])
  BY <1>4
<1>6. F[D] = At(At(base, a), b)
  <2>1. {} \in SUBSET D /\ {1} \in SUBSET D /\ {1, 2} \in SUBSET D
    BY <1>2
  <2>2. <<a, b>>[1] = a /\ <<a, b>>[2] = b /\ {1} # {} /\ {1, 2} # {}
    OBVIOUS
  <2>3. {1} \ {1} = {} /\ {1, 2} \ {2} = {1}
    OBVIOUS
  <2> HIDE DEF D
  <2>4. F[{}] = base
    BY <1>5, <2>1
  <2>5. F[{1}] = At(F[{}], a)
    BY <1>5, <2>1, <2>2, <2>3, LastOf
  <2>6. F[{1, 2}] = At(F[{1}], b)
    BY <1>5, <2>1, <2>2, <2>3, LastOf
  <2> QED BY <1>2, <2>4, <2>5, <2>6
<1> QED BY <1>1, <1>6 DEF At

\* The database fills in its default, and keeps every other value.
LEMMA StoredRow ==
  ASSUME NEW v \in Value
  PROVE  /\ Stored(v) \in Row /\ Stored(v).state # None
         /\ Stored(v).key = v.key /\ Stored(v).author = v.author /\ Stored(v).stamp = v.stamp
         /\ Stored(v).by = v.by /\ (v.state # None => Stored(v).state = v.state)
  BY PersistenceAssumption DEF Stored, Value, Row, States

\* Two rows that agree but for the column of the foreign key.
Alike(r, q) == r.key = q.key /\ r.state = q.state /\ r.stamp = q.stamp /\ r.by = q.by

TableOK(rs, n) ==
  /\ n \in Nat
  /\ \A p \in DOMAIN rs : rs[p] \in Row /\ p \in Nat /\ (p <= n \/ (p = OwnId /\ ~decl.advances))

\* What one row of an INSERT with conflict handling leaves alone, and what it adds.
Upserts(rs, n, v, after, m) ==
  /\ TableOK(after, m) /\ n <= m
  /\ \A p \in DOMAIN rs : p \in DOMAIN after /\ Alike(after[p], rs[p])
  /\ \A p \in DOMAIN after \ DOMAIN rs :
       p \in Nat /\ n < p /\ after[p] = Stored(v) /\ \A q \in DOMAIN after \ DOMAIN rs : q = p
  /\ UniqueKeys(rs) => UniqueKeys(after)

\* One row of an upsert: it is inserted, skipped, or gets its author only.
LEMMA UpsertOne ==
  ASSUME NEW rs, NEW n, TableOK(rs, n), NEW v \in Value, NEW cols \in SUBSET {"author"},
         NEW ok, NEW acc, acc = [ok |-> ok, rows |-> rs, serial |-> n, ids |-> <<>>]
  PROVE  LET r == Upserted(acc, v, cols) IN
         /\ r = [ok |-> r.ok, rows |-> r.rows, serial |-> r.serial, ids |-> <<>>]
         /\ Upserts(rs, n, v, r.rows, r.serial)
<1> DEFINE r == Upserted(acc, v, cols)
           there == {p \in DOMAIN rs : rs[p].key = v.key}
           grown == [p \in {n + 1} \cup DOMAIN rs |-> IF p = n + 1 THEN Stored(v) ELSE rs[p]]
           put == [p \in DOMAIN rs |->
                     IF p \in there THEN [c \in DOMAIN rs[p] |-> IF c \in cols THEN v[c] ELSE rs[p][c]]
                     ELSE rs[p]]
<1>1. acc.rows = rs /\ acc.serial = n /\ acc.ok = ok /\ acc.ids = <<>>
  OBVIOUS
<1>2. n \in Nat
  BY DEF TableOK
<1>2a. CASE there = {} /\ n + 1 \in DOMAIN rs
  <2> DEFINE more == acc.ok /\ cols = {} /\ decl.multirow
  <2>1. r = [acc EXCEPT !.serial = n + 1, !.ok = more]
    BY <1>1, <1>2a DEF Upserted
  <2>2. r = [ok |-> more, rows |-> rs, serial |-> n + 1, ids |-> <<>>]
    BY <2>1
  <2> HIDE DEF r, more
  <2>3. r.ok = more /\ r.rows = rs /\ r.serial = n + 1 /\ r.ids = <<>>
    BY <2>2
  <2>4. TableOK(rs, n + 1)
    BY <1>2 DEF TableOK
  <2>5. Upserts(rs, n, v, rs, n + 1)
    BY <1>2, <2>4 DEF Upserts, Alike
  <2>6. r = [ok |-> r.ok, rows |-> r.rows, serial |-> r.serial, ids |-> <<>>]
    BY <2>2, <2>3
  <2>7. Upserts(rs, n, v, r.rows, r.serial)
    BY <2>3, <2>5
  <2> QED BY <2>6, <2>7 DEF r
<1>3. CASE there = {} /\ n + 1 \notin DOMAIN rs
  <2>1. r = [acc EXCEPT !.serial = n + 1, !.rows = grown]
    BY <1>1, <1>3 DEF Upserted
  <2>2. r = [ok |-> ok, rows |-> grown, serial |-> n + 1, ids |-> <<>>]
    BY <2>1
  <2>3. DOMAIN grown = {n + 1} \cup DOMAIN rs /\ grown[n + 1] = Stored(v)
        /\ \A p \in DOMAIN rs : grown[p] = rs[p]
    BY <1>2, <1>3
  <2> HIDE DEF grown
  <2>4. TableOK(grown, n + 1)
    <3>1. Stored(v) \in Row
      BY StoredRow
    <3>2. ASSUME NEW p \in DOMAIN rs
          PROVE  rs[p] \in Row /\ p \in Nat /\ (p <= n + 1 \/ (p = OwnId /\ ~decl.advances))
      BY <1>2 DEF TableOK
    <3>3. ASSUME NEW p \in DOMAIN grown
          PROVE  grown[p] \in Row /\ p \in Nat /\ (p <= n + 1 \/ (p = OwnId /\ ~decl.advances))
      <4>1. CASE p = n + 1
        <5>1. grown[p] \in Row /\ p \in Nat
          BY <1>2, <2>3, <3>1, <4>1
        <5>2. p <= n + 1
          BY <1>2, <4>1
        <5> QED BY <5>1, <5>2
      <4>2. CASE p \in DOMAIN rs
        BY <2>3, <3>2, <4>2
      <4> QED BY <2>3, <4>1, <4>2
    <3> QED BY <1>2, <3>3 DEF TableOK
  <2>5. \A p \in DOMAIN rs : rs[p].key # v.key
    BY <1>3
  <2>6. UniqueKeys(rs) => UniqueKeys(grown)
    <3> SUFFICES ASSUME UniqueKeys(rs), decl.unique, NEW p \in DOMAIN grown, NEW q \in DOMAIN grown,
                        grown[p].key = grown[q].key
                 PROVE  p = q
      BY DEF UniqueKeys
    <3>1. grown[n + 1].key = v.key
      BY <2>3, StoredRow
    <3> QED BY <2>3, <2>5, <3>1 DEF UniqueKeys
  <2>7. Upserts(rs, n, v, grown, n + 1)
    BY <1>2, <1>3, <2>3, <2>4, <2>6 DEF Upserts, Alike
  <2> HIDE DEF r
  <2>8. r.ok = ok /\ r.rows = grown /\ r.serial = n + 1 /\ r.ids = <<>>
    BY <2>2
  <2>9. r = [ok |-> r.ok, rows |-> r.rows, serial |-> r.serial, ids |-> <<>>]
    BY <2>2, <2>8
  <2>10. Upserts(rs, n, v, r.rows, r.serial)
    BY <2>7, <2>8
  <2> QED BY <2>9, <2>10 DEF r
<1>4. CASE there # {}
  <2>1. r = [acc EXCEPT !.rows = put]
    BY <1>1, <1>4 DEF Upserted
  <2>2. r = [ok |-> ok, rows |-> put, serial |-> n, ids |-> <<>>]
    BY <2>1
  <2>3. DOMAIN put = DOMAIN rs
    OBVIOUS
  <2>4. ASSUME NEW p \in DOMAIN rs PROVE put[p] \in Row /\ Alike(put[p], rs[p])
    <3>1. rs[p] \in Row
      BY DEF TableOK
    <3>2. CASE p \notin there
      BY <3>1, <3>2 DEF Alike
    <3>3. CASE p \in there
      <4> DEFINE w == [c \in DOMAIN rs[p] |-> IF c \in cols THEN v[c] ELSE rs[p][c]]
      <4>1. put[p] = w
        BY <3>3
      <4>2. DOMAIN rs[p] = {"key", "author", "state", "stamp", "by"}
        BY <3>1 DEF Row
      <4>3. /\ w.key = rs[p].key /\ w.state = rs[p].state /\ w.stamp = rs[p].stamp /\ w.by = rs[p].by
            /\ w.author = IF "author" \in cols THEN v.author ELSE rs[p].author
        BY <4>2
      <4>4. w = [key |-> w.key, author |-> w.author, state |-> w.state, stamp |-> w.stamp, by |-> w.by]
        BY <4>2
      <4> HIDE DEF w
      <4>5. w.author \in Authors \cup {None}
        BY <3>1, <4>3 DEF Row, Value
      <4>6. w \in Row
        BY <3>1, <4>3, <4>4, <4>5 DEF Row
      <4> QED BY <4>1, <4>3, <4>6 DEF Alike
    <3> QED BY <3>2, <3>3
  <2> HIDE DEF put
  <2>5. TableOK(put, n)
    BY <2>3, <2>4 DEF TableOK
  <2>6. UniqueKeys(rs) => UniqueKeys(put)
    BY <2>3, <2>4 DEF UniqueKeys, Alike
  <2>7. Upserts(rs, n, v, put, n)
    BY <1>2, <2>3, <2>4, <2>5, <2>6 DEF Upserts
  <2> HIDE DEF r
  <2>8. r.ok = ok /\ r.rows = put /\ r.serial = n /\ r.ids = <<>>
    BY <2>2
  <2>9. r = [ok |-> r.ok, rows |-> r.rows, serial |-> r.serial, ids |-> <<>>]
    BY <2>2, <2>8
  <2>10. Upserts(rs, n, v, r.rows, r.serial)
    BY <2>7, <2>8
  <2> QED BY <2>9, <2>10 DEF r
<1> QED BY <1>2a, <1>3, <1>4

\* Both rows of it: a new one has the values of the one or the other.
LEMMA UpsertsBoth ==
  ASSUME TableOK(rows, serial), NEW values \in Seq(Value), Len(values) = 2,
         NEW cols \in SUBSET {"author"}, values[1].by # values[2].by
  PROVE  LET e == ExecuteUpsert(values, cols) IN
         /\ TableOK(e.rows, e.serial) /\ serial <= e.serial
         /\ \A p \in DOMAIN rows : p \in DOMAIN e.rows /\ Alike(e.rows[p], rows[p])
         /\ \A p \in DOMAIN e.rows \ DOMAIN rows :
              /\ p \in Nat /\ serial < p
              /\ \E i \in DOMAIN values : Alike(e.rows[p], Stored(values[i]))
              /\ \A q \in DOMAIN e.rows \ DOMAIN rows : e.rows[q].by = e.rows[p].by => q = p
         /\ UniqueKeys(rows) => UniqueKeys(e.rows)
<1> DEFINE v == values[1]
           w == values[2]
           acc == [ok |-> TRUE, rows |-> rows, serial |-> serial, ids |-> <<>>]
           f == Upserted(acc, v, cols)
           e == Upserted(f, w, cols)
<1>1. v \in Value /\ w \in Value /\ DOMAIN values = {1, 2}
  OBVIOUS
<1>2. values = <<v, w>>
  <2>1. values = [i \in 1 .. 2 |-> values[i]] /\ <<v, w>> = [i \in 1 .. 2 |-> <<v, w>>[i]]
    OBVIOUS
  <2>2. \A i \in 1 .. 2 : values[i] = <<v, w>>[i]
    OBVIOUS
  <2> QED BY <2>1, <2>2
<1>3. ExecuteUpsert(values, cols) = e
  BY <1>2, UpsertPair
<1> HIDE DEF v, w
<1>4. /\ f = [ok |-> f.ok, rows |-> f.rows, serial |-> f.serial, ids |-> <<>>]
      /\ Upserts(rows, serial, v, f.rows, f.serial)
  BY <1>1, UpsertOne
<1> HIDE DEF f
<1>5. /\ e = [ok |-> e.ok, rows |-> e.rows, serial |-> e.serial, ids |-> <<>>]
      /\ Upserts(f.rows, f.serial, w, e.rows, e.serial)
  <2>1. TableOK(f.rows, f.serial)
    BY <1>4 DEF Upserts
  <2> QED BY <1>1, <1>4, <2>1, UpsertOne
<1> HIDE DEF e
<1>6. TableOK(e.rows, e.serial) /\ serial <= e.serial /\ serial \in Nat /\ f.serial \in Nat
  BY <1>4, <1>5 DEF Upserts, TableOK
<1>7. \A p \in DOMAIN rows : p \in DOMAIN f.rows /\ p \in DOMAIN e.rows /\ Alike(e.rows[p], rows[p])
  BY <1>4, <1>5 DEF Upserts, Alike
<1>8. ASSUME NEW p \in DOMAIN f.rows \ DOMAIN rows
      PROVE  /\ p \in Nat /\ serial < p /\ Alike(e.rows[p], Stored(v))
             /\ \A q \in DOMAIN f.rows \ DOMAIN rows : q = p
  BY <1>4, <1>5 DEF Upserts, Alike
<1>9. ASSUME NEW p \in DOMAIN e.rows \ DOMAIN f.rows
      PROVE  /\ p \in Nat /\ serial < p /\ e.rows[p] = Stored(w)
             /\ \A q \in DOMAIN e.rows \ DOMAIN f.rows : q = p
  BY <1>4, <1>5, <1>6 DEF Upserts
<1>10. Stored(v).by = v.by /\ Stored(w).by = w.by /\ v.by # w.by
  BY <1>1, StoredRow DEF v, w
<1>11. ASSUME NEW p \in DOMAIN e.rows \ DOMAIN rows
       PROVE  /\ p \in Nat /\ serial < p
              /\ \E i \in DOMAIN values : Alike(e.rows[p], Stored(values[i]))
  <2>1. CASE p \in DOMAIN f.rows
    BY <1>1, <1>8, <2>1 DEF v
  <2>2. CASE p \notin DOMAIN f.rows
    BY <1>1, <1>9, <2>2 DEF w, Alike
  <2> QED BY <2>1, <2>2
<1>12. ASSUME NEW p \in DOMAIN e.rows \ DOMAIN rows, NEW q \in DOMAIN e.rows \ DOMAIN rows,
              e.rows[q].by = e.rows[p].by
       PROVE  q = p
  BY <1>8, <1>9, <1>10, <1>12 DEF Alike
<1>13. UniqueKeys(rows) => UniqueKeys(e.rows)
  BY <1>4, <1>5 DEF Upserts
<1> QED BY <1>3, <1>6, <1>7, <1>11, <1>12, <1>13

-----------------------------------------------------------------------------
(* The answer to a statement. *)

Unchanged(e) == e.ok /\ e.rows = rows /\ e.serial = serial

\* What each kind of statement does to the table.
LEMMA ExecuteKinds ==
  ASSUME NEW s, s.kind \in Kinds
  PROVE  /\ s.kind = "insert" => Execute(s) = ExecuteInsert(s.values)
         /\ s.kind = "upsert" => Execute(s) = ExecuteUpsert(s.values, s.cols)
         /\ s.kind = "update" => Execute(s) = ExecuteUpdate(s.ids, s.values)
         /\ s.kind = "delete" => /\ Execute(s).ok /\ Execute(s).serial = serial
                                 /\ DOMAIN Execute(s).rows = DOMAIN rows \ {s.id}
                                 /\ \A p \in DOMAIN rows \ {s.id} : Execute(s).rows[p] = rows[p]
         /\ s.kind \notin {"insert", "upsert", "update", "delete"} => Unchanged(Execute(s))
<1>1. CASE s.kind = "insert"
  BY <1>1 DEF Execute
<1>2. CASE s.kind = "upsert"
  BY <1>2 DEF Execute
<1>3. CASE s.kind = "update"
  BY <1>3 DEF Execute
<1>4. CASE s.kind = "delete"
  <2> DEFINE left == [p \in {q \in DOMAIN rows : q # s.id} |-> rows[p]]
  <2>1. Execute(s) = [ok |-> TRUE, rows |-> left, serial |-> serial, ids |-> <<s.id>>]
    BY <1>4 DEF Execute, RestrictDomain, Restrict
  <2>2. DOMAIN left = DOMAIN rows \ {s.id} /\ \A p \in DOMAIN rows \ {s.id} : left[p] = rows[p]
    OBVIOUS
  <2> HIDE DEF left
  <2> QED BY <1>4, <2>1, <2>2
<1>5. CASE s.kind \notin {"insert", "upsert", "update", "delete"}
  <2>1. s.kind # "refuse"
    BY DEF Kinds
  <2>2. Execute(s) = [ok |-> TRUE, rows |-> rows, serial |-> serial, ids |-> <<>>]
    BY <1>5, <2>1 DEF Execute
  <2> QED BY <1>5, <2>2 DEF Unchanged
<1> QED BY <1>1, <1>2, <1>3, <1>4, <1>5

\* A row that is left has its key and the instance that inserted it; a new one is the
\* only one of its instance in this statement.
LEMMA ExecuteRows ==
  ASSUME NEW s, StmtOK(s, Len(objs)), Len(objs) \in Nat, RowsOK(rows, Len(objs)), TableOK(rows, serial),
         Execute(s).ok
  PROVE  LET e == Execute(s) IN
         /\ RowsOK(e.rows, Len(objs)) /\ e.serial \in Nat /\ serial <= e.serial
<1> DEFINE e == Execute(s)
           n == Len(objs)
<1>0. s.kind \in Kinds /\ serial \in Nat /\ \A p \in DOMAIN rows : rows[p] \in Row
  BY DEF StmtOK, TableOK
<1>1. CASE s.kind = "insert"
  <2>1. InsertOK(s, n) /\ e = ExecuteInsert(s.values)
    BY <1>0, <1>1, ExecuteKinds DEF StmtOK
  <2>2. s.values \in Seq(Value) /\ DOMAIN s.values = DOMAIN s.os /\ s.os \in Seq(1 .. n)
    BY <2>1 DEF InsertOK, BatchOK
  <2> HIDE DEF e
  <2>3. ASSUME NEW p \in DOMAIN e.rows
        PROVE  p \in Nat \cup {OwnId} /\ e.rows[p] \in Row /\ e.rows[p].by \in 1 .. n
    <3>1. CASE p \in DOMAIN rows
      BY <1>0, <2>1, <2>2, <3>1, Inserts DEF RowsOK, e
    <3>2. CASE p \notin DOMAIN rows
      <4>1. PICK i \in DOMAIN s.values : e.ids[i] = p
        BY <1>0, <2>1, <2>2, <3>2, Inserts DEF e
      <4>2. e.rows[p] = Stored(s.values[i]) /\ e.ids \in Seq(Nat \cup {OwnId}) /\ Len(e.ids) = Len(s.values)
        BY <1>0, <2>1, <2>2, <4>1, Inserts DEF e
      <4>3. s.values[i] \in Value /\ s.values[i].by = s.os[i] /\ s.os[i] \in 1 .. n
        BY <2>1, <2>2 DEF InsertOK
      <4>4. i \in DOMAIN e.ids
        BY <2>2, <4>2
      <4>5. p \in Nat \cup {OwnId}
        BY <4>1, <4>2, <4>4
      <4> QED BY <4>2, <4>3, <4>5, StoredRow
    <3> QED BY <3>1, <3>2
  <2>4. e.serial \in Nat /\ serial <= e.serial
    BY <1>0, <2>1, <2>2, Inserts DEF e
  <2> QED BY <2>3, <2>4 DEF RowsOK, e
<1>2. CASE s.kind = "upsert"
  <2>1. InsertOK(s, n) /\ e = ExecuteUpsert(s.values, s.cols) /\ s.cols \subseteq {"author"} /\ Len(s.os) = 2
    BY <1>0, <1>2, ExecuteKinds DEF StmtOK
  <2>2. /\ s.values \in Seq(Value) /\ Len(s.values) = 2 /\ DOMAIN s.values = DOMAIN s.os /\ s.os \in Seq(1 .. n)
        /\ DOMAIN s.os = {1, 2}
    BY <2>1 DEF InsertOK, BatchOK
  <2>3. s.values[1].by # s.values[2].by
    BY <2>1, <2>2 DEF InsertOK, BatchOK, Once
  <2> HIDE DEF e
  <2>4. ASSUME NEW p \in DOMAIN e.rows
        PROVE  p \in Nat \cup {OwnId} /\ e.rows[p] \in Row /\ e.rows[p].by \in 1 .. n
    <3>0. e.rows[p] \in Row
      BY <2>1, <2>2, <2>3, UpsertsBoth DEF e, TableOK
    <3>1. CASE p \in DOMAIN rows
      <4>1. Alike(e.rows[p], rows[p])
        BY <2>1, <2>2, <2>3, <3>1, UpsertsBoth DEF e
      <4> QED BY <3>0, <3>1, <4>1 DEF RowsOK, Alike
    <3>2. CASE p \notin DOMAIN rows
      <4>1. p \in Nat /\ \E i \in DOMAIN s.values : Alike(e.rows[p], Stored(s.values[i]))
        BY <2>1, <2>2, <2>3, <3>2, UpsertsBoth DEF e
      <4>2. PICK i \in DOMAIN s.values : Alike(e.rows[p], Stored(s.values[i]))
        BY <4>1
      <4>3. s.values[i] \in Value /\ s.values[i].by = s.os[i] /\ s.os[i] \in 1 .. n
        BY <2>1, <2>2 DEF InsertOK
      <4> QED BY <3>0, <4>1, <4>2, <4>3, StoredRow DEF Alike
    <3> QED BY <3>1, <3>2
  <2>5. e.serial \in Nat /\ serial <= e.serial
    BY <2>1, <2>2, <2>3, UpsertsBoth DEF e, TableOK
  <2> QED BY <2>4, <2>5 DEF RowsOK, e
<1>3. CASE s.kind = "update"
  <2>1. /\ e.ok /\ e = ExecuteUpdate(s.ids, s.values) /\ s.os \in Seq(1 .. n) /\ s.ids \in Seq(Ids) /\ Len(s.ids) = Len(s.os)
        /\ DOMAIN s.values = DOMAIN s.os /\ \A i \in DOMAIN s.os : PartOK(s.values[i])
    BY <1>0, <1>3, ExecuteKinds DEF StmtOK, BatchOK
  <2>2. DOMAIN s.ids = 1 .. Len(s.os) /\ DOMAIN s.values = 1 .. Len(s.os) /\ Len(s.os) \in Nat
    BY <2>1
  <2> HIDE DEF e
  <2>3. /\ e.serial = serial /\ DOMAIN e.rows = DOMAIN rows
        /\ \A p \in DOMAIN rows :
              \/ e.rows[p] = rows[p]
              \/ \E i \in DOMAIN s.os : e.rows[p] = Put(rows[p], s.values[i])
    <3> DEFINE m == Len(s.os)
               u == ExecuteUpdate(s.ids, s.values)
    <3>1. m \in Nat /\ DOMAIN s.ids = 1 .. m /\ DOMAIN s.values = 1 .. m /\ DOMAIN s.os = 1 .. m /\ e = u
      BY <2>1, <2>2
    <3> HIDE DEF m
    <3>2. /\ u.serial = serial /\ DOMAIN u.rows = DOMAIN rows
          /\ \A p \in DOMAIN rows : \/ u.rows[p] = rows[p] /\ \A i \in 1 .. m : s.ids[i] # p
                                   \/ \E i \in 1 .. m : s.ids[i] = p /\ u.rows[p] = Put(rows[p], s.values[i])
          /\ u.ok <=> UniqueKeys(u.rows)
      BY <3>1, Updates
    <3> HIDE DEF u
    <3> QED BY <3>1, <3>2
  <2>4. ASSUME NEW p \in DOMAIN rows
        PROVE  e.rows[p] \in Row /\ e.rows[p].by \in 1 .. n
    <3>0. rows[p] \in Row /\ rows[p].by \in 1 .. n
      BY DEF RowsOK
    <3> QED BY <2>1, <2>3, <3>0, PutRow
  <2> QED BY <1>0, <2>3, <2>4 DEF RowsOK, e
<1>4. CASE s.kind = "delete"
  BY <1>0, <1>4, ExecuteKinds DEF RowsOK
<1>5. CASE s.kind \notin {"insert", "upsert", "update", "delete"}
  BY <1>0, <1>5, ExecuteKinds DEF RowsOK, Unchanged
<1> QED BY <1>1, <1>2, <1>3, <1>4, <1>5

-----------------------------------------------------------------------------
(* What an answer makes of the instances. *)

\* Two states of an instance that differ in the cache of its relation.
Same(a, b) ==
  /\ b.in_db = a.in_db /\ b.id = a.id /\ b.key = a.key /\ b.author = a.author
  /\ b.state = a.state /\ b.stamp = a.stamp /\ b.marks = a.marks

\* An instance becomes the row p; its default is read, marked as unread or still to be read.
Saved(a, b, p, row, follows) ==
  /\ b.in_db /\ b.id = p /\ b.key = a.key /\ b.author = a.author /\ b.stamp = a.stamp
  /\ \/ b.state = a.state /\ (a.state = None => b.marks \/ follows)
     \/ b.state = row.state

Reading(o) == [do |-> "defaults", o |-> o]
Follows(todo, o) == todo # <<>> /\ Head(todo) = Reading(o)

\* One instance is replaced, the others stay.
LEMMA PutOne ==
  ASSUME NEW os \in Seq(Instance), NEW o \in DOMAIN os, NEW b \in Instance
  PROVE  LET after == [os EXCEPT ![o] = b] IN
         /\ after \in Seq(Instance) /\ Len(after) = Len(os) /\ DOMAIN after = DOMAIN os
         /\ after[o] = b /\ \A x \in DOMAIN os : x # o => after[x] = os[x]
  OBVIOUS

\* The SELECT of the defaults goes before the work that is left.
LEMMA Prepended ==
  ASSUME NEW S, NEW a \in S, NEW rest \in Seq(S)
  PROVE  LET q == <<a>> \o rest IN q # <<>> /\ Head(q) = a /\ Tail(q) = rest
<1> DEFINE q == <<a>> \o rest
           first == <<a>>
<1>1. first \in Seq(S) /\ Len(first) = 1 /\ first[1] = a
  OBVIOUS
<1> HIDE DEF first
<1>2. /\ first \o rest \in Seq(S) /\ Len(first \o rest) = Len(first) + Len(rest)
      /\ \A i \in 1 .. Len(first) + Len(rest) :
           (first \o rest)[i] = IF i <= Len(first) THEN first[i] ELSE rest[i - Len(first)]
  BY <1>1, ConcatProperties
<1> DEFINE both == first \o rest
<1> HIDE DEF both
<1>3. /\ both \in Seq(S) /\ Len(both) = Len(rest) + 1 /\ both[1] = a
      /\ \A i \in 1 .. Len(rest) : both[i + 1] = rest[i]
  BY <1>1, <1>2 DEF both
<1>4. q \in Seq(S) /\ Len(q) = Len(rest) + 1 /\ q[1] = a /\ \A i \in 1 .. Len(rest) : q[i + 1] = rest[i]
  BY <1>3 DEF first, both
<1> HIDE DEF q
<1>5. q # <<>> /\ Head(q) = a /\ Tail(q) \in Seq(S) /\ Len(Tail(q)) = Len(rest)
      /\ \A i \in 1 .. Len(rest) : Tail(q)[i] = rest[i]
  BY <1>4
<1>6. Tail(q) = rest
  BY <1>5
<1> QED BY <1>5, <1>6 DEF q

\* An instance after its INSERT: stored under its key, with an unset default marked unread.
LEMMA Marked ==
  ASSUME NEW a \in Instance, NEW p \in Ids
  PROVE  LET b == MarkUnfetched([a EXCEPT !.id = p, !.in_db = TRUE]) IN
         /\ b \in Instance
         /\ b.in_db /\ b.id = p /\ b.key = a.key /\ b.author = a.author /\ b.stamp = a.stamp
         /\ b.state = a.state /\ b.cache = a.cache /\ (a.state = None => b.marks)
  BY DEF MarkUnfetched, Instance

\* refresh_from_db and update_or_create copy the columns they name, and no other.
LEMMA DictOK ==
  ASSUME NEW ob \in Instance, NEW cols \in SUBSET Columns, NEW rec,
         "key" \in cols => rec.key \in Keys, "author" \in cols => rec.author \in Authors \cup {None},
         "state" \in cols => rec.state \in States \cup {None},
         "stamp" \in cols => rec.stamp \in Stamps \cup {None}
  PROVE  LET w == UpdateFromDict(ob, rec, cols) IN
         /\ w \in Instance /\ w.in_db = ob.in_db /\ w.id = ob.id /\ w.cache = ob.cache
         /\ w.key = IF "key" \in cols THEN rec.key ELSE ob.key
         /\ w.author = IF "author" \in cols THEN rec.author ELSE ob.author
         /\ w.state = IF "state" \in cols THEN rec.state ELSE ob.state
         /\ w.stamp = IF "stamp" \in cols THEN rec.stamp ELSE ob.stamp
         /\ "state" \notin cols => w.marks = ob.marks
<1> DEFINE w == UpdateFromDict(ob, rec, cols)
<1>1. DOMAIN ob = {"in_db", "id", "key", "author", "state", "stamp", "marks", "cache"}
  BY DEF Instance
<1>2. w = [in_db |-> w.in_db, id |-> w.id, key |-> w.key, author |-> w.author, state |-> w.state,
           stamp |-> w.stamp, marks |-> w.marks, cache |-> w.cache]
  BY <1>1 DEF UpdateFromDict
<1>3. /\ w.in_db = ob.in_db /\ w.id = ob.id /\ w.cache = ob.cache
      /\ w.marks = (ob.marks /\ "state" \notin cols)
  BY <1>1 DEF UpdateFromDict, Columns
<1>4. /\ w.key = IF "key" \in cols THEN rec.key ELSE ob.key
      /\ w.author = IF "author" \in cols THEN rec.author ELSE ob.author
      /\ w.state = IF "state" \in cols THEN rec.state ELSE ob.state
      /\ w.stamp = IF "stamp" \in cols THEN rec.stamp ELSE ob.stamp
  BY <1>1 DEF UpdateFromDict, Columns
<1> HIDE DEF w
<1>5. w.marks \in BOOLEAN
  BY <1>3
<1>6. w \in Instance
  BY <1>2, <1>3, <1>4, <1>5 DEF Instance
<1>7. "state" \notin cols => w.marks = ob.marks
  BY <1>3 DEF Instance
<1> QED BY <1>3, <1>4, <1>6, <1>7 DEF w

\* What an answer without new instances keeps.
Kept(r, j) == /\ r.ok /\ r.results = j.results /\ r.objs \in Seq(Instance) /\ Len(r.objs) = Len(objs)

\* After an INSERT, single or of many rows, each instance carries the key of its own row.
LEMMA AnswerInsert ==
  ASSUME NEW j, NEW n, JobOK(j, n), n = Len(objs), ObjsOK(objs), j.stmt.kind = "insert",
         NEW e, e.ok, Len(e.ids) = Len(j.stmt.os), e.ids \in Seq(Nat \cup {OwnId}),
         \A i \in DOMAIN j.stmt.os : e.rows[e.ids[i]] \in Row, NEW pick
  PROVE  LET r == Resume(j, e, objs, pick)
             s == j.stmt
         IN /\ Kept(r, j)
            /\ \A x \in DOMAIN objs \ ToSet(s.os) : r.objs[x] = objs[x]
            /\ \A i \in DOMAIN s.os :
                 Saved(objs[s.os[i]], r.objs[s.os[i]], e.ids[i], e.rows[e.ids[i]], Follows(r.todo, s.os[i]))
            /\ \/ r.todo = j.todo
               \/ \E o \in ToSet(s.os) : Follows(r.todo, o) /\ Tail(r.todo) = j.todo
<1> DEFINE r == Resume(j, e, objs, pick)
           s == j.stmt
<1>1. /\ s.os \in Seq(1 .. n) /\ s.os # <<>> /\ Once(s.os) /\ s.one \in BOOLEAN /\ (s.one => Len(s.os) = 1)
      /\ n \in Nat /\ objs \in Seq(Instance) /\ DOMAIN objs = 1 .. n /\ j.todo \in Seq(Items)
  BY DEF JobOK, StmtOK, InsertOK, BatchOK, ObjsOK
<1>2. ToSet(s.os) \subseteq DOMAIN objs /\ \A i \in DOMAIN s.os : s.os[i] \in ToSet(s.os) /\ objs[s.os[i]] \in Instance
  BY <1>1 DEF ToSet
<1>3. \A i \in DOMAIN s.os : e.ids[i] \in Ids
  BY <1>1 DEF Ids
<1>4. CASE s.one
  <2> DEFINE o == s.os[1]
             ob == [objs[o] EXCEPT !.id = e.ids[1], !.in_db = TRUE]
             read == [ob EXCEPT !.state = e.rows[e.ids[1]].state, !.marks = FALSE]
  <2>1. r = ResumeInsert(j, e, objs)
    BY <1>4 DEF Resume
  <2>2. DOMAIN s.os = {1} /\ o \in DOMAIN objs /\ ToSet(s.os) = {o} /\ objs[o] \in Instance
    BY <1>1, <1>2, <1>4 DEF ToSet
  <2>3. e.ids[1] \in Ids /\ e.rows[e.ids[1]] \in Row
    BY <1>3, <2>2
  <2>4. CASE ~decl.fetch
    <3> DEFINE b == MarkUnfetched(ob)
    <3>1. r = Answer([objs EXCEPT ![o] = b], j.todo, j.results)
      BY <2>1, <2>4 DEF ResumeInsert
    <3>2. b \in Instance /\ Saved(objs[o], b, e.ids[1], e.rows[e.ids[1]], Follows(r.todo, o))
      BY <2>2, <2>3, Marked DEF Saved
    <3> HIDE DEF b
    <3>3. r.ok /\ r.results = j.results /\ r.todo = j.todo /\ r.objs = [objs EXCEPT ![o] = b]
      BY <3>1 DEF Answer
    <3>4. s.os[1] = o
      OBVIOUS
    <3> HIDE DEF r, o, s
    <3>5. Kept(r, j) /\ r.objs[o] = b /\ \A x \in DOMAIN objs : x # o => r.objs[x] = objs[x]
      BY <1>1, <2>2, <3>2, <3>3, PutOne DEF Kept
    <3> QED BY <2>2, <3>2, <3>3, <3>4, <3>5 DEF r, s
  <2>5. CASE decl.fetch /\ decl.returning
    <3>1. r = Answer([objs EXCEPT ![o] = read], j.todo, j.results)
      BY <2>1, <2>5 DEF ResumeInsert
    <3>2. read \in Instance /\ Saved(objs[o], read, e.ids[1], e.rows[e.ids[1]], Follows(r.todo, o))
      BY <2>2, <2>3 DEF Saved, Instance, Row
    <3> HIDE DEF read, ob
    <3>3. r.ok /\ r.results = j.results /\ r.todo = j.todo /\ r.objs = [objs EXCEPT ![o] = read]
      BY <3>1 DEF Answer
    <3>4. s.os[1] = o
      OBVIOUS
    <3> HIDE DEF r, o, s
    <3>5. Kept(r, j) /\ r.objs[o] = read /\ \A x \in DOMAIN objs : x # o => r.objs[x] = objs[x]
      BY <1>1, <2>2, <3>2, <3>3, PutOne DEF Kept
    <3> QED BY <2>2, <3>2, <3>3, <3>4, <3>5 DEF r, s
  <2>6. CASE decl.fetch /\ ~decl.returning
    <3>1. r = Answer([objs EXCEPT ![o] = ob], <<Reading(o)>> \o j.todo, j.results)
      BY <2>1, <2>6 DEF ResumeInsert, Reading
    <3>2. r.ok /\ r.results = j.results /\ r.todo = <<Reading(o)>> \o j.todo /\ r.objs = [objs EXCEPT ![o] = ob]
      BY <3>1 DEF Answer
    <3>3. r.todo # <<>> /\ Head(r.todo) = Reading(o) /\ Tail(r.todo) = j.todo
      <4> DEFINE S == Items \cup {Reading(o)}
      <4>1. j.todo \in Seq(S) /\ Reading(o) \in S
        BY <1>1
      <4> HIDE DEF S, o, r
      <4> QED BY <3>2, <4>1, Prepended
    <3>4. ob \in Instance /\ Saved(objs[o], ob, e.ids[1], e.rows[e.ids[1]], Follows(r.todo, o))
      BY <2>2, <2>3, <3>3 DEF Saved, Instance, Follows
    <3>5. s.os[1] = o
      OBVIOUS
    <3> HIDE DEF ob, r, o, s
    <3>6. Kept(r, j) /\ r.objs[o] = ob /\ \A x \in DOMAIN objs : x # o => r.objs[x] = objs[x]
      BY <1>1, <2>2, <3>2, <3>4, PutOne DEF Kept
    <3>7. Follows(r.todo, o)
      BY <3>3 DEF Follows
    <3> QED BY <2>2, <3>3, <3>4, <3>5, <3>6, <3>7 DEF r, s
  <2> QED BY <2>4, <2>5, <2>6
<1>5. CASE ~s.one
  <2> DEFINE saved(i) == MarkUnfetched([objs[s.os[i]] EXCEPT !.id = e.ids[i], !.in_db = TRUE])
             place(o) == CHOOSE i \in DOMAIN s.os : s.os[i] = o
             after == [o \in DOMAIN objs |-> IF o \in ToSet(s.os) THEN saved(place(o)) ELSE objs[o]]
  <2>1. r = Answer(after, j.todo, j.results)
    BY <1>1, <1>5 DEF Resume, ResumeBulkInsert
  <2>2. r.ok /\ r.results = j.results /\ r.todo = j.todo /\ r.objs = after
    <3> HIDE DEF after
    <3> QED BY <2>1 DEF Answer
  <2>3. \A i \in DOMAIN s.os : place(s.os[i]) = i
    BY <1>1 DEF Once
  <2>4. ASSUME NEW i \in DOMAIN s.os
        PROVE  saved(i) \in Instance /\ Saved(objs[s.os[i]], saved(i), e.ids[i], e.rows[e.ids[i]], Follows(r.todo, s.os[i]))
    BY <1>2, <1>3, Marked DEF Saved
  <2>5. \A o \in ToSet(s.os) : place(o) \in DOMAIN s.os /\ s.os[place(o)] = o
    BY DEF ToSet
  <2> HIDE DEF saved, place
  <2>6. /\ \A i \in DOMAIN s.os : after[s.os[i]] = saved(i)
        /\ \A x \in DOMAIN objs \ ToSet(s.os) : after[x] = objs[x]
        /\ DOMAIN after = 1 .. n
    BY <1>1, <1>2, <2>3
  <2>7. \A x \in DOMAIN objs : after[x] \in Instance
    <3>1. ASSUME NEW x \in DOMAIN objs PROVE after[x] \in Instance
      <4>1. CASE x \in ToSet(s.os)
        BY <2>4, <2>5, <2>6, <4>1
      <4>2. CASE x \notin ToSet(s.os)
        BY <1>1, <2>6, <4>2
      <4> QED BY <4>1, <4>2
    <3> QED BY <3>1
  <2>8. after \in Seq(Instance) /\ Len(after) = n
    <3>1. after = [x \in 1 .. n |-> after[x]]
      BY <1>1
    <3> HIDE DEF after
    <3> QED BY <1>1, <2>6, <2>7, <3>1
  <2> HIDE DEF after, r
  <2> QED BY <2>2, <2>4, <2>6, <2>8 DEF r, Kept
<1> QED BY <1>1, <1>4, <1>5

\* After an UPDATE or an upsert no instance changes.
LEMMA AnswerPlain ==
  ASSUME NEW j, ObjsOK(objs), j.stmt.kind \in {"upsert", "update"}, NEW e, e.ok, NEW pick
  PROVE  LET r == Resume(j, e, objs, pick) IN Kept(r, j) /\ r.objs = objs /\ r.todo = j.todo
<1>1. Resume(j, e, objs, pick) = Answer(objs, j.todo, j.results)
  BY DEF Resume
<1> QED BY <1>1 DEF Answer, Kept, ObjsOK

\* What the answer to s makes of its instance.
Targets(s, e, a, b) ==
  /\ b.id = a.id /\ b.cache = a.cache
  /\ s.kind = "delete" => /\ ~b.in_db /\ b.key = a.key /\ b.author = a.author /\ b.state = a.state
                          /\ b.stamp = a.stamp /\ b.marks = a.marks
  /\ s.kind = "defaults" => /\ s.id \in DOMAIN e.rows
                            /\ b.in_db = a.in_db /\ b.key = a.key /\ b.author = a.author /\ b.stamp = a.stamp
                            /\ b.state = e.rows[s.id].state
  /\ s.kind = "reload" => /\ s.id \in DOMAIN e.rows /\ b.in_db = a.in_db
                          /\ b.key = e.rows[s.id].key /\ b.author = e.rows[s.id].author
                          /\ b.state = e.rows[s.id].state /\ b.stamp = e.rows[s.id].stamp

\* A DELETE, a SELECT of the defaults and a refresh touch their one instance.
LEMMA AnswerTargeted ==
  ASSUME NEW j, NEW n, JobOK(j, n), n = Len(objs), ObjsOK(objs), j.stmt.kind \in {"delete", "defaults", "reload"},
         NEW e, e.ok, \A p \in DOMAIN e.rows : e.rows[p] \in Row, NEW pick, Resume(j, e, objs, pick).ok
  PROVE  LET r == Resume(j, e, objs, pick)
             s == j.stmt
             a == objs[s.os[1]]
             b == r.objs[s.os[1]]
         IN /\ Kept(r, j) /\ r.todo = j.todo
            /\ s.os[1] \in DOMAIN objs /\ \A x \in DOMAIN objs \ {s.os[1]} : r.objs[x] = objs[x]
            /\ Targets(s, e, a, b)
<1> DEFINE r == Resume(j, e, objs, pick)
           s == j.stmt
           o == s.os[1]
<1>1. s.os \in Seq(1 .. n) /\ Len(s.os) = 1 /\ n \in Nat /\ objs \in Seq(Instance) /\ DOMAIN objs = 1 .. n
  BY DEF JobOK, StmtOK, ObjsOK, Targeted
<1>2. o \in DOMAIN objs /\ objs[o] \in Instance
  BY <1>1
<1>3. CASE s.kind = "delete"
  <2> DEFINE b == [objs[o] EXCEPT !.in_db = FALSE]
  <2>1. r = Answer([objs EXCEPT ![o] = b], j.todo, j.results)
    BY <1>3, <1>2 DEF Resume
  <2>2. /\ b \in Instance /\ ~b.in_db /\ b.id = objs[o].id /\ b.cache = objs[o].cache /\ b.key = objs[o].key
        /\ b.author = objs[o].author /\ b.state = objs[o].state /\ b.stamp = objs[o].stamp /\ b.marks = objs[o].marks
    BY <1>2 DEF Instance
  <2>3. r.ok /\ r.results = j.results /\ r.todo = j.todo /\ r.objs = [objs EXCEPT ![o] = b]
    BY <2>1 DEF Answer
  <2>4. s.os[1] = o
    OBVIOUS
  <2> HIDE DEF r, b, o, s
  <2>5. Kept(r, j) /\ r.objs[o] = b /\ \A x \in DOMAIN objs : x # o => r.objs[x] = objs[x]
    BY <1>1, <1>2, <2>2, <2>3, PutOne DEF Kept
  <2> QED BY <1>2, <1>3, <2>2, <2>3, <2>4, <2>5 DEF r, s, Targets
<1>4. CASE s.kind = "defaults"
  <2> DEFINE b == MarkUnfetched(SetAttr(objs[o], "state", e.rows[s.id].state))
  <2>1. s.id \in DOMAIN e.rows /\ r = Answer([objs EXCEPT ![o] = b], j.todo, j.results)
    BY <1>4, <1>2 DEF Resume, ResumeDefaults, Raises
  <2>2. e.rows[s.id].state \in States \cup {None}
    BY <2>1 DEF Row
  <2>3. /\ b \in Instance /\ b.in_db = objs[o].in_db /\ b.id = objs[o].id /\ b.cache = objs[o].cache /\ b.key = objs[o].key
        /\ b.author = objs[o].author /\ b.state = e.rows[s.id].state /\ b.stamp = objs[o].stamp
    BY <1>2, <2>2 DEF Instance, MarkUnfetched, SetAttr
  <2>4. r.ok /\ r.results = j.results /\ r.todo = j.todo /\ r.objs = [objs EXCEPT ![o] = b]
    BY <2>1 DEF Answer
  <2>5. s.os[1] = o
    OBVIOUS
  <2> HIDE DEF r, b, o, s
  <2>6. Kept(r, j) /\ r.objs[o] = b /\ \A x \in DOMAIN objs : x # o => r.objs[x] = objs[x]
    BY <1>1, <1>2, <2>3, <2>4, PutOne DEF Kept
  <2> QED BY <1>2, <1>4, <2>1, <2>3, <2>4, <2>5, <2>6 DEF r, s, Targets
<1>5. CASE s.kind = "reload"
  <2> DEFINE b == UpdateFromDict(objs[o], e.rows[s.id], Columns)
  <2>1. s.id \in DOMAIN e.rows /\ r = Answer([objs EXCEPT ![o] = b], j.todo, j.results)
    BY <1>5, <1>2 DEF Resume, ResumeReload, Raises
  <2>2. e.rows[s.id] \in Row
    BY <2>1
  <2>3. /\ b \in Instance /\ b.in_db = objs[o].in_db /\ b.id = objs[o].id /\ b.cache = objs[o].cache
        /\ b.key = e.rows[s.id].key /\ b.author = e.rows[s.id].author
        /\ b.state = e.rows[s.id].state /\ b.stamp = e.rows[s.id].stamp
    <3>1. Columns \in SUBSET Columns /\ Columns = {"key", "author", "state", "stamp"}
      BY DEF Columns
    <3>2. /\ e.rows[s.id].key \in Keys /\ e.rows[s.id].author \in Authors \cup {None}
          /\ e.rows[s.id].state \in States \cup {None} /\ e.rows[s.id].stamp \in Stamps \cup {None}
      BY <2>2 DEF Row
    <3> DEFINE row == e.rows[s.id]
               a == objs[o]
    <3>3. b = UpdateFromDict(a, row, Columns)
      OBVIOUS
    <3> HIDE DEF row, a, b
    <3>4. a \in Instance /\ row.key \in Keys /\ row.author \in Authors \cup {None}
          /\ row.state \in States \cup {None} /\ row.stamp \in Stamps \cup {None}
      BY <1>2, <3>2 DEF row, a
    <3>5. b \in Instance /\ b.in_db = a.in_db /\ b.id = a.id /\ b.cache = a.cache
          /\ b.key = row.key /\ b.author = row.author /\ b.state = row.state /\ b.stamp = row.stamp
      <4>1. "key" \in Columns /\ "author" \in Columns /\ "state" \in Columns /\ "stamp" \in Columns
        BY <3>1
      <4>2. LET w == UpdateFromDict(a, row, Columns) IN
         /\ w \in Instance /\ w.in_db = a.in_db /\ w.id = a.id /\ w.cache = a.cache
         /\ w.key = IF "key" \in Columns THEN row.key ELSE a.key
         /\ w.author = IF "author" \in Columns THEN row.author ELSE a.author
         /\ w.state = IF "state" \in Columns THEN row.state ELSE a.state
         /\ w.stamp = IF "stamp" \in Columns THEN row.stamp ELSE a.stamp
         /\ "state" \notin Columns => w.marks = a.marks
        <5>1. /\ "key" \in Columns => row.key \in Keys
              /\ "author" \in Columns => row.author \in Authors \cup {None}
              /\ "state" \in Columns => row.state \in States \cup {None}
              /\ "stamp" \in Columns => row.stamp \in Stamps \cup {None}
              /\ Columns \in SUBSET Columns
          BY <3>1, <3>4
        <5> QED BY <3>4, <5>1, DictOK, SMTT(30)
      <4> QED BY <3>3, <4>1, <4>2
    <3> QED BY <3>5 DEF row, a
  <2>4. r.ok /\ r.results = j.results /\ r.todo = j.todo /\ r.objs = [objs EXCEPT ![o] = b]
    BY <2>1 DEF Answer
  <2>5. s.os[1] = o
    OBVIOUS
  <2> HIDE DEF r, b, o, s
  <2>6. Kept(r, j) /\ r.objs[o] = b /\ \A x \in DOMAIN objs : x # o => r.objs[x] = objs[x]
    BY <1>1, <1>2, <2>3, <2>4, PutOne DEF Kept
  <2> QED BY <1>2, <1>5, <2>1, <2>3, <2>4, <2>5, <2>6 DEF r, s, Targets
<1> QED BY <1>3, <1>4, <1>5

-----------------------------------------------------------------------------
(* How new instances are spread over INSERTs. *)

\* FlattenSeq, where bulk_create needs it.
LEMMA FlattenOne ==
  ASSUME NEW s
  PROVE  FlattenSeq(<<s>>) = s
<1> DEFINE q == <<s>>
           F == CHOOSE f : f = [i \in 1 .. Len(q) |-> IF i = 1 THEN q[i] ELSE f[i - 1] \o q[i]]
           G == [i \in {1} |-> s]
<1>1. Len(q) = 1 /\ q[1] = s /\ 1 .. 1 = {1}
  OBVIOUS
<1> HIDE DEF q
<1>2. FlattenSeq(q) = F[1]
  BY <1>1 DEF FlattenSeq
<1>3. G = [i \in 1 .. Len(q) |-> IF i = 1 THEN q[i] ELSE G[i - 1] \o q[i]]
  BY <1>1
<1>4. F = [i \in 1 .. Len(q) |-> IF i = 1 THEN q[i] ELSE F[i - 1] \o q[i]]
  <2> HIDE DEF G
  <2> QED BY <1>3
<1> HIDE DEF F
<1>5. F[1] = q[1]
  BY <1>1, <1>4
<1> QED BY <1>1, <1>2, <1>5 DEF q

\* See FlattenOne.
LEMMA FlattenTwo ==
  ASSUME NEW s, NEW t
  PROVE  FlattenSeq(<<s, t>>) = s \o t
<1> DEFINE q == <<s, t>>
           F == CHOOSE f : f = [i \in 1 .. Len(q) |-> IF i = 1 THEN q[i] ELSE f[i - 1] \o q[i]]
           G == [i \in 1 .. 2 |-> IF i = 1 THEN s ELSE s \o t]
<1>1. Len(q) = 2 /\ q[1] = s /\ q[2] = t
  OBVIOUS
<1> HIDE DEF q
<1>2. FlattenSeq(q) = F[2]
  BY <1>1 DEF FlattenSeq
<1>3. G = [i \in 1 .. Len(q) |-> IF i = 1 THEN q[i] ELSE G[i - 1] \o q[i]]
  <2>1. G[1] = s /\ G[2] = s \o t
    OBVIOUS
  <2>2. \A i \in 1 .. 2 : G[i] = IF i = 1 THEN q[i] ELSE G[i - 1] \o q[i]
    <3> HIDE DEF G
    <3>1. \A i \in 1 .. 2 : i = 1 \/ i = 2
      OBVIOUS
    <3>2. 2 - 1 = 1 /\ 2 # 1
      OBVIOUS
    <3> QED BY <1>1, <2>1, <3>1, <3>2, Zenon
  <2>3. G = [i \in 1 .. 2 |-> G[i]]
    OBVIOUS
  <2> HIDE DEF G
  <2> QED BY <1>1, <2>2, <2>3
<1>4. F = [i \in 1 .. Len(q) |-> IF i = 1 THEN q[i] ELSE F[i - 1] \o q[i]]
  <2> HIDE DEF G
  <2> QED BY <1>3
<1> HIDE DEF F
<1>5. F[1] = q[1]
  BY <1>1, <1>4
<1>6. F[2] = F[1] \o q[2]
  <2>1. 2 - 1 = 1 /\ 2 # 1 /\ 2 \in 1 .. Len(q)
    BY <1>1
  <2>2. F[2] = IF 2 = 1 THEN q[2] ELSE F[2 - 1] \o q[2]
    BY <1>4, <2>1
  <2> QED BY <2>1, <2>2
<1> QED BY <1>1, <1>2, <1>5, <1>6 DEF q

\* See AppendTwo.
LEMMA PairOf ==
  ASSUME NEW a, NEW b
  PROVE  <<a>> \o <<b>> = <<a, b>>
<1> DEFINE S == {a, b}
           q == <<a>>
           r == <<b>>
           w == q \o r
<1>1. q \in Seq(S) /\ r \in Seq(S) /\ Len(q) = 1 /\ Len(r) = 1 /\ q[1] = a /\ r[1] = b
  OBVIOUS
<1> HIDE DEF S, q, r
<1>2. /\ w \in Seq(S) /\ Len(w) = Len(q) + Len(r)
      /\ \A i \in 1 .. Len(q) + Len(r) : w[i] = IF i <= Len(q) THEN q[i] ELSE r[i - Len(q)]
  BY <1>1, ConcatProperties
<1> HIDE DEF w
<1>3. w \in Seq(S) /\ Len(w) = 2 /\ w[1] = a /\ w[2] = b
  BY <1>1, <1>2
<1>4. w = [i \in 1 .. 2 |-> w[i]] /\ <<a, b>> = [i \in 1 .. 2 |-> <<a, b>>[i]]
  BY <1>3
<1>5. \A i \in 1 .. 2 : w[i] = <<a, b>>[i]
  BY <1>3
<1> QED BY <1>4, <1>5 DEF w, q, r

\* The INSERTs for two new instances x and y.
TwoInserts(w, x, y) ==
  \/ w = <<Insert(<<x, y>>)>>
  \/ w = <<Insert(<<x>>), Insert(<<y>>)>>
  \/ w = <<Insert(<<y>>), Insert(<<x>>)>>

\* bulk_create of one instance is one INSERT.
LEMMA StatementsOne ==
  ASSUME NEW os, NEW x
  PROVE  Statements(os, <<x>>) = <<Insert(<<x>>)>>
<1> DEFINE split(g) == IF decl.multirow THEN <<Insert(g)>> ELSE [i \in DOMAIN g |-> Insert(<<g[i]>>)]
           groups == Grouped(os, <<x>>)
           A == {o \in DOMAIN os : os[o].state # None}
           B == {o \in DOMAIN os : os[o].state = None}
<1>1. groups = <<<<x>>>>
  <2>1. Those(<<x>>, A) = IF x \in A THEN <<x>> ELSE <<>>
    BY ThoseOne
  <2>2. Those(<<x>>, B) = IF x \in B THEN <<x>> ELSE <<>>
    BY ThoseOne
  <2>3. x \notin A \/ x \notin B
    OBVIOUS
  <2> HIDE DEF A, B
  <2>4. Those(<<x>>, A) = <<>> \/ Those(<<x>>, B) = <<>>
    BY <2>1, <2>2, <2>3
  <2> QED BY <2>4 DEF Grouped, A, B
<1>2. split(<<x>>) = <<Insert(<<x>>)>>
  OBVIOUS
<1> HIDE DEF groups
<1>3. [i \in DOMAIN groups |-> split(groups[i])] = <<split(<<x>>)>>
  <2> HIDE DEF split
  <2>1. DOMAIN groups = 1 .. 1 /\ groups[1] = <<x>>
    BY <1>1
  <2>2. <<split(<<x>>)>> = [i \in 1 .. 1 |-> split(<<x>>)]
    OBVIOUS
  <2>3. \A i \in 1 .. 1 : i = 1
    OBVIOUS
  <2> QED BY <2>1, <2>2, <2>3, Zenon
<1>4. Statements(os, <<x>>) = FlattenSeq([i \in DOMAIN groups |-> split(groups[i])])
  BY DEF Statements, groups
<1> QED BY <1>2, <1>3, <1>4, FlattenOne

\* bulk_create of two instances is one INSERT or two, and each instance is in one of them.
LEMMA StatementsTwo ==
  ASSUME NEW os, NEW x, NEW y
  PROVE  TwoInserts(Statements(os, <<x, y>>), x, y)
<1> DEFINE split(g) == IF decl.multirow THEN <<Insert(g)>> ELSE [i \in DOMAIN g |-> Insert(<<g[i]>>)]
           groups == Grouped(os, <<x, y>>)
           A == {o \in DOMAIN os : os[o].state # None}
           B == {o \in DOMAIN os : os[o].state = None}
<1>1. groups = <<<<x, y>>>> \/ groups = <<<<x>>, <<y>>>> \/ groups = <<<<y>>, <<x>>>>
  <2>1. Those(<<x, y>>, A) = IF x \in A THEN IF y \in A THEN <<x, y>> ELSE <<x>>
                             ELSE IF y \in A THEN <<y>> ELSE <<>>
    BY ThosePair
  <2>2. Those(<<x, y>>, B) = IF x \in B THEN IF y \in B THEN <<x, y>> ELSE <<x>>
                             ELSE IF y \in B THEN <<y>> ELSE <<>>
    BY ThosePair
  <2>3. x \notin A \/ x \notin B
    OBVIOUS
  <2>4. y \notin A \/ y \notin B
    OBVIOUS
  <2>5. \/ groups = <<<<x, y>>>>
        \/ /\ Those(<<x, y>>, A) # <<>> /\ Those(<<x, y>>, B) # <<>>
           /\ \/ groups = <<Those(<<x, y>>, A), Those(<<x, y>>, B)>>
              \/ groups = <<Those(<<x, y>>, B), Those(<<x, y>>, A)>>
    BY DEF Grouped
  <2> HIDE DEF A, B
  <2>6. Those(<<x, y>>, A) = <<>> \/ Those(<<x, y>>, B) = <<>>
        \/ (Those(<<x, y>>, A) = <<x>> /\ Those(<<x, y>>, B) = <<y>>)
        \/ (Those(<<x, y>>, A) = <<y>> /\ Those(<<x, y>>, B) = <<x>>)
    BY <2>1, <2>2, <2>3, <2>4, Zenon
  <2> QED BY <2>5, <2>6, Zenon
<1>2. split(<<x>>) = <<Insert(<<x>>)>> /\ split(<<y>>) = <<Insert(<<y>>)>>
  OBVIOUS
<1>3. split(<<x, y>>) = <<Insert(<<x, y>>)>> \/ split(<<x, y>>) = <<Insert(<<x>>), Insert(<<y>>)>>
  <2>1. [i \in DOMAIN <<x, y>> |-> Insert(<<(<<x, y>>)[i]>>)] = <<Insert(<<x>>), Insert(<<y>>)>>
    <3> DEFINE f == [i \in 1 .. 2 |-> Insert(<<(<<x, y>>)[i]>>)]
               g == <<Insert(<<x>>), Insert(<<y>>)>>
    <3>1. DOMAIN <<x, y>> = 1 .. 2 /\ g = [i \in 1 .. 2 |-> g[i]] /\ f = [i \in 1 .. 2 |-> f[i]]
      OBVIOUS
    <3>2. \A i \in 1 .. 2 : f[i] = g[i]
      OBVIOUS
    <3> HIDE DEF f, g
    <3>3. f = g
      BY <3>1, <3>2
    <3> QED BY <3>1, <3>3 DEF f, g
  <2> QED BY <2>1
<1> HIDE DEF groups, split
<1>4. ASSUME NEW g, groups = <<g>>
      PROVE  [i \in DOMAIN groups |-> split(groups[i])] = <<split(g)>>
  <2>1. DOMAIN groups = 1 .. 1 /\ groups[1] = g
    BY <1>4
  <2>2. <<split(g)>> = [i \in 1 .. 1 |-> split(g)]
    OBVIOUS
  <2>3. \A i \in 1 .. 1 : i = 1
    OBVIOUS
  <2> QED BY <2>1, <2>2, <2>3, Zenon
<1>5. ASSUME NEW g, NEW h, groups = <<g, h>>
      PROVE  [i \in DOMAIN groups |-> split(groups[i])] = <<split(g), split(h)>>
  <2> DEFINE f == [i \in 1 .. 2 |-> split(groups[i])]
             k == <<split(g), split(h)>>
  <2>1. DOMAIN groups = 1 .. 2 /\ groups[1] = g /\ groups[2] = h
    BY <1>5
  <2>2. f = [i \in 1 .. 2 |-> f[i]] /\ k = [i \in 1 .. 2 |-> k[i]]
    OBVIOUS
  <2>3. \A i \in 1 .. 2 : f[i] = k[i]
    BY <2>1
  <2> HIDE DEF f, k
  <2>4. f = k
    BY <2>2, <2>3
  <2> QED BY <2>1, <2>4 DEF f, k
<1>6. Statements(os, <<x, y>>) = FlattenSeq([i \in DOMAIN groups |-> split(groups[i])])
  BY DEF Statements, groups, split
<1>7. CASE groups = <<<<x, y>>>>
  BY <1>3, <1>4, <1>6, <1>7, FlattenOne DEF TwoInserts
<1>8. CASE groups = <<<<x>>, <<y>>>>
  <2>1. [i \in DOMAIN groups |-> split(groups[i])] = <<split(<<x>>), split(<<y>>)>>
    BY <1>5, <1>8
  <2>2. Statements(os, <<x, y>>) = split(<<x>>) \o split(<<y>>)
    BY <1>6, <2>1, FlattenTwo
  <2>3. Statements(os, <<x, y>>) = <<Insert(<<x>>), Insert(<<y>>)>>
    BY <1>2, <2>2, PairOf
  <2> QED BY <2>3 DEF TwoInserts
<1>9. CASE groups = <<<<y>>, <<x>>>>
  <2>1. [i \in DOMAIN groups |-> split(groups[i])] = <<split(<<y>>), split(<<x>>)>>
    BY <1>5, <1>9
  <2>2. Statements(os, <<x, y>>) = split(<<y>>) \o split(<<x>>)
    BY <1>6, <2>1, FlattenTwo
  <2>3. Statements(os, <<x, y>>) = <<Insert(<<y>>), Insert(<<x>>)>>
    BY <1>2, <2>2, PairOf
  <2> QED BY <2>3 DEF TwoInserts
<1> QED BY <1>1, <1>7, <1>8, <1>9

\* See PartitionedTwo.
LEMMA PartitionedNone ==
  ASSUME NEW os
  PROVE  BulkCreatePartitioned(os, <<>>) = <<>>
BY ThoseNone DEF BulkCreatePartitioned, BulkCreate, WithPk

\* See PartitionedTwo.
LEMMA PartitionedOne ==
  ASSUME NEW os, NEW x
  PROVE  BulkCreatePartitioned(os, <<x>>) = <<Insert(<<x>>)>>
<1> DEFINE A == {o \in DOMAIN os : os[o].id # None}
           B == {o \in DOMAIN os : os[o].id = None}
<1>1. x \notin A \/ x \notin B
  OBVIOUS
<1> HIDE DEF A, B
<1>2. Those(<<x>>, A) = <<>> \/ Those(<<x>>, B) = <<>>
  BY <1>1, ThoseOne
<1>3. WithPk(os, <<x>>) = <<>> \/ WithoutPk(os, <<x>>) = <<>>
  BY <1>2 DEF WithPk, WithoutPk, A, B
<1> QED BY <1>3, StatementsOne DEF BulkCreatePartitioned, BulkCreate

\* Chosen and generated primary keys are never mixed, and no instance is left out.
LEMMA PartitionedTwo ==
  ASSUME NEW os, NEW x, NEW y
  PROVE  TwoInserts(BulkCreatePartitioned(os, <<x, y>>), x, y)
<1> DEFINE A == {o \in DOMAIN os : os[o].id # None}
           B == {o \in DOMAIN os : os[o].id = None}
<1>1. x \notin A \/ x \notin B
  OBVIOUS
<1>2. y \notin A \/ y \notin B
  OBVIOUS
<1> HIDE DEF A, B
<1>3. Those(<<x, y>>, A) = IF x \in A THEN IF y \in A THEN <<x, y>> ELSE <<x>>
                           ELSE IF y \in A THEN <<y>> ELSE <<>>
  BY ThosePair
<1>4. Those(<<x, y>>, B) = IF x \in B THEN IF y \in B THEN <<x, y>> ELSE <<x>>
                           ELSE IF y \in B THEN <<y>> ELSE <<>>
  BY ThosePair
<1>5. \/ WithPk(os, <<x, y>>) = <<>> \/ WithoutPk(os, <<x, y>>) = <<>>
      \/ WithPk(os, <<x, y>>) = <<x>> /\ WithoutPk(os, <<x, y>>) = <<y>>
      \/ WithPk(os, <<x, y>>) = <<y>> /\ WithoutPk(os, <<x, y>>) = <<x>>
  <2>1. WithPk(os, <<x, y>>) = Those(<<x, y>>, A) /\ WithoutPk(os, <<x, y>>) = Those(<<x, y>>, B)
    BY DEF WithPk, WithoutPk, A, B
  <2> QED BY <1>1, <1>2, <1>3, <1>4, <2>1, Zenon
<1>6. CASE WithPk(os, <<x, y>>) = <<>> \/ WithoutPk(os, <<x, y>>) = <<>>
  <2>1. BulkCreatePartitioned(os, <<x, y>>) = Statements(os, <<x, y>>)
    BY <1>6 DEF BulkCreatePartitioned, BulkCreate
  <2> QED BY <2>1, StatementsTwo
<1>7. ASSUME NEW z
      PROVE  BulkCreate(os, <<z>>) = <<Insert(<<z>>)>>
  <2>1. z \notin A \/ z \notin B
    BY DEF A, B
  <2>2. Those(<<z>>, A) = <<>> \/ Those(<<z>>, B) = <<>>
    BY <2>1, ThoseOne
  <2>3. WithPk(os, <<z>>) = <<>> \/ WithoutPk(os, <<z>>) = <<>>
    BY <2>2 DEF WithPk, WithoutPk, A, B
  <2> QED BY <2>3, StatementsOne DEF BulkCreate
<1>8. CASE WithPk(os, <<x, y>>) = <<x>> /\ WithoutPk(os, <<x, y>>) = <<y>>
  <2>1. <<x>> # <<>> /\ <<y>> # <<>>
    OBVIOUS
  <2>2. BulkCreatePartitioned(os, <<x, y>>) = BulkCreate(os, <<x>>) \o BulkCreate(os, <<y>>)
    BY <1>8, <2>1, Zenon DEF BulkCreatePartitioned
  <2> QED BY <1>7, <2>2, PairOf DEF TwoInserts
<1>9. CASE WithPk(os, <<x, y>>) = <<y>> /\ WithoutPk(os, <<x, y>>) = <<x>>
  <2>1. <<x>> # <<>> /\ <<y>> # <<>>
    OBVIOUS
  <2>2. BulkCreatePartitioned(os, <<x, y>>) = BulkCreate(os, <<y>>) \o BulkCreate(os, <<x>>)
    BY <1>9, <2>1, Zenon DEF BulkCreatePartitioned
  <2> QED BY <1>7, <2>2, PairOf DEF TwoInserts
<1> QED BY <1>5, <1>6, <1>8, <1>9

\* Of two instances the one with a chosen primary key is inserted first.
LEMMA PartitionedMixed ==
  ASSUME NEW os, NEW x \in DOMAIN os, NEW y \in DOMAIN os, os[x].id # None, os[y].id = None
  PROVE  /\ BulkCreatePartitioned(os, <<x, y>>) = <<Insert(<<x>>), Insert(<<y>>)>>
         /\ BulkCreatePartitioned(os, <<y, x>>) = <<Insert(<<x>>), Insert(<<y>>)>>
<1> DEFINE A == {o \in DOMAIN os : os[o].id # None}
           B == {o \in DOMAIN os : os[o].id = None}
<1>1. x \in A /\ x \notin B /\ y \notin A /\ y \in B
  OBVIOUS
<1>2. \A z : z \notin A \/ z \notin B
  OBVIOUS
<1> HIDE DEF A, B
<1>3. ASSUME NEW w, w \in {<<x, y>>, <<y, x>>}
      PROVE  WithPk(os, w) = <<x>> /\ WithoutPk(os, w) = <<y>>
  <2>1. WithPk(os, w) = Those(w, A) /\ WithoutPk(os, w) = Those(w, B)
    BY DEF WithPk, WithoutPk, A, B
  <2> QED BY <1>1, <1>3, <2>1, ThosePair
<1>4. ASSUME NEW z
      PROVE  BulkCreate(os, <<z>>) = <<Insert(<<z>>)>>
  <2>1. Those(<<z>>, A) = <<>> \/ Those(<<z>>, B) = <<>>
    BY <1>2, ThoseOne
  <2>2. WithPk(os, <<z>>) = <<>> \/ WithoutPk(os, <<z>>) = <<>>
    BY <2>1 DEF WithPk, WithoutPk, A, B
  <2> QED BY <2>2, StatementsOne DEF BulkCreate
<1>5. <<x>> # <<>> /\ <<y>> # <<>>
  OBVIOUS
<1>6. ASSUME NEW w, w \in {<<x, y>>, <<y, x>>}
      PROVE  BulkCreatePartitioned(os, w) = <<Insert(<<x>>), Insert(<<y>>)>>
  <2>1. BulkCreatePartitioned(os, w) = BulkCreate(os, <<x>>) \o BulkCreate(os, <<y>>)
    <3>1. WithPk(os, w) = <<x>> /\ WithoutPk(os, w) = <<y>>
      BY <1>3, <1>6
    <3> QED BY <1>5, <3>1, Zenon DEF BulkCreatePartitioned
  <2> QED BY <1>4, <2>1, PairOf
<1> QED BY <1>6

-----------------------------------------------------------------------------
(* The instances an answer brings. *)

\* Loading a relation changes what the accessor serves, and nothing that is stored.
LEMMA AnswerCache ==
  ASSUME NEW j, NEW n, JobOK(j, n), n = Len(objs), ObjsOK(objs), j.stmt.kind \in {"relation", "prefetch"},
         NEW e, e.ok, NEW pick
  PROVE  LET r == Resume(j, e, objs, pick) IN
         /\ Kept(r, j) /\ r.todo = j.todo
         /\ \A x \in DOMAIN objs : Same(objs[x], r.objs[x])
<1> DEFINE r == Resume(j, e, objs, pick)
           s == j.stmt
<1>1. objs \in Seq(Instance) /\ n \in Nat /\ DOMAIN objs = 1 .. n
  BY DEF ObjsOK
<1>2. CASE s.kind = "relation"
  <2> DEFINE o == s.os[1]
             b == [objs[o] EXCEPT !.cache = s.author]
  <2>1. o \in DOMAIN objs /\ s.author \in Authors \cup {None}
    BY <1>1, <1>2 DEF JobOK, StmtOK, Targeted
  <2>2. r = Answer([objs EXCEPT ![o] = b], j.todo, j.results)
    BY <1>2, <2>1 DEF Resume, ResumeRelation
  <2>3. b \in Instance /\ Same(objs[o], b)
    <3>1. objs[o] \in Instance
      BY <1>1, <2>1
    <3> HIDE DEF o, s
    <3> QED BY <2>1, <3>1 DEF Instance, Same
  <2>4. r.ok /\ r.results = j.results /\ r.todo = j.todo /\ r.objs = [objs EXCEPT ![o] = b]
    BY <2>2 DEF Answer
  <2>5. \A x \in DOMAIN objs : Same(objs[x], objs[x])
    BY DEF Same
  <2> HIDE DEF b, o, r
  <2>6. Kept(r, j) /\ r.objs[o] = b /\ \A x \in DOMAIN objs : x # o => r.objs[x] = objs[x]
    BY <1>1, <2>1, <2>3, <2>4, PutOne DEF Kept
  <2> QED BY <2>3, <2>4, <2>5, <2>6 DEF r
<1>3. CASE s.kind = "prefetch"
  <2> DEFINE c(x) == IF objs[x].author \in s.ids THEN objs[x].author ELSE None
             after == [x \in DOMAIN objs |-> IF x \notin ToSet(s.os) THEN objs[x]
                                             ELSE [objs[x] EXCEPT !.cache = c(x)]]
  <2>1. r = Answer(after, j.todo, j.results)
    BY <1>3 DEF Resume, ResumePrefetch
  <2>2. ASSUME NEW x \in DOMAIN objs PROVE after[x] \in Instance /\ Same(objs[x], after[x])
    <3>1. objs[x] \in Instance
      BY <1>1
    <3>2. c(x) \in Authors \cup {None}
      BY <3>1 DEF Instance
    <3> HIDE DEF c
    <3>3. after[x] = objs[x] \/ after[x] = [objs[x] EXCEPT !.cache = c(x)]
      OBVIOUS
    <3> HIDE DEF after
    <3> QED BY <3>1, <3>2, <3>3 DEF Instance, Same
  <2>3. DOMAIN after = 1 .. n /\ after = [x \in 1 .. n |-> after[x]]
    BY <1>1
  <2> HIDE DEF after
  <2>4. after \in Seq(Instance) /\ Len(after) = n
    BY <1>1, <2>2, <2>3
  <2>5. r.ok /\ r.results = j.results /\ r.todo = j.todo /\ r.objs = after
    BY <2>1 DEF Answer
  <2> QED BY <2>2, <2>4, <2>5 DEF Kept
<1> QED BY <1>2, <1>3

\* An instance made of the row p, perhaps with values of the caller.
FromRow(b, p, row) ==
  /\ b \in Instance /\ b.in_db /\ b.id = p /\ b.key = row.key /\ b.stamp = row.stamp
  /\ (b.state = row.state \/ b.state # None) /\ ~b.marks

\* A new instance has the values of its record, and is not stored.
LEMMA NewOK ==
  ASSUME NEW rec \in Record
  PROVE  /\ New(rec) \in Instance /\ ~New(rec).in_db /\ New(rec).id = rec.id /\ New(rec).key = rec.key
         /\ New(rec).author = rec.author /\ New(rec).state = rec.state /\ New(rec).stamp = rec.stamp
         /\ ~New(rec).marks /\ rec.id \in {None, OwnId} /\ rec.key \in Keys
<1>1. 0 \in Stamps
  BY PersistenceAssumption DEF Stamps
<1> QED BY <1>1 DEF New, Record, Instance, Ids, States, Absent

\* An instance made from a row has the values of the row.
LEMMA FoundOK ==
  ASSUME NEW row \in Row, NEW p \in Ids
  PROVE  FromDbRow(p, row) \in Instance /\ FromRow(FromDbRow(p, row), p, row) /\ FromDbRow(p, row).author = row.author
BY DEF FromDbRow, FromRow, Row, Instance, Absent

\* What a caller gives for some columns of an instance found leaves its key alone.
LEMMA GivenOK ==
  ASSUME NEW b, NEW p, NEW row, FromRow(b, p, row), NEW rec \in Record, NEW cols \in SUBSET {"author", "state"},
         "state" \in cols => rec.state # None
  PROVE  FromRow(UpdateFromDict(b, rec, cols), p, row)
<1> DEFINE w == UpdateFromDict(b, rec, cols)
<1>1. b \in Instance /\ cols \in SUBSET Columns /\ "key" \notin cols /\ "stamp" \notin cols
  BY DEF FromRow, Columns
<1>2. "author" \in cols => rec.author \in Authors \cup {None}
  BY DEF Record
<1>3. "state" \in cols => rec.state \in States \cup {None}
  BY DEF Record, States
<1>3a. ("key" \in cols => rec.key \in Keys) /\ ("stamp" \in cols => rec.stamp \in Stamps \cup {None})
  BY <1>1
<1>4. /\ w \in Instance /\ w.in_db = b.in_db /\ w.id = b.id
      /\ w.key = IF "key" \in cols THEN rec.key ELSE b.key
      /\ w.state = IF "state" \in cols THEN rec.state ELSE b.state
      /\ w.stamp = IF "stamp" \in cols THEN rec.stamp ELSE b.stamp
  BY <1>1, <1>2, <1>3, <1>3a, DictOK
<1>5. ~w.marks
  <2>1. DOMAIN b = {"in_db", "id", "key", "author", "state", "stamp", "marks", "cache"}
    BY <1>1 DEF Instance
  <2> QED BY <2>1, <1>1 DEF UpdateFromDict, FromRow
<1> HIDE DEF w
<1> QED BY <1>1, <1>4, <1>5 DEF w, FromRow

\* One instance is made, the others stay.
LEMMA AppendOne ==
  ASSUME NEW S, NEW os \in Seq(S), NEW b \in S
  PROVE  LET q == Append(os, b) IN
         /\ q \in Seq(S) /\ Len(q) = Len(os) + 1 /\ q[Len(os) + 1] = b
         /\ \A x \in 1 .. Len(os) : q[x] = os[x]
OBVIOUS

RowsIn(e) == \A p \in DOMAIN e.rows : e.rows[p] \in Row /\ p \in Ids

\* get and the calls like it bring one instance, new or of a row with the key.
Got(r, e, rec) ==
  LET n == Len(objs) IN
  \E b \in Instance :
    /\ r.objs = Append(objs, b)
    /\ \/ /\ b = New(rec) /\ \A p \in DOMAIN e.rows : e.rows[p].key # rec.key
          /\ r.todo = <<Save(n + 1, Columns)>> /\ r.results = <<Result(n + 1, TRUE)>>
       \/ /\ r.results = <<Result(n + 1, FALSE)>>
          /\ \E p \in DOMAIN e.rows :
               /\ e.rows[p].key = rec.key /\ FromRow(b, p, e.rows[p])
               /\ r.todo \in {<<>>, <<Save(n + 1, Columns)>>}

\* get and the calls like it bring one instance, new or of a row with the key.
LEMMA AnswerGet ==
  ASSUME NEW j, ObjsOK(objs), j.stmt.kind = "find", j.op \in Finders, NEW rec \in Record, rec.id = None,
         j.records = <<rec>>, NEW e, e.ok, RowsIn(e),
         NEW pick, Resume(j, e, objs, pick).ok
  PROVE  Got(Resume(j, e, objs, pick), e, rec)
<1> DEFINE r == Resume(j, e, objs, pick)
           n == Len(objs)
           there == Matching(e, rec.key)
           p == CHOOSE q \in there : TRUE
           found == FromDbRow(p, e.rows[p])
<1> SUFFICES \E b \in Instance :
              /\ r.objs = Append(objs, b)
              /\ \/ /\ b = New(rec) /\ \A q \in DOMAIN e.rows : e.rows[q].key # rec.key
                    /\ r.todo = <<Save(n + 1, Columns)>> /\ r.results = <<Result(n + 1, TRUE)>>
                 \/ /\ r.results = <<Result(n + 1, FALSE)>>
                    /\ \E q \in DOMAIN e.rows :
                         /\ e.rows[q].key = rec.key /\ FromRow(b, q, e.rows[q])
                         /\ r.todo \in {<<>>, <<Save(n + 1, Columns)>>}
  BY DEF Got
<1>1. r = ResumeGet(j, e, objs) /\ j.records[1] = rec
  BY DEF Resume, Finders
<1>2. CASE there = {}
  <2>1. r = Answer(Append(objs, New(rec)), <<Save(n + 1, Columns)>>, <<Result(n + 1, TRUE)>>)
    BY <1>1, <1>2 DEF ResumeGet, Raises
  <2>2. \A q \in DOMAIN e.rows : e.rows[q].key # rec.key
    BY <1>2 DEF Matching
  <2>3. /\ r.objs = Append(objs, New(rec)) /\ r.todo = <<Save(n + 1, Columns)>>
        /\ r.results = <<Result(n + 1, TRUE)>>
    <3> HIDE DEF r, n
    <3> QED BY <2>1 DEF Answer
  <2> HIDE DEF r, n
  <2> QED BY <2>2, <2>3, NewOK DEF r, n
<1>3. CASE there # {}
  <2>1. p \in there
    BY <1>3
  <2> HIDE DEF p
  <2>2. p \in DOMAIN e.rows /\ e.rows[p].key = rec.key
    BY <2>1 DEF Matching
  <2>3. found \in Instance /\ FromRow(found, p, e.rows[p])
    BY <2>2, FoundOK DEF RowsIn
  <2> DEFINE b == UpdateFromDict(found, rec, {"author"})
  <2>4. FromRow(b, p, e.rows[p]) /\ b \in Instance
    <3> HIDE DEF found
    <3>1. {"author"} \in SUBSET {"author", "state"} /\ "state" \notin {"author"}
      OBVIOUS
    <3>2. FromRow(b, p, e.rows[p])
      BY <2>3, <3>1, GivenOK
    <3> QED BY <3>2 DEF FromRow
  <2>5. \/ r = Answer(Append(objs, b), <<Save(n + 1, Columns)>>, <<Result(n + 1, FALSE)>>)
        \/ r = Answer(Append(objs, found), <<>>, <<Result(n + 1, FALSE)>>)
    BY <1>1, <1>3 DEF ResumeGet, Raises, p
  <2> HIDE DEF b, found, r, n
  <2>6. CASE r = Answer(Append(objs, b), <<Save(n + 1, Columns)>>, <<Result(n + 1, FALSE)>>)
    <3>1. r.objs = Append(objs, b) /\ r.todo = <<Save(n + 1, Columns)>> /\ r.results = <<Result(n + 1, FALSE)>>
      BY <2>6 DEF Answer
    <3> QED BY <2>2, <2>4, <3>1 DEF r, n
  <2>7. CASE r = Answer(Append(objs, found), <<>>, <<Result(n + 1, FALSE)>>)
    <3>1. r.objs = Append(objs, found) /\ r.todo = <<>> /\ r.results = <<Result(n + 1, FALSE)>>
      BY <2>7 DEF Answer
    <3> QED BY <2>2, <2>3, <3>1 DEF r, n
  <2> QED BY <2>5, <2>6, <2>7
<1> QED BY <1>2, <1>3

-----------------------------------------------------------------------------
(* The answer to the one SELECT of a bulk call. *)

\* The instance of a record: made for it, or from the row that was found for its key.
For(b, rec, made, e, pick) ==
  IF made THEN b = New(rec) /\ rec.key \notin DOMAIN pick
  ELSE rec.key \in DOMAIN pick /\ FromRow(b, pick[rec.key], e.rows[pick[rec.key]])

PickOK(e, pick) == \A k \in DOMAIN pick : pick[k] \in DOMAIN e.rows /\ e.rows[pick[k]].key = k

\* update_or_create writes the author and, if it was given, the state.
LEMMA GivenCols ==
  ASSUME NEW rec \in Record
  PROVE  Given(rec) \in SUBSET {"author", "state"} /\ ("state" \in Given(rec) => rec.state # None)
BY DEF Given

\* What a record of a bulk call gets has the key of the record.
LEMMA ForKey ==
  ASSUME NEW b, NEW rec \in Record, NEW made \in BOOLEAN, NEW e, NEW pick, PickOK(e, pick), For(b, rec, made, e, pick)
  PROVE  b \in Instance /\ b.key = rec.key /\ (b.in_db <=> ~made)
<1>1. CASE made
  BY <1>1, NewOK DEF For
<1>2. CASE ~made
  BY <1>2 DEF For, FromRow, PickOK
<1> QED BY <1>1, <1>2

\* The instances and the results after some records.
Acc(os, results) == [objs |-> os, results |-> results]

KeyIn(os, results, k) == \E i \in DOMAIN results : os[results[i].o].key = k

\* A record got an instance and a result of its own.
Joins(acc, os, results, rec, e, pick) ==
  \E b \in Instance, made \in BOOLEAN :
    /\ acc = Acc(Append(os, b), Append(results, Result(Len(os) + 1, made)))
    /\ For(b, rec, made, e, pick)

\* A record shares the last instance, which was made for the record first.
Shares(acc, os, made, first, e, pick) ==
  \E c \in Instance :
    /\ acc = Acc(Append(os, c), <<Result(Len(os) + 1, made), Result(Len(os) + 1, FALSE)>>)
    /\ For(c, first, made, e, pick)

\* A record whose key no record before it has.
LEMMA RecordAnew ==
  ASSUME NEW os, NEW res, NEW rec \in Record, NEW j, NEW e, NEW pick, PickOK(e, pick), RowsIn(e),
         NEW acc, acc = Acc(os, res), ~KeyIn(os, res, rec.key)
  PROVE  Joins(BulkRecord(acc, rec, j, e, pick), os, res, rec, e, pick)
<1> DEFINE n == Len(os) + 1
           known == {i \in DOMAIN acc.results : acc.objs[acc.results[i].o].key = rec.key}
           found == FromDbRow(pick[rec.key], e.rows[pick[rec.key]])
           kept == IF j.op = "bulk_update_or_create" /\ found.in_db
                   THEN UpdateFromDict(found, rec, Given(rec)) ELSE found
           r == BulkRecord(acc, rec, j, e, pick)
<1>1. known = {} /\ acc.objs = os /\ acc.results = res /\ acc = [objs |-> os, results |-> res]
  BY DEF Acc, KeyIn
<1>2. CASE rec.key \in DOMAIN pick
  <2>1. r = [acc EXCEPT !.objs = Append(@, kept), !.results = Append(@, Result(n, FALSE))]
    BY <1>1, <1>2 DEF BulkRecord
  <2>2. pick[rec.key] \in DOMAIN e.rows
    BY <1>2 DEF PickOK
  <2>3. FromRow(found, pick[rec.key], e.rows[pick[rec.key]])
    BY <2>2, FoundOK DEF RowsIn
  <2> HIDE DEF found
  <2>4. FromRow(UpdateFromDict(found, rec, Given(rec)), pick[rec.key], e.rows[pick[rec.key]])
    BY <2>3, GivenOK, GivenCols
  <2>5. FromRow(kept, pick[rec.key], e.rows[pick[rec.key]])
    BY <2>3, <2>4
  <2> HIDE DEF kept, r, n
  <2>6. r = Acc(Append(os, kept), Append(res, Result(n, FALSE)))
    BY <1>1, <2>1 DEF Acc
  <2>7. kept \in Instance /\ For(kept, rec, FALSE, e, pick)
    BY <1>2, <2>5 DEF For, FromRow
  <2> QED BY <2>6, <2>7 DEF r, n, Joins
<1>3. CASE rec.key \notin DOMAIN pick
  <2>1. r = [acc EXCEPT !.objs = Append(@, New(rec)), !.results = Append(@, Result(n, TRUE))]
    BY <1>1, <1>3 DEF BulkRecord
  <2> HIDE DEF r, n
  <2>2. r = Acc(Append(os, New(rec)), Append(res, Result(n, TRUE)))
    BY <1>1, <2>1 DEF Acc
  <2>3. New(rec) \in Instance /\ For(New(rec), rec, TRUE, e, pick)
    BY <1>3, NewOK DEF For
  <2> QED BY <2>2, <2>3 DEF r, n, Joins
<1> QED BY <1>2, <1>3

\* A record with the key of the one before it.
LEMMA RecordAgain ==
  ASSUME NEW os \in Seq(Instance), NEW first \in Record, NEW rec \in Record, rec.key = first.key,
         NEW j, NEW e, NEW pick, PickOK(e, pick),
         NEW b \in Instance, NEW made \in BOOLEAN, For(b, first, made, e, pick),
         NEW acc, acc = Acc(Append(os, b), <<Result(Len(os) + 1, made)>>)
  PROVE  Shares(BulkRecord(acc, rec, j, e, pick), os, made, first, e, pick)
<1> DEFINE n == Len(os) + 1
           known == {i \in DOMAIN acc.results : acc.objs[acc.results[i].o].key = rec.key}
           hit == acc.results[CHOOSE i \in known : \A k \in known : i <= k].o
           found == acc.objs[hit]
           kept == IF j.op = "bulk_update_or_create" /\ found.in_db
                   THEN UpdateFromDict(found, rec, Given(rec)) ELSE found
           r == BulkRecord(acc, rec, j, e, pick)
<1>1. acc.objs = Append(os, b) /\ acc.results = <<Result(n, made)>> /\ acc.objs[n] = b
  BY AppendOne DEF Acc
<1>2. DOMAIN acc.results = {1} /\ acc.results[1].o = n
  BY <1>1 DEF Result
<1>3. b.key = rec.key
  BY ForKey
<1> HIDE DEF n
<1>4. known = {1}
  BY <1>1, <1>2, <1>3
<1>5. hit = n /\ found = b
  <2> HIDE DEF known
  <2>1. (CHOOSE i \in known : \A k \in known : i <= k) = 1
    BY <1>4
  <2> QED BY <1>1, <1>2, <2>1
<1>6. r = [acc EXCEPT !.objs = [@ EXCEPT ![n] = kept], !.results = Append(@, Result(n, FALSE))]
  <2>1. known # {}
    BY <1>4
  <2>2. r = [acc EXCEPT !.objs = [@ EXCEPT ![hit] = kept], !.results = Append(@, Result(hit, FALSE))]
    <3> DEFINE found2 == IF known # {} THEN acc.objs[hit] ELSE FromDbRow(pick[rec.key], e.rows[pick[rec.key]])
               place2 == IF known # {} THEN hit ELSE Len(acc.objs) + 1
               kept2 == IF j.op = "bulk_update_or_create" /\ found2.in_db
                        THEN UpdateFromDict(found2, rec, Given(rec)) ELSE found2
    <3>1. r = IF known # {} \/ rec.key \in DOMAIN pick
              THEN [acc EXCEPT !.objs = IF known # {} THEN [@ EXCEPT ![place2] = kept2] ELSE Append(@, kept2),
                               !.results = Append(@, Result(place2, FALSE))]
              ELSE [acc EXCEPT !.objs = Append(@, New(rec)), !.results = Append(@, Result(Len(acc.objs) + 1, TRUE))]
      BY Zenon DEF BulkRecord
    <3>2. found2 = found /\ place2 = hit
      <4> HIDE DEF known, hit
      <4> QED BY <2>1
    <3> HIDE DEF found2, found
    <3>3. kept2 = kept
      BY <3>2
    <3> HIDE DEF known, hit, kept2, kept, place2, r
    <3> QED BY <2>1, <3>1, <3>2, <3>3
  <2> HIDE DEF r, kept, hit
  <2> QED BY <1>5, <2>2
<1>7. For(kept, first, made, e, pick) /\ kept \in Instance
  <2> HIDE DEF found
  <2>1. kept = IF j.op = "bulk_update_or_create" /\ b.in_db THEN UpdateFromDict(b, rec, Given(rec)) ELSE b
    BY <1>5
  <2> HIDE DEF kept
  <2>2. CASE made
    <3>1. ~b.in_db
      BY <2>2, ForKey
    <3> QED BY <2>1, <3>1
  <2>3. CASE ~made
    <3>1. first.key \in DOMAIN pick /\ FromRow(b, pick[first.key], e.rows[pick[first.key]])
      BY <2>3 DEF For
    <3>2. FromRow(UpdateFromDict(b, rec, Given(rec)), pick[first.key], e.rows[pick[first.key]])
      BY <3>1, GivenOK, GivenCols
    <3>3. FromRow(kept, pick[first.key], e.rows[pick[first.key]])
      BY <2>1, <3>1, <3>2
    <3> QED BY <2>3, <3>1, <3>3 DEF For, FromRow
  <2> QED BY <2>2, <2>3
<1> HIDE DEF kept, r, hit, found, known
<1>8. [Append(os, b) EXCEPT ![n] = kept] = Append(os, kept)
  <2> DEFINE q == Append(os, b)
             s == [x \in DOMAIN q |-> IF x = n THEN kept ELSE q[x]]
             u == Append(os, kept)
  <2>1. q \in Seq(Instance) /\ Len(q) = Len(os) + 1 /\ DOMAIN q = 1 .. n /\ \A x \in 1 .. Len(os) : q[x] = os[x]
    BY AppendOne DEF n
  <2>2. u \in Seq(Instance) /\ Len(u) = Len(os) + 1 /\ DOMAIN u = 1 .. n /\ u[n] = kept
        /\ \A x \in 1 .. Len(os) : u[x] = os[x]
    BY <1>7, AppendOne DEF n
  <2>2a. [q EXCEPT ![n] = kept] = s
    <3> HIDE DEF q
    <3> QED OBVIOUS
  <2> HIDE DEF q, u
  <2>3. s = [x \in 1 .. n |-> s[x]] /\ u = [x \in 1 .. n |-> u[x]]
    <3>1. DOMAIN s = 1 .. n /\ s = [x \in DOMAIN s |-> s[x]]
      BY <2>1
    <3> HIDE DEF s
    <3>2. u = [x \in 1 .. Len(u) |-> u[x]]
      BY <2>2
    <3>3. Len(u) = n
      BY <2>2 DEF n
    <3> QED BY <2>2, <3>1, <3>2, <3>3
  <2>4. Len(os) \in Nat /\ \A x \in 1 .. n : x = n \/ x \in 1 .. Len(os)
    BY DEF n
  <2>5. \A x \in 1 .. n : s[x] = u[x]
    BY <2>1, <2>2, <2>4
  <2> HIDE DEF s
  <2>6. s = u
    BY <2>3, <2>5
  <2> QED BY <2>2a, <2>6 DEF q, u
<1>9. r = Acc(Append(os, kept), <<Result(n, made), Result(n, FALSE)>>)
  <2> DEFINE one == Result(n, made)
             two == Result(n, FALSE)
  <2>1. acc = [objs |-> acc.objs, results |-> acc.results]
    BY DEF Acc
  <2> HIDE DEF one, two
  <2>2. r = [objs |-> [acc.objs EXCEPT ![n] = kept], results |-> Append(acc.results, two)]
    BY <1>6, <2>1 DEF two
  <2>3. acc.results = <<one>>
    BY <1>1 DEF one
  <2>4. [acc.objs EXCEPT ![n] = kept] = Append(os, kept)
    BY <1>1, <1>8
  <2>5. Append(acc.results, two) = <<one, two>>
    BY <2>3, AppendTwo
  <2> QED BY <2>2, <2>4, <2>5, Zenon DEF one, two, Acc
<1> QED BY <1>7, <1>9 DEF n, r, Shares

-----------------------------------------------------------------------------
(* The work a bulk call leaves for later. *)

\* An item for instances that came after the first n, all with or all without a row.
Work(it, os, n) ==
  /\ it \in Items /\ BatchOK(it.os, Len(os))
  /\ \A o \in ToSet(it.os) : /\ n < o
                             /\ it.do = "insert" => ~os[o].in_db
                             /\ it.do = "update" => os[o].in_db

Plan(todo, os, n) ==
  /\ todo \in Seq(Items)
  /\ \A i \in DOMAIN todo : Work(todo[i], os, n)
  /\ \A i, k \in DOMAIN todo : i # k => ToSet(todo[i].os) \cap ToSet(todo[k].os) = {}
  /\ \A o \in DOMAIN os : n < o /\ ~os[o].in_db => \E i \in DOMAIN todo : o \in ToSet(todo[i].os)

\* An instance whose primary key was chosen goes first, if it is the only one.
ChosenFirst(todo, os, n) ==
  \A y \in DOMAIN os :
    /\ n < y /\ ~os[y].in_db /\ os[y].id # None
    /\ \A x \in DOMAIN os : n < x /\ x # y => os[x].in_db \/ os[x].id = None
    => todo # <<>> /\ todo[1] = Insert(<<y>>)

\* An item of work for one instance made in the call.
LEMMA WorkOne ==
  ASSUME NEW os \in Seq(Instance), NEW n \in Nat, NEW x \in DOMAIN os, n < x,
         NEW cols \in SUBSET {"author", "state"}
  PROVE  /\ ~os[x].in_db => Work(Insert(<<x>>), os, n)
         /\ os[x].in_db => Work(Update(<<x>>, cols), os, n)
         /\ ToSet(Insert(<<x>>).os) = {x} /\ ToSet(Update(<<x>>, cols).os) = {x}
<1>1. <<x>> \in Seq(1 .. Len(os)) /\ <<x>> \in Seq(Nat) /\ <<x>> # <<>>
  OBVIOUS
<1>2. ToSet(<<x>>) = {x} /\ Once(<<x>>)
  BY DEF ToSet, Once
<1>3. BatchOK(<<x>>, Len(os))
  BY <1>1, <1>2 DEF BatchOK
<1>4. /\ Insert(<<x>>) \in Items /\ Insert(<<x>>).do = "insert" /\ Insert(<<x>>).os = <<x>>
      /\ Update(<<x>>, cols) \in Items /\ Update(<<x>>, cols).do = "update" /\ Update(<<x>>, cols).os = <<x>>
  BY <1>1 DEF Items, Insert, Update
<1> QED BY <1>2, <1>3, <1>4 DEF Work

\* An item of work for the two instances made in the call.
LEMMA WorkTwo ==
  ASSUME NEW os \in Seq(Instance), NEW n \in Nat, NEW x \in DOMAIN os, n < x, NEW y \in DOMAIN os, n < y, x # y,
         NEW cols \in SUBSET {"author", "state"}
  PROVE  /\ ~os[x].in_db /\ ~os[y].in_db => Work(Insert(<<x, y>>), os, n)
         /\ os[x].in_db /\ os[y].in_db => Work(Update(<<x, y>>, cols), os, n)
         /\ x \in ToSet(Insert(<<x, y>>).os) /\ y \in ToSet(Insert(<<x, y>>).os)
<1>1. <<x, y>> \in Seq(1 .. Len(os)) /\ <<x, y>> \in Seq(Nat) /\ <<x, y>> # <<>>
  OBVIOUS
<1>2. ToSet(<<x, y>>) = {x, y} /\ Once(<<x, y>>)
  <2>1. DOMAIN <<x, y>> = {1, 2} /\ <<x, y>>[1] = x /\ <<x, y>>[2] = y
    OBVIOUS
  <2> QED BY <2>1 DEF ToSet, Once
<1>3. BatchOK(<<x, y>>, Len(os))
  BY <1>1, <1>2 DEF BatchOK
<1>4. /\ Insert(<<x, y>>) \in Items /\ Insert(<<x, y>>).do = "insert" /\ Insert(<<x, y>>).os = <<x, y>>
      /\ Update(<<x, y>>, cols) \in Items /\ Update(<<x, y>>, cols).do = "update"
      /\ Update(<<x, y>>, cols).os = <<x, y>>
  BY <1>1 DEF Items, Insert, Update
<1> QED BY <1>2, <1>3, <1>4 DEF Work

\* Work that inserts every new instance, in one statement.
LEMMA PlanOne ==
  ASSUME NEW os, NEW n, NEW a, Work(a, os, n), \A o \in DOMAIN os : n < o /\ ~os[o].in_db => o \in ToSet(a.os)
  PROVE  Plan(<<a>>, os, n)
<1>1. <<a>> \in Seq(Items) /\ DOMAIN <<a>> = {1} /\ <<a>>[1] = a
  BY DEF Work
<1> QED BY <1>1 DEF Plan

\* Work that inserts every new instance, in two statements.
LEMMA PlanTwo ==
  ASSUME NEW os, NEW n, NEW a, NEW b, Work(a, os, n), Work(b, os, n), ToSet(a.os) \cap ToSet(b.os) = {},
         \A o \in DOMAIN os : n < o /\ ~os[o].in_db => o \in ToSet(a.os) \cup ToSet(b.os)
  PROVE  Plan(<<a, b>>, os, n)
<1>1. <<a, b>> \in Seq(Items) /\ DOMAIN <<a, b>> = {1, 2} /\ <<a, b>>[1] = a /\ <<a, b>>[2] = b
  BY DEF Work
<1>2. ToSet(b.os) \cap ToSet(a.os) = {}
  OBVIOUS
<1> HIDE DEF Work
<1> QED BY <1>1, <1>2 DEF Plan

\* Without new instances there is nothing to insert.
LEMMA PlanNone ==
  ASSUME NEW os, NEW n, \A o \in DOMAIN os : n < o => os[o].in_db
  PROVE  Plan(<<>>, os, n)
<1>1. <<>> \in Seq(Items) /\ DOMAIN <<>> = {}
  OBVIOUS
<1> QED BY <1>1 DEF Plan

\* The INSERTs and the UPDATE of a bulk call, one after the other.
LEMMA Joined ==
  /\ <<>> \o <<>> = <<>>
  /\ \A a : <<>> \o <<a>> = <<a>> /\ <<a>> \o <<>> = <<a>>
  /\ \A a, b : <<a, b>> \o <<>> = <<a, b>>
<1>1. <<>> \in Seq({}) /\ \A a : <<a>> \in Seq({a})
  OBVIOUS
<1>2. \A a, b : <<a, b>> \in Seq({a, b})
  OBVIOUS
<1> QED BY <1>1, <1>2, ConcatEmptySeq

\* The work for one new instance, and for two.
LEMMA PlanForOne ==
  ASSUME NEW os \in Seq(Instance), NEW n \in Nat, Len(os) = n + 1, NEW cols \in SUBSET {"author", "state"},
         NEW updates \in BOOLEAN
  PROVE  LET x == n + 1
             create == Those(<<x>>, {o \in DOMAIN os : ~os[o].in_db})
             stale == Those(<<x>>, {o \in DOMAIN os : os[o].in_db})
             update == IF updates /\ stale # <<>> THEN <<Update(stale, cols)>> ELSE <<>>
             todo == BulkCreatePartitioned(os, create) \o update
         IN Plan(todo, os, n) /\ ChosenFirst(todo, os, n)
<1> DEFINE x == n + 1
           A == {o \in DOMAIN os : ~os[o].in_db}
           B == {o \in DOMAIN os : os[o].in_db}
           create == Those(<<x>>, A)
           stale == Those(<<x>>, B)
           update == IF updates /\ stale # <<>> THEN <<Update(stale, cols)>> ELSE <<>>
           todo == BulkCreatePartitioned(os, create) \o update
<1>1. x \in DOMAIN os /\ n < x /\ (x \in A <=> ~os[x].in_db) /\ (x \in B <=> os[x].in_db)
      /\ \A o \in DOMAIN os : n < o => o = x
  OBVIOUS
<1> HIDE DEF x, A, B
<1>2. create = (IF x \in A THEN <<x>> ELSE <<>>) /\ stale = IF x \in B THEN <<x>> ELSE <<>>
  BY ThoseOne
<1> HIDE DEF create, stale
<1>3. CASE os[x].in_db
  <2>1. create = <<>> /\ stale = <<x>>
    BY <1>1, <1>2, <1>3
  <2>2. todo = <<>> \/ todo = <<Update(<<x>>, cols)>>
    BY <2>1, PartitionedNone, Joined
  <2>3. Plan(<<>>, os, n)
    BY <1>1, <1>3, PlanNone
  <2>4. Plan(<<Update(<<x>>, cols)>>, os, n)
    <3>1. Work(Update(<<x>>, cols), os, n) /\ ToSet(Update(<<x>>, cols).os) = {x}
      BY <1>1, <1>3, WorkOne
    <3> QED BY <1>1, <1>3, <3>1, PlanOne
  <2>5. ChosenFirst(todo, os, n)
    <3> HIDE DEF todo
    <3> QED BY <1>1, <1>3 DEF ChosenFirst
  <2> QED BY <2>2, <2>3, <2>4, <2>5 DEF x, A, B, create, stale
<1>4. CASE ~os[x].in_db
  <2>1. create = <<x>> /\ stale = <<>>
    BY <1>1, <1>2, <1>4
  <2>2. todo = <<Insert(<<x>>)>>
    BY <2>1, PartitionedOne, Joined
  <2>3. Plan(<<Insert(<<x>>)>>, os, n)
    BY <1>1, <1>4, WorkOne, PlanOne
  <2>4. ChosenFirst(<<Insert(<<x>>)>>, os, n)
    <3> HIDE DEF todo
    <3> QED BY <1>1 DEF ChosenFirst
  <2> QED BY <2>2, <2>3, <2>4 DEF x, A, B, create, stale
<1> QED BY <1>3, <1>4

\* What is left to do for the two instances of a batch, whichever of them are new.
LEMMA PlanForTwo ==
  ASSUME NEW os \in Seq(Instance), NEW n \in Nat, Len(os) = n + 2, NEW cols \in SUBSET {"author", "state"},
         NEW updates \in BOOLEAN
  PROVE  LET create == Those(<<n + 1, n + 2>>, {o \in DOMAIN os : ~os[o].in_db})
             stale == Those(<<n + 1, n + 2>>, {o \in DOMAIN os : os[o].in_db})
             update == IF updates /\ stale # <<>> THEN <<Update(stale, cols)>> ELSE <<>>
             todo == BulkCreatePartitioned(os, create) \o update
         IN Plan(todo, os, n) /\ ChosenFirst(todo, os, n)
<1> DEFINE x == n + 1
           y == n + 2
           A == {o \in DOMAIN os : ~os[o].in_db}
           B == {o \in DOMAIN os : os[o].in_db}
           create == Those(<<x, y>>, A)
           stale == Those(<<x, y>>, B)
           update == IF updates /\ stale # <<>> THEN <<Update(stale, cols)>> ELSE <<>>
           todo == BulkCreatePartitioned(os, create) \o update
<1>1. /\ x \in DOMAIN os /\ n < x /\ y \in DOMAIN os /\ n < y /\ x # y
      /\ (x \in A <=> ~os[x].in_db) /\ (x \in B <=> os[x].in_db)
      /\ (y \in A <=> ~os[y].in_db) /\ (y \in B <=> os[y].in_db)
      /\ \A o \in DOMAIN os : n < o => o = x \/ o = y
  OBVIOUS
<1> HIDE DEF x, y, A, B
<1>2. /\ create = IF x \in A THEN IF y \in A THEN <<x, y>> ELSE <<x>> ELSE IF y \in A THEN <<y>> ELSE <<>>
      /\ stale = IF x \in B THEN IF y \in B THEN <<x, y>> ELSE <<x>> ELSE IF y \in B THEN <<y>> ELSE <<>>
  BY ThosePair
<1> HIDE DEF create, stale
<1> SUFFICES Plan(todo, os, n) /\ ChosenFirst(todo, os, n)
  BY DEF x, y, A, B, create, stale
<1>3. CASE os[x].in_db /\ os[y].in_db
  <2>1. create = <<>> /\ stale = <<x, y>>
    BY <1>1, <1>2, <1>3
  <2>2. todo = <<>> \/ todo = <<Update(<<x, y>>, cols)>>
    BY <2>1, PartitionedNone, Joined
  <2>3. Plan(<<>>, os, n)
    BY <1>1, <1>3, PlanNone
  <2>4. Plan(<<Update(<<x, y>>, cols)>>, os, n)
    BY <1>1, <1>3, WorkTwo, PlanOne
  <2>5. ChosenFirst(todo, os, n)
    <3> HIDE DEF todo
    <3> QED BY <1>1, <1>3 DEF ChosenFirst
  <2> QED BY <2>2, <2>3, <2>4, <2>5
<1>4. CASE ~os[x].in_db /\ ~os[y].in_db
  <2>1. create = <<x, y>> /\ stale = <<>>
    BY <1>1, <1>2, <1>4
  <2>2. todo = BulkCreatePartitioned(os, <<x, y>>) \o <<>> /\ TwoInserts(BulkCreatePartitioned(os, <<x, y>>), x, y)
    BY <2>1, PartitionedTwo
  <2>3. TwoInserts(todo, x, y)
    BY <2>2, Joined DEF TwoInserts
  <2>4. Plan(<<Insert(<<x, y>>)>>, os, n)
    <3>1. Work(Insert(<<x, y>>), os, n) /\ x \in ToSet(Insert(<<x, y>>).os) /\ y \in ToSet(Insert(<<x, y>>).os)
      BY <1>1, <1>4, WorkTwo
    <3> QED BY <1>1, <3>1, PlanOne
  <2>5. Plan(<<Insert(<<x>>), Insert(<<y>>)>>, os, n) /\ Plan(<<Insert(<<y>>), Insert(<<x>>)>>, os, n)
    <3>1. /\ Work(Insert(<<x>>), os, n) /\ ToSet(Insert(<<x>>).os) = {x}
          /\ Work(Insert(<<y>>), os, n) /\ ToSet(Insert(<<y>>).os) = {y}
      BY <1>1, <1>4, WorkOne
    <3> QED BY <1>1, <3>1, PlanTwo
  <2>6. Plan(todo, os, n)
    BY <2>3, <2>4, <2>5 DEF TwoInserts
  <2>7. ChosenFirst(todo, os, n)
    <3> SUFFICES ASSUME NEW z \in DOMAIN os, n < z, os[z].id # None,
                        \A o \in DOMAIN os : n < o /\ o # z => os[o].in_db \/ os[o].id = None
                 PROVE  todo # <<>> /\ todo[1] = Insert(<<z>>)
      BY DEF ChosenFirst
    <3>1. CASE z = x
      <4>1. os[y].id = None
        BY <1>1, <1>4, <3>1
      <4>2. todo = <<Insert(<<x>>), Insert(<<y>>)>>
        BY <1>1, <2>2, <3>1, <4>1, PartitionedMixed, Joined
      <4> HIDE DEF todo
      <4> QED BY <3>1, <4>2
    <3>2. CASE z = y
      <4>1. os[x].id = None
        BY <1>1, <1>4, <3>2
      <4>2. todo = <<Insert(<<y>>), Insert(<<x>>)>>
        BY <1>1, <2>2, <3>2, <4>1, PartitionedMixed, Joined
      <4> HIDE DEF todo
      <4> QED BY <3>2, <4>2
    <3> QED BY <1>1, <3>1, <3>2
  <2> QED BY <2>6, <2>7
<1>5. CASE os[x].in_db /\ ~os[y].in_db
  <2>1. create = <<y>> /\ stale = <<x>>
    BY <1>1, <1>2, <1>5
  <2>2. todo = <<Insert(<<y>>)>> \/ todo = <<Insert(<<y>>), Update(<<x>>, cols)>>
    BY <2>1, PartitionedOne, Joined, PairOf
  <2>3. Work(Insert(<<y>>), os, n) /\ Work(Update(<<x>>, cols), os, n)
        /\ ToSet(Insert(<<y>>).os) = {y} /\ ToSet(Update(<<x>>, cols).os) = {x}
    BY <1>1, <1>5, WorkOne
  <2>4. Plan(<<Insert(<<y>>)>>, os, n)
    BY <1>1, <1>5, <2>3, PlanOne
  <2>5. Plan(<<Insert(<<y>>), Update(<<x>>, cols)>>, os, n)
    BY <1>1, <1>5, <2>3, PlanTwo
  <2>6. ChosenFirst(todo, os, n)
    <3> HIDE DEF todo
    <3>1. todo # <<>> /\ todo[1] = Insert(<<y>>)
      <4>1. CASE todo = <<Insert(<<y>>)>>
        BY <4>1
      <4>2. CASE todo = <<Insert(<<y>>), Update(<<x>>, cols)>>
        BY <4>2
      <4> QED BY <2>2, <4>1, <4>2
    <3> QED BY <1>1, <1>5, <3>1 DEF ChosenFirst
  <2> QED BY <2>2, <2>4, <2>5, <2>6
<1>6. CASE ~os[x].in_db /\ os[y].in_db
  <2>1. create = <<x>> /\ stale = <<y>>
    BY <1>1, <1>2, <1>6
  <2>2. todo = <<Insert(<<x>>)>> \/ todo = <<Insert(<<x>>), Update(<<y>>, cols)>>
    BY <2>1, PartitionedOne, Joined, PairOf
  <2>3. Work(Insert(<<x>>), os, n) /\ Work(Update(<<y>>, cols), os, n)
        /\ ToSet(Insert(<<x>>).os) = {x} /\ ToSet(Update(<<y>>, cols).os) = {y}
    BY <1>1, <1>6, WorkOne
  <2>4. Plan(<<Insert(<<x>>)>>, os, n)
    BY <1>1, <1>6, <2>3, PlanOne
  <2>5. Plan(<<Insert(<<x>>), Update(<<y>>, cols)>>, os, n)
    BY <1>1, <1>6, <2>3, PlanTwo
  <2>6. ChosenFirst(todo, os, n)
    <3> HIDE DEF todo
    <3>1. todo # <<>> /\ todo[1] = Insert(<<x>>)
      <4>1. CASE todo = <<Insert(<<x>>)>>
        BY <4>1
      <4>2. CASE todo = <<Insert(<<x>>), Update(<<y>>, cols)>>
        BY <4>2
      <4> QED BY <2>2, <4>1, <4>2
    <3> QED BY <1>1, <1>6, <3>1 DEF ChosenFirst
  <2> QED BY <2>2, <2>4, <2>5, <2>6
<1> QED BY <1>3, <1>4, <1>5, <1>6

-----------------------------------------------------------------------------
(* The answer to the SELECT of a bulk call, as a whole. *)

\* What the records a and b got: one instance if they have one key, else one each.
Answered(r, a, b, e, pick) ==
  LET n == Len(objs) IN
  \E made \in BOOLEAN :
    /\ For(r.objs[n + 1], a, made, e, pick)
    /\ IF a.key = b.key
       THEN /\ Len(r.objs) = n + 1
            /\ r.results = <<Result(n + 1, made), Result(n + 1, FALSE)>>
       ELSE /\ Len(r.objs) = n + 2
            /\ \E more \in BOOLEAN :
                 /\ For(r.objs[n + 2], b, more, e, pick)
                 /\ r.results = <<Result(n + 1, made), Result(n + 2, more)>>

\* Two instances are made, the others stay.
LEMMA AppendPair ==
  ASSUME NEW S, NEW os \in Seq(S), NEW b \in S, NEW c \in S
  PROVE  LET q == Append(Append(os, b), c)
             n == Len(os)
         IN /\ q \in Seq(S) /\ Len(q) = n + 2 /\ q[n + 1] = b /\ q[n + 2] = c
            /\ \A x \in 1 .. n : q[x] = os[x]
<1> DEFINE p == Append(os, b)
           q == Append(p, c)
           n == Len(os)
<1>1. p \in Seq(S) /\ Len(p) = n + 1 /\ p[n + 1] = b /\ n \in Nat /\ \A x \in 1 .. n : p[x] = os[x]
  BY AppendOne
<1> HIDE DEF p
<1>2. q \in Seq(S) /\ Len(q) = Len(p) + 1 /\ q[Len(p) + 1] = c /\ \A x \in 1 .. Len(p) : q[x] = p[x]
  BY <1>1, AppendOne
<1> HIDE DEF q
<1>3. n + 1 \in 1 .. Len(p) /\ \A x \in 1 .. n : x \in 1 .. Len(p)
  BY <1>1
<1>4. q \in Seq(S) /\ Len(q) = n + 2 /\ q[n + 1] = b /\ q[n + 2] = c
  BY <1>1, <1>2, <1>3
<1>5. \A x \in 1 .. n : q[x] = os[x]
  BY <1>1, <1>2, <1>3
<1> QED BY <1>4, <1>5 DEF q, p

\* The bulk calls make one instance per key, and plan to insert the new ones.
LEMMA AnswerBulk ==
  ASSUME NEW j, ObjsOK(objs), j.stmt.kind = "find", j.op \in Bulks, NEW a \in Record, NEW b \in Record,
         j.records = <<a, b>>, NEW e, e.ok, RowsIn(e),
         NEW pick, PickOK(e, pick)
  PROVE  LET r == Resume(j, e, objs, pick)
             n == Len(objs)
         IN /\ r.ok /\ r.objs \in Seq(Instance) /\ \A x \in DOMAIN objs : r.objs[x] = objs[x]
            /\ Answered(r, a, b, e, pick)
            /\ Plan(r.todo, r.objs, n) /\ ChosenFirst(r.todo, r.objs, n)
<1> DEFINE r == Resume(j, e, objs, pick)
           n == Len(objs)
           base == Acc(objs, <<>>)
           one == BulkRecord(base, a, j, e, pick)
           two == BulkRecord(one, b, j, e, pick)
           mine(acc) == [i \in 1 .. Len(acc.objs) - n |-> n + i]
           create(acc) == Those(mine(acc), {o \in DOMAIN acc.objs : ~acc.objs[o].in_db})
           stale(acc) == Those(mine(acc), {o \in DOMAIN acc.objs : acc.objs[o].in_db})
           cols == UNION {Given(rec) : rec \in ToSet(j.records)}
           updates == j.op = "bulk_update_or_create"
           update(acc) == IF updates /\ stale(acc) # <<>> THEN <<Update(stale(acc), cols)>> ELSE <<>>
           todo(acc) == BulkCreatePartitioned(acc.objs, create(acc)) \o update(acc)
           fold == Records(j.records, j, e, pick, base)
<1>1. r = ResumeBulk(j, e, objs, pick)
  BY DEF Resume, Bulks
<1>2. fold = two
  BY RecordPair
<1>3. r = Answer(fold.objs, todo(fold), fold.results)
  BY <1>1 DEF ResumeBulk, Records, Acc
<1> HIDE DEF two, fold, r
<1>4. r = Answer(two.objs, todo(two), two.results)
  BY <1>2, <1>3
<1>5. r.ok /\ r.objs = two.objs /\ r.todo = todo(two) /\ r.results = two.results
  <2> HIDE DEF todo
  <2> QED BY <1>4 DEF Answer
<1>6. cols \in SUBSET {"author", "state"}
  <2>1. ToSet(j.records) \subseteq Record
    BY DEF ToSet
  <2> QED BY <2>1, GivenCols
<1>7. objs \in Seq(Instance) /\ n \in Nat /\ DOMAIN objs = 1 .. n
  BY DEF ObjsOK
<1>8. PICK x \in Instance, made \in BOOLEAN :
        /\ one = Acc(Append(objs, x), Append(<<>>, Result(n + 1, made)))
        /\ For(x, a, made, e, pick)
  <2> DEFINE res == <<>>
  <2>1. base = Acc(objs, res) /\ ~KeyIn(objs, res, a.key)
    BY DEF KeyIn
  <2> HIDE DEF res, base
  <2>2. Joins(one, objs, res, a, e, pick)
    BY <2>1, RecordAnew DEF one
  <2> QED BY <2>2 DEF res, Joins
<1>9. one = Acc(Append(objs, x), <<Result(n + 1, made)>>) /\ x.key = a.key
  BY <1>8, ForKey
<1> HIDE DEF one, n, cols
<1>10. CASE a.key = b.key
  <2>1. PICK y \in Instance :
          /\ two = Acc(Append(objs, y), <<Result(n + 1, made), Result(n + 1, FALSE)>>)
          /\ For(y, a, made, e, pick)
    <3>1. /\ objs \in Seq(Instance) /\ x \in Instance /\ For(x, a, made, e, pick)
          /\ one = Acc(Append(objs, x), <<Result(Len(objs) + 1, made)>>)
      BY <1>7, <1>8, <1>9 DEF n
    <3>2. Shares(two, objs, made, a, e, pick)
      BY <1>10, <3>1, RecordAgain DEF two
    <3> QED BY <3>2 DEF Shares, n
  <2>2. two.objs = Append(objs, y) /\ two.results = <<Result(n + 1, made), Result(n + 1, FALSE)>>
    BY <2>1 DEF Acc
  <2>3. /\ two.objs \in Seq(Instance) /\ Len(two.objs) = n + 1 /\ two.objs[n + 1] = y
        /\ \A z \in DOMAIN objs : two.objs[z] = objs[z]
    BY <1>7, <2>2, AppendOne DEF n
  <2>4. mine(two) = <<n + 1>>
    BY <1>7, <2>3
  <2>5. Plan(todo(two), two.objs, n) /\ ChosenFirst(todo(two), two.objs, n)
    <3> HIDE DEF mine
    <3>1. updates \in BOOLEAN
      OBVIOUS
    <3> HIDE DEF updates
    <3> QED BY <1>6, <1>7, <2>3, <2>4, <3>1, PlanForOne
  <2> HIDE DEF todo
  <2>6. Answered(r, a, b, e, pick)
    BY <1>5, <1>10, <2>1, <2>2, <2>3 DEF Answered, n
  <2> QED BY <1>5, <2>3, <2>5, <2>6 DEF r, n
<1>11. CASE a.key # b.key
  <2>1. PICK y \in Instance, more \in BOOLEAN :
          /\ two = Acc(Append(Append(objs, x), y),
                      Append(<<Result(n + 1, made)>>, Result(Len(Append(objs, x)) + 1, more)))
          /\ For(y, b, more, e, pick)
    <3> DEFINE os == Append(objs, x)
               res == <<Result(n + 1, made)>>
    <3>1. DOMAIN res = {1} /\ res[1].o = n + 1 /\ os[n + 1] = x
      BY <1>7, AppendOne DEF n, Result
    <3> HIDE DEF os, res
    <3>2. ~KeyIn(os, res, b.key)
      BY <1>9, <1>11, <3>1 DEF KeyIn
    <3>3. one = Acc(os, res)
      BY <1>9 DEF os, res
    <3>4. Joins(two, os, res, b, e, pick)
      BY <3>2, <3>3, RecordAnew DEF two
    <3> QED BY <3>4 DEF Joins, os, res
  <2>2. Len(Append(objs, x)) + 1 = n + 2
    BY <1>7, AppendOne DEF n
  <2>3. Append(<<Result(n + 1, made)>>, Result(n + 2, more)) = <<Result(n + 1, made), Result(n + 2, more)>>
    BY AppendTwo
  <2>4. two.objs = Append(Append(objs, x), y) /\ two.results = <<Result(n + 1, made), Result(n + 2, more)>>
    <3> HIDE DEF Result
    <3>1. two = Acc(Append(Append(objs, x), y), <<Result(n + 1, made), Result(n + 2, more)>>)
      BY <2>1, <2>2, <2>3, Zenon
    <3> QED BY <3>1 DEF Acc
  <2>5. /\ two.objs \in Seq(Instance) /\ Len(two.objs) = n + 2 /\ two.objs[n + 1] = x /\ two.objs[n + 2] = y
        /\ \A z \in DOMAIN objs : two.objs[z] = objs[z]
    BY <1>7, <2>4, AppendPair DEF n
  <2>6. mine(two) = <<n + 1, n + 2>>
    <3> DEFINE f == mine(two)
               g == <<n + 1, n + 2>>
    <3>1. f = [i \in 1 .. 2 |-> f[i]] /\ g = [i \in 1 .. 2 |-> g[i]]
      BY <1>7, <2>5
    <3>2. \A i \in 1 .. 2 : f[i] = g[i]
      BY <1>7, <2>5
    <3> HIDE DEF f, g
    <3>3. f = g
      BY <3>1, <3>2
    <3> QED BY <3>3 DEF f, g
  <2>7. Plan(todo(two), two.objs, n) /\ ChosenFirst(todo(two), two.objs, n)
    <3> HIDE DEF mine
    <3>1. updates \in BOOLEAN
      OBVIOUS
    <3> HIDE DEF updates
    <3> QED BY <1>6, <1>7, <2>5, <2>6, <3>1, PlanForTwo
  <2> HIDE DEF todo
  <2>8. Answered(r, a, b, e, pick)
    BY <1>5, <1>8, <1>11, <2>1, <2>4, <2>5 DEF Answered, n
  <2> QED BY <1>5, <2>5, <2>7, <2>8 DEF r, n
<1> QED BY <1>10, <1>11

-----------------------------------------------------------------------------
(* Binding an item of work to a statement. *)

Writing == {"insert", "upsert", "update", "delete", "defaults", "reload"}

Touches(it) ==
  IF it.do \in {"insert", "upsert", "update"} THEN ToSet(it.os)
  ELSE IF it.do \in {"save", "delete", "defaults", "reload"} THEN {it.o} ELSE {}

\* The values of an INSERT are those of the instance.
Gives(v, ob) == /\ v.id = ob.id /\ v.key = ob.key /\ v.author = ob.author
                /\ v.state = ob.state /\ v.stamp = ob.stamp

\* The values of an UPDATE are those of the instance, for the columns it writes.
Shows(v, ob) ==
  /\ "key" \in DOMAIN v => v["key"] = ob.key
  /\ "author" \in DOMAIN v => v["author"] = ob.author
  /\ "state" \in DOMAIN v => v["state"] = ob.state
  /\ "stamp" \in DOMAIN v => v["stamp"] = ob.stamp

\* The statement says what its instance at place i has.
Fits(s, i, ob) ==
  /\ s.kind = "insert" => ~ob.in_db /\ Gives(s.values[i], ob)
  /\ s.kind = "upsert" => ~ob.in_db /\ ob.id = None /\ s.values[i].key = ob.key
  /\ s.kind = "update" => ob.in_db /\ s.ids[i] = ob.id /\ Shows(s.values[i], ob)
  /\ s.kind = "defaults" => ob.in_db
  /\ s.kind = "reload" => s.id # OwnId
  /\ s.kind \in {"delete", "defaults", "reload"} => s.id = ob.id

Agrees(s, os, sp) == s.kind \in Writing => \A i \in DOMAIN s.os : s.os[i] \in sp \/ Fits(s, i, os[s.os[i]])

\* The instances of an item are as the call that makes it knows them.
ItemFits(it, os) ==
  /\ it.do \in {"insert", "upsert"} => \A o \in ToSet(it.os) : ~os[o].in_db
  /\ it.do = "upsert" => \A o \in ToSet(it.os) : os[o].id = None
  /\ it.do = "update" => \A o \in ToSet(it.os) : os[o].in_db
  /\ it.do = "defaults" => os[it.o].in_db
  /\ it.do = "reload" => os[it.o].id # OwnId

\* No UPDATE of the item can write NULL over the database default.
Careful(it, os) ==
  /\ it.do = "save" => (os[it.o].in_db /\ "state" \in it.cols =>
                         os[it.o].state # None \/ (it.cols = Columns /\ os[it.o].marks))
  /\ it.do = "update" => \A o \in ToSet(it.os) : "state" \in it.cols => os[o].state # None

StateGiven(s) ==
  s.kind = "update" => \A i \in DOMAIN s.os : "state" \in DOMAIN s.values[i] => s.values[i]["state"] # None

\* What a stamp changes in an instance.
Stamped(a, b) ==
  /\ b.in_db = a.in_db /\ b.id = a.id /\ b.key = a.key /\ b.author = a.author
  /\ b.state = a.state /\ b.marks = a.marks /\ b.cache = a.cache
  /\ a.stamp # None => b.stamp # None

\* A time of creation that is known is not stamped again but by bulk_create.
Steady(it, a, b) == decl.stamp = "add" /\ it.do \notin {"insert", "upsert"} => a.stamp = None \/ b.stamp = a.stamp

Bound(b, it, os) ==
  /\ ObjsOK(b.objs) /\ Len(b.objs) = Len(os)
  /\ \A x \in DOMAIN os : /\ Stamped(os[x], b.objs[x]) /\ Steady(it, os[x], b.objs[x])
                          /\ x \notin Touches(it) => b.objs[x] = os[x]
  /\ StmtOK(b.stmt, Len(os)) /\ b.stmt.kind # "none" /\ (b.stmt.kind = "find" => it.do = "find")
  /\ UsedBy(b.stmt) = Touches(it)
  /\ Agrees(b.stmt, b.objs, {})
  /\ Careful(it, os) => StateGiven(b.stmt)
  /\ it.do = "defaults" => b.stmt.kind = "defaults" /\ b.stmt.os = <<it.o>>

\* A stamp that was known stays, unless it is auto_now; none is left unset in a new row.
LEMMA StampOK ==
  ASSUME NEW a \in Instance, a.in_db => a.stamp # None /\ a.id # None, NEW now \in Stamps
  PROVE  /\ \A cols : LET b == ApplyAutoNow(a, cols, now) IN
                      /\ b \in Instance /\ Stamped(a, b)
                      /\ b.in_db => b.stamp # None
                      /\ decl.stamp = "add" => a.stamp = None \/ b.stamp = a.stamp
         /\ LET b == BulkAutoNow(a, now) IN b \in Instance /\ Stamped(a, b) /\ b.stamp # None
         /\ decl.stamp \in {"add", "now", "both"} => ApplyAutoNow(a, Columns, now).stamp # None
<1>1. now # None /\ now \in Stamps \cup {None}
  BY PersistenceAssumption DEF Stamps
<1>2. LET b == [a EXCEPT !.stamp = now] IN b \in Instance /\ Stamped(a, b) /\ b.stamp = now /\ b.in_db = a.in_db
  BY <1>1 DEF Instance, Stamped
<1>3. Stamped(a, a)
  BY DEF Stamped
<1>4. ASSUME NEW cols
      PROVE  LET b == ApplyAutoNow(a, cols, now) IN
                      /\ b \in Instance /\ Stamped(a, b)
                      /\ b.in_db => b.stamp # None
                      /\ decl.stamp = "add" => a.stamp = None \/ b.stamp = a.stamp
  BY <1>1, <1>2, <1>3 DEF ApplyAutoNow
<1>5. LET b == BulkAutoNow(a, now) IN b \in Instance /\ Stamped(a, b) /\ b.stamp # None
  BY <1>1, <1>2, <1>3 DEF BulkAutoNow
<1>6. decl.stamp \in {"add", "now", "both"} => ApplyAutoNow(a, Columns, now).stamp # None
  BY <1>1, <1>2 DEF ApplyAutoNow, Columns
<1> QED BY <1>4, <1>5, <1>6

\* The fields of a declaration.
LEMMA DeclOK ==
  ASSUME decl \in Declarations
  PROVE  /\ decl.stamp \in {"add", "now", "both"} /\ decl.returning \in BOOLEAN /\ decl.multirow \in BOOLEAN
         /\ decl.fetch \in BOOLEAN /\ decl.unique \in BOOLEAN
  BY PersistenceAssumption DEF Declaration

\* The values for some columns of an instance that is stored.
LEMMA ValuesOK ==
  ASSUME NEW ob \in Instance, ob.stamp # None, NEW cols \in SUBSET Columns
  PROVE  /\ PartOK(Values(ob, cols)) /\ Shows(Values(ob, cols), ob) /\ DOMAIN Values(ob, cols) = cols
         /\ "state" \in cols => Values(ob, cols)["state"] = ob.state
<1>1. \A c \in cols : Values(ob, cols)[c] = ob[c]
  BY DEF Values
<1>2. DOMAIN Values(ob, cols) = cols
  BY DEF Values
<1>3. ob["key"] \in Keys /\ ob["author"] \in Authors \cup {None} /\ ob["state"] \in States \cup {None} /\ ob["stamp"] \in Stamps
  BY DEF Instance
<1> QED BY <1>1, <1>2, <1>3 DEF PartOK, Shows, Columns

\* The values of an INSERT are those of the instance.
LEMMA GivesOK ==
  ASSUME NEW ob \in Instance, ob.stamp # None, NEW o \in Nat
  PROVE  /\ InsertValues(o, ob) \in Value /\ Gives(InsertValues(o, ob), ob) /\ InsertValues(o, ob).by = o
  BY DEF InsertValues, Value, Gives, Instance

\* save() binds to an INSERT of all columns or an UPDATE of those it lists.
LEMMA BindSaveOK ==
  ASSUME NEW os, ObjsOK(os), decl \in Declarations, NEW it, it.do = "save", it.o \in DOMAIN os,
         it.cols \subseteq Columns, NEW now \in Stamps
  PROVE  Bound(Bind(it, os, now), it, os)
<1> DEFINE o == it.o
           a == os[o]
           ob == ApplyAutoNow(a, IF a.in_db THEN it.cols ELSE Columns, now)
           written == IF it.cols = Columns /\ ob.marks THEN Columns \ {"state"} ELSE it.cols
           s == IF ~ob.in_db
                THEN [kind |-> "insert", one |-> TRUE, os |-> <<o>>, values |-> <<InsertValues(o, ob)>>]
                ELSE [kind |-> "update", os |-> <<o>>, ids |-> <<ob.id>>, values |-> <<Values(ob, written)>>]
           after == [os EXCEPT ![o] = ob]
           b == Bind(it, os, now)
<1>1. b = [objs |-> after, stmt |-> s]
  BY DEF Bind, BindSave
<1>2. a \in Instance /\ (a.in_db => a.stamp # None /\ a.id # None) /\ os \in Seq(Instance) /\ o \in Nat
      /\ Len(os) \in Nat /\ DOMAIN os = 1 .. Len(os)
  BY DEF ObjsOK
<1>3. ob \in Instance /\ Stamped(a, ob) /\ (ob.in_db => ob.stamp # None)
      /\ (decl.stamp = "add" => a.stamp = None \/ ob.stamp = a.stamp)
      /\ (~a.in_db => ob.stamp # None)
  <2>1. a.in_db => /\ ob \in Instance /\ Stamped(a, ob) /\ (ob.in_db => ob.stamp # None)
      /\ (decl.stamp = "add" => a.stamp = None \/ ob.stamp = a.stamp)
    BY <1>2, StampOK
  <2>2. ~a.in_db => /\ ob \in Instance /\ Stamped(a, ob) /\ (ob.in_db => ob.stamp # None)
      /\ (decl.stamp = "add" => a.stamp = None \/ ob.stamp = a.stamp) /\ ob.stamp # None
    BY <1>2, StampOK, DeclOK
  <2> QED BY <2>1, <2>2
<1> HIDE DEF ob, a
<1>4. ob.in_db = a.in_db /\ ob.id = a.id /\ ob.state = a.state /\ ob.marks = a.marks
  BY <1>3 DEF Stamped
<1>5. after \in Seq(Instance) /\ Len(after) = Len(os) /\ DOMAIN after = DOMAIN os
      /\ after[o] = ob /\ \A x \in DOMAIN os : x # o => after[x] = os[x]
  BY <1>2, <1>3, PutOne
<1>6. b.objs = after /\ b.stmt = s
  BY <1>1
<1> HIDE DEF after
<1>7. ObjsOK(b.objs) /\ Len(b.objs) = Len(os)
  BY <1>2, <1>3, <1>4, <1>5, <1>6 DEF ObjsOK
<1>8. \A x \in DOMAIN os : /\ Stamped(os[x], b.objs[x]) /\ Steady(it, os[x], b.objs[x])
                           /\ x \notin Touches(it) => b.objs[x] = os[x]
  <2>1. \A x \in DOMAIN os : x \notin Touches(it) => b.objs[x] = os[x]
    BY <1>5, <1>6 DEF Touches
  <2>2. \A x : Stamped(os[x], os[x]) /\ Steady(it, os[x], os[x])
    BY DEF Stamped, Steady
  <2>3. Stamped(os[o], after[o]) /\ Steady(it, os[o], after[o])
    BY <1>3, <1>5 DEF Steady, a
  <2> QED BY <1>5, <1>6, <2>1, <2>2, <2>3
<1>9. Once(<<o>>) /\ <<o>> \in Seq(1 .. Len(os)) /\ <<o>> # <<>> /\ ToSet(<<o>>) = {o}
      /\ Len(<<o>>) = 1 /\ DOMAIN <<o>> = {1} /\ <<o>>[1] = o /\ o \in 1 .. Len(os)
  BY <1>2 DEF Once, ToSet
<1>10. Touches(it) = {o}
  BY DEF Touches
<1>11. CASE ~ob.in_db
  <2>1. s = [kind |-> "insert", one |-> TRUE, os |-> <<o>>, values |-> <<InsertValues(o, ob)>>]
    BY <1>11
  <2> HIDE DEF s
  <2>2. s.kind = "insert" /\ s.one = TRUE /\ s.os = <<o>> /\ s.values = <<InsertValues(o, ob)>> /\ {"kind", "os"} \subseteq DOMAIN s
    BY <2>1
  <2> HIDE DEF o
  <2>3. InsertValues(o, ob) \in Value /\ Gives(InsertValues(o, ob), ob) /\ InsertValues(o, ob).by = o
    BY <1>2, <1>3, <1>4, <1>11, GivesOK
  <2>4. s.values \in Seq(Value) /\ Len(s.values) = 1 /\ s.values[1] = InsertValues(o, ob)
    BY <2>2, <2>3
  <2>5. InsertOK(s, Len(os))
    BY <1>9, <2>2, <2>3, <2>4 DEF InsertOK, BatchOK
  <2>6. StmtOK(s, Len(os))
    BY <1>9, <2>2, <2>5 DEF StmtOK, Kinds, Targeted
  <2>7. UsedBy(s) = {o}
    BY <1>9, <2>2 DEF UsedBy
  <2>8. Agrees(s, after, {})
    BY <1>4, <1>5, <1>9, <1>11, <2>2, <2>3, <2>4 DEF Agrees, Fits
  <2>9. StateGiven(s)
    BY <2>2 DEF StateGiven
  <2> QED BY <1>6, <1>7, <1>8, <1>10, <2>2, <2>6, <2>7, <2>8, <2>9 DEF Bound, o
<1>12. CASE ob.in_db
  <2>1. s = [kind |-> "update", os |-> <<o>>, ids |-> <<ob.id>>, values |-> <<Values(ob, written)>>]
    BY <1>12
  <2> HIDE DEF s
  <2>2. s.kind = "update" /\ s.os = <<o>> /\ s.ids = <<ob.id>> /\ s.values = <<Values(ob, written)>>
        /\ {"kind", "os"} \subseteq DOMAIN s /\ "values" \in DOMAIN s
    BY <2>1
  <2>3. written \in SUBSET Columns /\ ("state" \in written => "state" \in it.cols /\ ~(it.cols = Columns /\ ob.marks))
    BY DEF Columns
  <2> HIDE DEF o, written
  <2>4. PartOK(Values(ob, written)) /\ Shows(Values(ob, written), ob) /\ DOMAIN Values(ob, written) = written
        /\ ("state" \in written => Values(ob, written)["state"] = ob.state)
    BY <1>3, <1>12, <2>3, ValuesOK
  <2>5. DOMAIN s.values = {1} /\ s.values[1] = Values(ob, written) /\ s.ids \in Seq(Ids) /\ Len(s.ids) = 1 /\ s.ids[1] = ob.id
    BY <1>3, <2>2 DEF Instance
  <2>6. BatchOK(s.os, Len(os))
    BY <1>9, <2>2 DEF BatchOK
  <2>7. StmtOK(s, Len(os))
    BY <1>9, <2>2, <2>4, <2>5, <2>6 DEF StmtOK, Kinds, Targeted
  <2>8. UsedBy(s) = {o}
    BY <1>9, <2>2 DEF UsedBy
  <2>9. Agrees(s, after, {})
    BY <1>4, <1>5, <1>9, <1>12, <2>2, <2>4, <2>5 DEF Agrees, Fits
  <2>10. Careful(it, os) => StateGiven(s)
    BY <1>4, <1>9, <1>12, <2>2, <2>3, <2>4, <2>5 DEF StateGiven, Careful, o, a
  <2> QED BY <1>6, <1>7, <1>8, <1>10, <2>2, <2>7, <2>8, <2>9, <2>10 DEF Bound, o
<1> QED BY <1>11, <1>12

\* bulk_create binds to an INSERT or an upsert of its instances.
LEMMA BindInsertOK ==
  ASSUME NEW os, ObjsOK(os), NEW it, it.do \in {"insert", "upsert"}, BatchOK(it.os, Len(os)),
         it.do = "upsert" => decl.unique /\ it.cols \subseteq {"author"} /\ Len(it.os) = 2,
         ItemFits(it, os), NEW now \in Stamps
  PROVE  Bound(Bind(it, os, now), it, os)
<1> DEFINE batch == it.os
           after == [o \in DOMAIN os |-> IF o \in ToSet(batch) THEN BulkAutoNow(os[o], now) ELSE os[o]]
           values == [i \in DOMAIN batch |-> InsertValues(batch[i], after[batch[i]])]
           plain == [kind |-> "insert", one |-> FALSE, os |-> batch, values |-> values]
           merge == [kind |-> "upsert", os |-> batch, cols |-> it.cols, values |-> values]
           b == Bind(it, os, now)
<1>1. os \in Seq(Instance) /\ Len(os) \in Nat /\ DOMAIN os = 1 .. Len(os)
      /\ \A o \in DOMAIN os : os[o] \in Instance /\ (os[o].in_db => os[o].stamp # None /\ os[o].id # None)
  BY DEF ObjsOK
<1>2. b.objs = after /\ b.stmt = IF it.do = "insert" THEN plain ELSE merge
  <2>1. BindInsert(os, batch, now) = [objs |-> after, stmt |-> plain]
    BY DEF BindInsert
  <2> HIDE DEF after, values
  <2>2. it.do = "insert" => b = [objs |-> after, stmt |-> plain]
    BY <2>1 DEF Bind
  <2>3. it.do = "upsert" => b = [[objs |-> after, stmt |-> plain] EXCEPT !.stmt = merge]
    BY <2>1 DEF Bind, BindUpsert
  <2> HIDE DEF plain, merge, b
  <2>4. it.do = "upsert" => b = [objs |-> after, stmt |-> merge]
    BY <2>3
  <2> QED BY <2>2, <2>4
<1>3. ASSUME NEW x \in DOMAIN os
      PROVE  /\ after[x] \in Instance /\ Stamped(os[x], after[x])
             /\ (x \in ToSet(batch) => after[x].stamp # None) /\ (x \notin ToSet(batch) => after[x] = os[x])
  <2>1. CASE x \in ToSet(batch)
    <3>1. after[x] = BulkAutoNow(os[x], now)
      BY <2>1
    <3> QED BY <1>1, <2>1, <3>1, StampOK
  <2>2. CASE x \notin ToSet(batch)
    BY <1>1, <2>2 DEF Stamped
  <2> QED BY <2>1, <2>2
<1>4. DOMAIN after = 1 .. Len(os) /\ after = [x \in 1 .. Len(os) |-> after[x]]
  BY <1>1
<1> HIDE DEF after
<1>5. after \in Seq(Instance) /\ Len(after) = Len(os)
  BY <1>1, <1>3, <1>4
<1>6. ObjsOK(after)
  BY <1>1, <1>3, <1>4, <1>5 DEF ObjsOK, Stamped
<1>7. Touches(it) = ToSet(batch)
  BY DEF Touches
<1>8. \A x \in DOMAIN os : /\ Stamped(os[x], after[x]) /\ Steady(it, os[x], after[x])
                           /\ x \notin Touches(it) => after[x] = os[x]
  BY <1>3, <1>7 DEF Steady
<1>9. /\ batch \in Seq(1 .. Len(os)) /\ batch # <<>> /\ Len(batch) \in Nat /\ DOMAIN batch = 1 .. Len(batch)
      /\ \A i \in DOMAIN batch : batch[i] \in 1 .. Len(os) /\ batch[i] \in ToSet(batch)
  BY DEF BatchOK, ToSet
<1>10. ASSUME NEW i \in DOMAIN batch
       PROVE  /\ values[i] \in Value /\ Gives(values[i], after[batch[i]]) /\ values[i].by = batch[i]
              /\ ~after[batch[i]].in_db
  <2> DEFINE o == batch[i]
  <2>1. o \in DOMAIN os /\ o \in Nat /\ o \in ToSet(batch) /\ ~os[o].in_db
    BY <1>1, <1>9 DEF ItemFits
  <2>2. values[i] = InsertValues(o, after[o])
    OBVIOUS
  <2> HIDE DEF o
  <2>3. after[o] \in Instance /\ after[o].stamp # None /\ ~after[o].in_db
    BY <1>3, <2>1 DEF Stamped
  <2> QED BY <2>1, <2>2, <2>3, GivesOK DEF o
<1>11. DOMAIN values = 1 .. Len(batch) /\ values = [i \in 1 .. Len(batch) |-> values[i]]
  BY <1>9
<1> HIDE DEF values
<1>12. values \in Seq(Value) /\ Len(values) = Len(batch)
  <2> DEFINE m == Len(batch)
  <2>1. m \in Nat /\ \A i \in 1 .. m : values[i] \in Value
    BY <1>9, <1>10
  <2>2. values = [i \in 1 .. m |-> values[i]]
    BY <1>11
  <2> HIDE DEF m
  <2>3. values \in Seq(Value) /\ Len(values) = m
    BY <2>1, <2>2
  <2> QED BY <2>3 DEF m
<1> DEFINE s == b.stmt
<1>13. s.kind = it.do /\ s.os = batch /\ s.values = values /\ {"kind", "os"} \subseteq DOMAIN s
       /\ (it.do = "insert" => s.one = FALSE) /\ (it.do = "upsert" => s.cols = it.cols)
  BY <1>2
<1> HIDE DEF s, batch
<1>14. InsertOK(s, Len(os))
  <2>1. BatchOK(batch, Len(os))
    BY DEF batch
  <2> QED BY <1>10, <1>12, <1>13, <2>1 DEF InsertOK
<1>15. StmtOK(s, Len(os)) /\ s.kind # "none" /\ s.kind # "find" /\ s.kind # "defaults"
  BY <1>13, <1>14 DEF StmtOK, Kinds, Targeted, batch
<1>16. UsedBy(s) = Touches(it)
  BY <1>7, <1>13 DEF UsedBy
<1>17. Agrees(s, after, {})
  <2>1. \A i \in DOMAIN batch : it.do = "upsert" => after[batch[i]].id = None
    BY <1>1, <1>3, <1>9 DEF ItemFits, Stamped, batch
  <2>2. \A i \in DOMAIN batch : s.values[i].key = after[batch[i]].key
    BY <1>10, <1>13 DEF Gives
  <2> QED BY <1>10, <1>13, <2>1, <2>2 DEF Agrees, Fits
<1>18. StateGiven(s)
  BY <1>13 DEF StateGiven
<1> QED BY <1>2, <1>5, <1>6, <1>8, <1>15, <1>16, <1>17, <1>18 DEF Bound, s

\* bulk_update binds to an UPDATE of its instances.
LEMMA BindUpdateOK ==
  ASSUME NEW os, ObjsOK(os), decl \in Declarations, NEW it, it.do = "update", BatchOK(it.os, Len(os)),
         it.cols \subseteq Columns, ItemFits(it, os), NEW now \in Stamps
  PROVE  Bound(Bind(it, os, now), it, os)
<1> DEFINE batch == it.os
           after == [o \in DOMAIN os |->
                       IF o \in ToSet(batch) /\ decl.stamp # "add" THEN ApplyAutoNow(os[o], Columns, now) ELSE os[o]]
           written == IF decl.stamp = "add" THEN it.cols ELSE it.cols \cup {"stamp"}
           ids == [i \in DOMAIN batch |-> os[batch[i]].id]
           values == [i \in DOMAIN batch |-> Values(after[batch[i]], written)]
           s == [kind |-> "update", os |-> batch, ids |-> ids, values |-> values]
           b == Bind(it, os, now)
<1>1. os \in Seq(Instance) /\ Len(os) \in Nat /\ DOMAIN os = 1 .. Len(os)
      /\ \A o \in DOMAIN os : os[o] \in Instance /\ (os[o].in_db => os[o].stamp # None /\ os[o].id # None)
  BY DEF ObjsOK
<1>2. b = [objs |-> after, stmt |-> s]
  BY DEF Bind, BindUpdate
<1>3. ASSUME NEW x \in DOMAIN os
      PROVE  /\ after[x] \in Instance /\ Stamped(os[x], after[x]) /\ (after[x].in_db => after[x].stamp # None)
             /\ (x \notin ToSet(batch) => after[x] = os[x]) /\ (decl.stamp = "add" => after[x] = os[x])
  <2>1. CASE x \in ToSet(batch) /\ decl.stamp # "add"
    <3>1. after[x] = ApplyAutoNow(os[x], Columns, now)
      BY <2>1
    <3> HIDE DEF after
    <3> QED BY <1>1, <2>1, <3>1, StampOK
  <2>2. CASE ~(x \in ToSet(batch) /\ decl.stamp # "add")
    <3>1. after[x] = os[x]
      BY <2>2
    <3> HIDE DEF after
    <3> QED BY <1>1, <2>2, <3>1 DEF Stamped
  <2> QED BY <2>1, <2>2
<1>4. DOMAIN after = 1 .. Len(os) /\ after = [x \in 1 .. Len(os) |-> after[x]]
  BY <1>1
<1>4a. b.objs = after /\ b.stmt = s
  BY <1>2
<1> HIDE DEF after
<1>5. after \in Seq(Instance) /\ Len(after) = Len(os)
  BY <1>1, <1>3, <1>4
<1>6. ObjsOK(after)
  BY <1>1, <1>3, <1>4, <1>5 DEF ObjsOK, Stamped
<1>7. Touches(it) = ToSet(batch)
  BY DEF Touches
<1>8. \A x \in DOMAIN os : /\ Stamped(os[x], after[x]) /\ Steady(it, os[x], after[x])
                           /\ x \notin Touches(it) => after[x] = os[x]
  BY <1>3, <1>7 DEF Steady
<1>9. /\ batch \in Seq(1 .. Len(os)) /\ batch # <<>> /\ Len(batch) \in Nat /\ DOMAIN batch = 1 .. Len(batch)
      /\ \A i \in DOMAIN batch : batch[i] \in 1 .. Len(os) /\ batch[i] \in ToSet(batch)
  BY DEF BatchOK, ToSet
<1>9a. written \in SUBSET Columns /\ ("state" \in written => "state" \in it.cols)
  BY DEF Columns
<1> HIDE DEF written
<1>10. ASSUME NEW i \in DOMAIN batch
       PROVE  LET ob == after[batch[i]]
                  v == values[i]
              IN /\ ob.in_db /\ PartOK(v) /\ Shows(v, ob) /\ DOMAIN v = written
                 /\ ("state" \in written => v["state"] = ob.state)
                 /\ ids[i] = ob.id /\ ids[i] \in Ids /\ ob.state = os[batch[i]].state
  <2> DEFINE o == batch[i]
  <2>1. o \in DOMAIN os /\ o \in ToSet(batch) /\ os[o].in_db
    BY <1>1, <1>9 DEF ItemFits
  <2>2. values[i] = Values(after[o], written) /\ ids[i] = os[o].id
    OBVIOUS
  <2> HIDE DEF o
  <2>3. after[o] \in Instance /\ after[o].stamp # None /\ after[o].in_db /\ after[o].id = os[o].id /\ after[o].state = os[o].state
    BY <1>3, <2>1 DEF Stamped
  <2>4. os[o].id \in Ids
    BY <1>1, <2>1 DEF Instance
  <2>5. /\ PartOK(Values(after[o], written)) /\ Shows(Values(after[o], written), after[o])
        /\ DOMAIN Values(after[o], written) = written
        /\ ("state" \in written => Values(after[o], written)["state"] = after[o].state)
    BY <1>9a, <2>3, ValuesOK
  <2> HIDE DEF values, ids
  <2> QED BY <2>1, <2>2, <2>3, <2>4, <2>5 DEF o
<1>11. DOMAIN values = 1 .. Len(batch) /\ DOMAIN ids = 1 .. Len(batch) /\ ids = [i \in 1 .. Len(batch) |-> ids[i]]
  BY <1>9
<1> HIDE DEF values, ids
<1>12. ids \in Seq(Ids) /\ Len(ids) = Len(batch)
  <2> DEFINE m == Len(batch)
  <2>1. m \in Nat /\ \A i \in 1 .. m : ids[i] \in Ids
    BY <1>9, <1>10
  <2>2. ids = [i \in 1 .. m |-> ids[i]]
    BY <1>11
  <2> HIDE DEF m
  <2>3. ids \in Seq(Ids) /\ Len(ids) = m
    BY <2>1, <2>2
  <2> QED BY <2>3 DEF m
<1>13. s.kind = "update" /\ s.os = batch /\ s.values = values /\ s.ids = ids
       /\ {"kind", "os"} \subseteq DOMAIN s /\ "values" \in DOMAIN s
  OBVIOUS
<1> HIDE DEF s
<1>14. BatchOK(batch, Len(os))
  OBVIOUS
<1> HIDE DEF batch
<1>15. StmtOK(s, Len(os))
  BY <1>9, <1>10, <1>11, <1>12, <1>13, <1>14 DEF StmtOK, Kinds, Targeted
<1>16. UsedBy(s) = Touches(it)
  BY <1>7, <1>13 DEF UsedBy
<1>17. Agrees(s, after, {})
  BY <1>10, <1>13 DEF Agrees, Fits
<1>18. Careful(it, os) => StateGiven(s)
  BY <1>9, <1>9a, <1>10, <1>13 DEF Careful, StateGiven, batch
<1> HIDE DEF b
<1> QED BY <1>4a, <1>5, <1>6, <1>8, <1>13, <1>15, <1>16, <1>17, <1>18 DEF Bound, b

\* An item that only reads, or needs nothing but the key of its instance.
LEMMA BindReadOK ==
  ASSUME NEW os, ObjsOK(os), NEW it, it.do \in {"find", "prefetch"} \cup Targeted,
         it.do = "find" => it.keys \subseteq Keys,
         it.do \in Targeted => it.o \in DOMAIN os,
         ItemFits(it, os), NEW now
  PROVE  Bound(Bind(it, os, now), it, os)
<1> DEFINE b == Bind(it, os, now)
           s == b.stmt
           o == it.o
<1>1. os \in Seq(Instance) /\ Len(os) \in Nat /\ DOMAIN os = 1 .. Len(os)
  BY DEF ObjsOK
<1>2. b.objs = os /\ b.stmt.kind = it.do
  BY DEF Bind, Targeted
<1>3. \A x : Stamped(os[x], os[x]) /\ Steady(it, os[x], os[x])
  BY DEF Stamped, Steady
<1>4. CASE it.do = "find"
  <2>1. s = [kind |-> "find", os |-> <<>>, keys |-> it.keys]
    BY <1>4 DEF Bind
  <2> HIDE DEF s
  <2>2. s.kind = "find" /\ s.os = <<>> /\ s.keys = it.keys /\ {"kind", "os"} \subseteq DOMAIN s
    BY <2>1
  <2>3. StmtOK(s, Len(os))
    BY <1>4, <2>2 DEF StmtOK, Kinds, Targeted
  <2>4. UsedBy(s) = {}
    BY <2>2 DEF UsedBy, ToSet
  <2>5. Agrees(s, os, {}) /\ StateGiven(s) /\ Touches(it) = {}
    BY <1>4, <2>2 DEF Agrees, Writing, StateGiven, Touches
  <2> QED BY <1>1, <1>2, <1>3, <1>4, <2>2, <2>3, <2>4, <2>5 DEF Bound, s
<1>5. CASE it.do = "prefetch"
  <2>1. s = [kind |-> "prefetch", os |-> it.os, ids |-> {os[x].author : x \in ToSet(it.os)} \ {None}]
    BY <1>5 DEF Bind
  <2> HIDE DEF s
  <2>2. s.kind = "prefetch" /\ {"kind", "os"} \subseteq DOMAIN s
    BY <2>1
  <2>3. StmtOK(s, Len(os))
    BY <1>5, <2>2 DEF StmtOK, Kinds, Targeted
  <2>4. UsedBy(s) = {}
    BY <2>2 DEF UsedBy
  <2>5. Agrees(s, os, {}) /\ StateGiven(s) /\ Touches(it) = {}
    BY <1>5, <2>2 DEF Agrees, Writing, StateGiven, Touches
  <2> QED BY <1>1, <1>2, <1>3, <1>5, <2>2, <2>3, <2>4, <2>5 DEF Bound, s
<1>6. CASE it.do \in Targeted
  <2>1. s = [kind |-> it.do, os |-> <<o>>, id |-> os[o].id, author |-> os[o].author]
    BY <1>6 DEF Bind, Targeted
  <2>2. o \in DOMAIN os /\ os[o] \in Instance
    BY <1>1, <1>6
  <2> HIDE DEF s, o
  <2>3. s.kind = it.do /\ s.os = <<o>> /\ s.id = os[o].id /\ s.author = os[o].author /\ {"kind", "os"} \subseteq DOMAIN s
    BY <2>1
  <2>4. <<o>> \in Seq(1 .. Len(os)) /\ Len(<<o>>) = 1 /\ ToSet(<<o>>) = {o} /\ DOMAIN <<o>> = {1} /\ <<o>>[1] = o
    BY <1>1, <2>2 DEF ToSet
  <2>5. s.id \in Ids /\ s.author \in Authors \cup {None}
    BY <2>2, <2>3 DEF Instance
  <2>6. StmtOK(s, Len(os)) /\ s.kind # "none" /\ s.kind # "find"
    BY <1>6, <2>3, <2>4, <2>5 DEF StmtOK, Kinds, Targeted
  <2>7. UsedBy(s) = Touches(it)
    BY <1>6, <2>3, <2>4 DEF UsedBy, Touches, Targeted, o
  <2>8. StateGiven(s)
    BY <1>6, <2>3 DEF StateGiven, Targeted
  <2>9. Agrees(s, os, {})
    <3>1. s.kind \in Writing => /\ s.kind \in {"delete", "defaults", "reload"}
                                /\ s.kind = "defaults" => os[o].in_db
                                /\ s.kind = "reload" => os[o].id # OwnId
      BY <1>6, <2>3 DEF Writing, Targeted, ItemFits, o
    <3> QED BY <2>3, <2>4, <3>1 DEF Agrees, Fits
  <2> QED BY <1>1, <1>2, <1>3, <2>3, <2>6, <2>7, <2>8, <2>9 DEF Bound, s, o
<1> QED BY <1>4, <1>5, <1>6

\* Whatever the item, the statement uses its instances, says what they have, and no
\* other instance changes.
LEMMA BindOK ==
  ASSUME NEW os, ObjsOK(os), decl \in Declarations, NEW it, ItemOK(it, Len(os)), ItemFits(it, os), NEW now \in Stamps
  PROVE  Bound(Bind(it, os, now), it, os)
<1>1. DOMAIN os = 1 .. Len(os)
  BY DEF ObjsOK
<1>2. CASE it.do = "save"
  BY <1>1, <1>2, BindSaveOK DEF ItemOK, Targeted
<1>3. CASE it.do \in {"insert", "upsert"}
  BY <1>3, BindInsertOK DEF ItemOK, Targeted
<1>4. CASE it.do = "update"
  BY <1>4, BindUpdateOK DEF ItemOK, Targeted
<1>5. CASE it.do \in {"find", "prefetch"} \cup Targeted
  BY <1>1, <1>5, BindReadOK DEF ItemOK, Targeted
<1> QED BY <1>2, <1>3, <1>4, <1>5 DEF ItemOK

-----------------------------------------------------------------------------
(* The inductive invariant.  T gives, for every primary key generated so far that no  *)
(* caller chooses, the key and the time of creation that belong to it for ever,       *)
(* whether its row is there, deleted or about to be inserted again.                   *)

Lines(T) == \A p \in Nat : T[p].stamp \in Stamps

Kin(T, p, x) == x.key = T[p].key /\ (decl.stamp = "add" => x.stamp = T[p].stamp)

\* T goes on as it was, up to n.
Extends(T, U, n) == Lines(U) /\ \A p \in 0 .. n : U[p] = T[p]

RowsLin(T, n, rs) ==
  \A p \in DOMAIN rs : /\ p <= n \/ (p = OwnId /\ ~decl.advances)
                       /\ p \in Gen => Kin(T, p, rs[p])

Holds(T, n, ob) == ob.id \in Gen => ob.id <= n /\ Kin(T, ob.id, ob)

InsertLin(T, n, v, ob) ==
  /\ v.key = ob.key /\ (decl.stamp = "add" => v.stamp = ob.stamp)
  /\ v.id \in Gen => v.id <= n /\ Kin(T, v.id, v)
  /\ ob.stamp # None

UpdateLin(T, n, p, v) ==
  /\ p # None
  /\ p \in Gen => /\ p <= n
                  /\ "key" \in DOMAIN v => v["key"] = T[p].key
                  /\ "stamp" \in DOMAIN v /\ decl.stamp = "add" => v["stamp"] = T[p].stamp

ReloadLin(T, n, p, ob) ==
  /\ p # OwnId
  /\ p \in Gen => p <= n /\ Kin(T, p, ob)

StmtLin(T, n, s, os) ==
  /\ s.kind = "insert" => \A i \in DOMAIN s.os : InsertLin(T, n, s.values[i], os[s.os[i]])
  /\ s.kind = "update" => \A i \in DOMAIN s.os : UpdateLin(T, n, s.ids[i], s.values[i])
  /\ s.kind = "defaults" => s.id # None
  /\ s.kind = "reload" => \A i \in DOMAIN s.os : ReloadLin(T, n, s.id, os[s.os[i]])

TodoLin(todo, os) ==
  \A i \in DOMAIN todo : todo[i].do = "insert" => \A o \in ToSet(todo[i].os) : os[o].id \in {None, OwnId}

TodoFits(todo, os) == \A i \in DOMAIN todo : ItemFits(todo[i], os)

TodoCareful(todo, os) == \A i \in DOMAIN todo : Careful(todo[i], os)

Made(j) == {r.o : r \in ToSet(j.results)}
Later(j) == UNION {ToSet(j.todo[i].os) : i \in DOMAIN j.todo}
Busied(j) == UsedBy(j.stmt) \cup Later(j)

\* What is left for later concerns instances made in the call, each in one item.
JobOwn(sp, j) ==
  /\ Made(j) \cap sp = {}
  /\ Later(j) \subseteq Made(j) /\ Later(j) \cap UsedBy(j.stmt) = {}
  /\ \A i, k \in DOMAIN j.todo : i # k => ToSet(j.todo[i].os) \cap ToSet(j.todo[k].os) = {}

JobInv(T, n, os, sp, ls, j) ==
  /\ StmtLin(T, n, j.stmt, os) /\ TodoLin(j.todo, os)
  /\ Agrees(j.stmt, os, sp) /\ TodoFits(j.todo, os)
  /\ JobOwn(sp, j)
  /\ ~ls => StateGiven(j.stmt) /\ TodoCareful(j.todo, os)

\* Two calls share an instance only if it is spoilt, and none they have made.
Apart(j, k, sp) == Busied(j) \cap Busied(k) \subseteq sp /\ Made(j) \cap (Busied(k) \cup Made(k)) = {}

\* A row an instance has inserted is the one it carries the key of, or one it does not
\* know the key of.
RowOf(ob, p, row) ==
  \/ ob.in_db /\ ob.id = p
  \/ ~ob.in_db /\ ob.id = None /\ decl.unique /\ p # OwnId /\ row.key = ob.key

Inserted(rs, os, sp) ==
  /\ UniqueKeys(rs)
  /\ \A o \in DOMAIN os \ sp : \A p \in DOMAIN rs \ {OwnId} : rs[p].by = o => RowOf(os[o], p, rs[p])

Awaited(js, o) == \E u \in Tasks : js[u].stmt.kind = "defaults" /\ js[u].stmt.os[1] = o

\* A default that is None in memory was never read, or is being read; rd are instances
\* the SELECT is about to be sent for.
Read(rs, os, js, rd) ==
  /\ \A p \in DOMAIN rs : rs[p].state # None
  /\ \A o \in DOMAIN os : os[o].in_db /\ os[o].state = None => os[o].marks \/ o \in rd \/ Awaited(js, o)

Base(T, rs, n, os, sp) ==
  /\ Lines(T) /\ n \in Nat /\ ObjsOK(os) /\ RowsOK(rs, Len(os)) /\ sp \subseteq 1 .. Len(os)
  /\ RowsLin(T, n, rs) /\ \A o \in DOMAIN os : Holds(T, n, os[o])
  /\ Inserted(rs, os, sp)

World(T, rs, n, os, js, sp, ls, rd) ==
  /\ decl \in Declarations
  /\ Base(T, rs, n, os, sp)
  /\ DOMAIN js = Tasks
  /\ \A t \in Tasks : JobOK(js[t], Len(os)) /\ JobInv(T, n, os, sp, ls, js[t])
  /\ \A t, u \in Tasks : t # u => Apart(js[t], js[u], sp)
  /\ ~ls => Read(rs, os, js, rd)

-----------------------------------------------------------------------------
(* A call is left alone by what happens to instances it does not use. *)

\* An instance goes on: its key and time of creation stay, or were never stored.
Evolves(a, b) ==
  /\ a.stamp # None => b.stamp # None
  /\ b.key = a.key /\ (decl.stamp = "add" => b.stamp = a.stamp \/ a.stamp = None)

\* An instance that stays the same goes on.
LEMMA SameEvolves ==
  ASSUME NEW a, NEW b, Same(a, b)
  PROVE  Evolves(a, b)
BY DEF Same, Evolves

\* What T says of a key generated before, its continuation says too.
LEMMA KinGrows ==
  ASSUME NEW T, NEW U, NEW n \in Nat, Extends(T, U, n), NEW p \in Nat, p <= n, NEW x, Kin(T, p, x)
  PROVE  Kin(U, p, x)
BY DEF Extends, Kin

\* A statement still fits the keys it is for when the table and other instances go on.
LEMMA StmtLinKeeps ==
  ASSUME NEW T, NEW n \in Nat, Lines(T), NEW U, NEW m \in Nat, n <= m, Extends(T, U, n),
         NEW os, NEW os2, NEW s, NEW k \in Nat, StmtOK(s, k), StmtLin(T, n, s, os),
         \A x \in UsedBy(s) : Evolves(os[x], os2[x])
  PROVE  StmtLin(U, m, s, os2)
<1>1. \A p \in Nat : p <= n => U[p] = T[p] /\ p <= m
  BY DEF Extends
<1>2. None \notin Stamps /\ OwnId \notin Gen /\ Gen \subseteq Nat
  BY PersistenceAssumption DEF Stamps, Gen
<1>3. CASE s.kind = "insert"
  <2> SUFFICES ASSUME NEW i \in DOMAIN s.os PROVE InsertLin(U, m, s.values[i], os2[s.os[i]])
    BY <1>3 DEF StmtLin
  <2>1. Evolves(os[s.os[i]], os2[s.os[i]])
    BY <1>3 DEF UsedBy, ToSet
  <2>2. InsertLin(T, n, s.values[i], os[s.os[i]])
    BY <1>3 DEF StmtLin
  <2>3. s.values[i].stamp # None
    <3>1. s.values[i] \in Value
      BY <1>3 DEF StmtOK, InsertOK
    <3> QED BY <1>2, <3>1 DEF Value
  <2> DEFINE v == s.values[i]
             a == os[s.os[i]]
             b == os2[s.os[i]]
  <2> HIDE DEF v, a, b
  <2>4. v.key = b.key /\ (decl.stamp = "add" => v.stamp = b.stamp) /\ b.stamp # None
    BY <2>1, <2>2, <2>3 DEF InsertLin, Evolves, v, a, b
  <2>5. v.id \in Gen => v.id <= m /\ Kin(U, v.id, v)
    <3> SUFFICES ASSUME v.id \in Gen PROVE v.id <= m /\ Kin(U, v.id, v)
      OBVIOUS
    <3>1. v.id \in Nat /\ v.id <= n /\ Kin(T, v.id, v)
      BY <1>2, <2>2 DEF InsertLin, v
    <3>2. U[v.id] = T[v.id] /\ v.id <= m
      BY <1>1, <3>1
    <3> QED BY <3>1, <3>2 DEF Kin
  <2> QED BY <2>4, <2>5 DEF InsertLin, v, b
<1>4. CASE s.kind = "update"
  BY <1>1, <1>2, <1>4 DEF StmtLin, UpdateLin
<1>5. CASE s.kind = "reload"
  <2> SUFFICES ASSUME NEW i \in DOMAIN s.os PROVE ReloadLin(U, m, s.id, os2[s.os[i]])
    BY <1>5 DEF StmtLin
  <2>1. Evolves(os[s.os[i]], os2[s.os[i]])
    BY <1>5 DEF UsedBy, ToSet
  <2>2. ReloadLin(T, n, s.id, os[s.os[i]])
    BY <1>5 DEF StmtLin
  <2>3. s.id \in Gen => T[s.id].stamp # None
    BY <1>2 DEF Lines
  <2> QED BY <1>1, <1>2, <2>1, <2>2, <2>3 DEF ReloadLin, Evolves, Kin
<1> QED BY <1>3, <1>4, <1>5 DEF StmtLin

\* A statement still agrees with instances that nobody else used.
LEMMA AgreesKeeps ==
  ASSUME NEW os, NEW os2, NEW sp, NEW sp2, sp \subseteq sp2, NEW s, Agrees(s, os, sp),
         \A x \in UsedBy(s) : x \in sp2 \/ Same(os[x], os2[x])
  PROVE  Agrees(s, os2, sp2)
<1> SUFFICES ASSUME s.kind \in Writing, NEW i \in DOMAIN s.os, s.os[i] \notin sp2
             PROVE  Fits(s, i, os2[s.os[i]])
  BY DEF Agrees
<1>1. Fits(s, i, os[s.os[i]])
  BY DEF Agrees
<1>2. Same(os[s.os[i]], os2[s.os[i]])
  <2>1. s.os[i] \in UsedBy(s)
    BY DEF UsedBy, ToSet, Writing
  <2> QED BY <2>1
<1> QED BY <1>1, <1>2 DEF Fits, Same, Gives, Shows

\* Work for later still fits instances that nobody else used.
LEMMA TodoKeeps ==
  ASSUME NEW os, NEW os2, NEW j, JobOK(j, Len(os)), \A x \in Later(j) : Same(os[x], os2[x])
  PROVE  /\ TodoLin(j.todo, os) => TodoLin(j.todo, os2)
         /\ TodoFits(j.todo, os) => TodoFits(j.todo, os2)
         /\ TodoCareful(j.todo, os) => TodoCareful(j.todo, os2)
<1>1. \A i \in DOMAIN j.todo : j.todo[i].do \in {"insert", "update"}
  BY DEF JobOK, Items
<1>2. \A i \in DOMAIN j.todo : \A x \in ToSet(j.todo[i].os) : Same(os[x], os2[x])
  BY DEF Later
<1>3. TodoLin(j.todo, os) => TodoLin(j.todo, os2)
  BY <1>2 DEF TodoLin, Same
<1>4. ASSUME NEW i \in DOMAIN j.todo
      PROVE  /\ ItemFits(j.todo[i], os) => ItemFits(j.todo[i], os2)
             /\ Careful(j.todo[i], os) => Careful(j.todo[i], os2)
  BY <1>1, <1>2 DEF ItemFits, Careful, Same
<1> QED BY <1>3, <1>4 DEF TodoFits, TodoCareful

\* The call k goes on as k2 while instances os become os2, of which those it uses are
\* the same or spoilt.
LEMMA JobKeeps ==
  ASSUME NEW T, NEW n \in Nat, Lines(T), NEW U, NEW m \in Nat, n <= m, Extends(T, U, n),
         NEW os, ObjsOK(os), NEW os2, ObjsOK(os2), Len(os) <= Len(os2),
         NEW sp, NEW sp2, sp \subseteq sp2, NEW ls, NEW ls2, ls => ls2,
         NEW k, JobOK(k, Len(os)), JobInv(T, n, os, sp, ls, k), Made(k) \cap sp2 = {},
         \A x \in Busied(k) : (x \in sp2 \/ Same(os[x], os2[x])) /\ Evolves(os[x], os2[x])
  PROVE  JobOK(k, Len(os2)) /\ JobInv(U, m, os2, sp2, ls2, k)
<1>1. Len(os) \in Nat /\ Len(os2) \in Nat
  BY DEF ObjsOK
<1>2. JobOK(k, Len(os2))
  BY <1>1, JobGrows
<1>3. StmtOK(k.stmt, Len(os))
  BY DEF JobOK
<1>4. StmtLin(U, m, k.stmt, os2)
  <2>1. \A x \in UsedBy(k.stmt) : Evolves(os[x], os2[x])
    BY DEF Busied
  <2>2. StmtLin(T, n, k.stmt, os)
    BY DEF JobInv
  <2> QED BY <1>1, <1>3, <2>1, <2>2, StmtLinKeeps
<1>5. Agrees(k.stmt, os2, sp2)
  <2>1. \A x \in UsedBy(k.stmt) : x \in sp2 \/ Same(os[x], os2[x])
    BY DEF Busied
  <2>2. Agrees(k.stmt, os, sp)
    BY DEF JobInv
  <2> QED BY <2>1, <2>2, AgreesKeeps
<1>6. \A x \in Later(k) : Same(os[x], os2[x])
  BY DEF Busied, JobInv, JobOwn
<1>7. /\ TodoLin(k.todo, os2) /\ TodoFits(k.todo, os2)
      /\ ~ls => TodoCareful(k.todo, os2)
  BY <1>6, TodoKeeps DEF JobInv
<1>8. JobOwn(sp2, k)
  BY DEF JobInv, JobOwn
<1> QED BY <1>2, <1>4, <1>5, <1>7, <1>8 DEF JobInv

-----------------------------------------------------------------------------
(* A call goes on with an item of work. *)

Ready(it, t, os, js, sp, ls, rd) ==
  /\ ItemOK(it, Len(os)) /\ ItemFits(it, os) /\ (~ls => Careful(it, os))
  /\ it.do = "find" => Finding(js[t].op, js[t].records)
  /\ it.do \in {"insert", "upsert"} => /\ Touches(it) \subseteq Made(js[t])
                                       /\ \A o \in Touches(it) : os[o].id \in {None, OwnId}
  /\ Touches(it) \cap Later(js[t]) = {}
  /\ \A u \in Tasks \ {t} : Touches(it) \cap Busied(js[u]) \subseteq sp /\ Touches(it) \cap Made(js[u]) = {}
  /\ rd \subseteq IF it.do = "defaults" THEN {it.o} ELSE {}

\* Binding an item stamps instances, and does not disturb the table.
LEMMA GoBase ==
  ASSUME NEW T, NEW rs, NEW n, NEW os, NEW sp, Base(T, rs, n, os, sp), NEW it, NEW b, Bound(b, it, os),
         it.do \in {"insert", "upsert"} => \A o \in Touches(it) : os[o].id \in {None, OwnId}
  PROVE  Base(T, rs, n, b.objs, sp)
<1>1. ObjsOK(b.objs) /\ Len(b.objs) = Len(os) /\ DOMAIN b.objs = DOMAIN os /\ DOMAIN os = 1 .. Len(os)
  BY DEF Base, Bound, ObjsOK
<1>2. \A x \in DOMAIN os : Stamped(os[x], b.objs[x])
  BY DEF Bound
<1>3. None \notin Nat /\ OwnId \notin Gen /\ Gen \subseteq Nat /\ None \notin Stamps
  BY PersistenceAssumption DEF Stamps, Gen
<1>4. ASSUME NEW x \in DOMAIN os PROVE Holds(T, n, b.objs[x])
  <2> SUFFICES ASSUME b.objs[x].id \in Gen PROVE Holds(T, n, b.objs[x])
    BY DEF Holds
  <2>1. os[x].id = b.objs[x].id /\ os[x].key = b.objs[x].key
    BY <1>2 DEF Stamped
  <2>2. Holds(T, n, os[x])
    BY DEF Base
  <2>3. os[x].id <= n /\ Kin(T, os[x].id, os[x]) /\ T[os[x].id].stamp \in Stamps
    BY <1>3, <2>1, <2>2 DEF Holds, Base, Lines
  <2>4. decl.stamp = "add" => b.objs[x].stamp = os[x].stamp
    <3>1. CASE it.do \in {"insert", "upsert"}
      <4>1. x \notin Touches(it)
        BY <1>3, <2>1, <3>1
      <4> QED BY <4>1 DEF Bound
    <3>2. CASE it.do \notin {"insert", "upsert"}
      <4>1. Steady(it, os[x], b.objs[x])
        BY DEF Bound
      <4> QED BY <1>3, <2>3, <3>2, <4>1 DEF Steady, Kin
    <3> QED BY <3>1, <3>2
  <2> QED BY <2>1, <2>3, <2>4 DEF Holds, Kin
<1>5. Inserted(rs, b.objs, sp)
  <2>1. ASSUME NEW o \in DOMAIN b.objs \ sp, NEW p \in DOMAIN rs \ {OwnId}, rs[p].by = o
        PROVE  RowOf(b.objs[o], p, rs[p])
    <3>1. RowOf(os[o], p, rs[p])
      BY <1>1, <2>1 DEF Base, Inserted
    <3>2. Stamped(os[o], b.objs[o])
      BY <1>1, <1>2
    <3> QED BY <3>1, <3>2 DEF RowOf, Stamped
  <2>2. UniqueKeys(rs)
    BY DEF Base, Inserted
  <2> QED BY <2>1, <2>2 DEF Inserted
<1> QED BY <1>1, <1>4, <1>5 DEF Base

\* The call the item belongs to.
LEMMA GoJob ==
  ASSUME NEW T, NEW rs, NEW n, NEW os, NEW sp, Base(T, rs, n, os, sp), NEW it, NEW b, Bound(b, it, os),
         Base(T, rs, n, b.objs, sp), NEW ls, ~ls => Careful(it, os),
         NEW v, JobOK(v, Len(os)), JobInv(T, n, os, sp, ls, v), Touches(it) \cap Later(v) = {},
         it.do = "find" => Finding(v.op, v.records)
  PROVE  LET w == [v EXCEPT !.stmt = b.stmt]
         IN JobOK(w, Len(b.objs)) /\ JobInv(T, n, b.objs, sp, ls, w)
<1> DEFINE w == [v EXCEPT !.stmt = b.stmt]
           s == b.stmt
<1>1. v = [op |-> v.op, now |-> v.now, todo |-> v.todo, stmt |-> v.stmt, records |-> v.records,
           results |-> v.results, alone |-> v.alone]
  BY DEF JobOK
<1>2. /\ w = [op |-> w.op, now |-> w.now, todo |-> w.todo, stmt |-> w.stmt, records |-> w.records,
              results |-> w.results, alone |-> w.alone]
      /\ w.op = v.op /\ w.now = v.now /\ w.todo = v.todo /\ w.records = v.records /\ w.results = v.results
      /\ w.alone = v.alone /\ w.stmt = s
  BY <1>1
<1> HIDE DEF w, s
<1>3. Len(b.objs) = Len(os) /\ StmtOK(s, Len(os)) /\ (s.kind = "find" => it.do = "find")
      /\ UsedBy(s) = Touches(it) /\ Agrees(s, b.objs, {})
  BY DEF Bound, s
<1>4. JobOK(w, Len(b.objs))
  BY <1>2, <1>3 DEF JobOK
<1>5. DOMAIN os = 1 .. Len(os) /\ DOMAIN b.objs = DOMAIN os /\ \A x \in DOMAIN b.objs : Holds(T, n, b.objs[x])
      /\ (b.objs[x].in_db => b.objs[x].id # None)
  BY <1>3 DEF Base, ObjsOK
<1>6. StmtLin(T, n, s, b.objs)
  <2>1. \A i \in DOMAIN s.os : s.kind \in Writing => s.os[i] \in DOMAIN b.objs /\ Fits(s, i, b.objs[s.os[i]])
    <3>1. s.kind \in Writing => s.os \in Seq(1 .. Len(os))
      BY <1>3 DEF Writing, StmtOK, InsertOK, BatchOK, Targeted
    <3> QED BY <1>3, <1>5, <3>1 DEF Agrees
  <2>2. CASE s.kind = "insert"
    <3> SUFFICES ASSUME NEW i \in DOMAIN s.os PROVE InsertLin(T, n, s.values[i], b.objs[s.os[i]])
      BY <2>2 DEF StmtLin
    <3>1. Gives(s.values[i], b.objs[s.os[i]]) /\ Holds(T, n, b.objs[s.os[i]])
      BY <1>5, <2>1, <2>2 DEF Writing, Fits
    <3>2. b.objs[s.os[i]].stamp # None
      <4>1. s.values[i] \in Value
        BY <1>3, <2>2 DEF StmtOK, InsertOK
      <4>2. None \notin Stamps
        BY PersistenceAssumption DEF Stamps
      <4> QED BY <3>1, <4>1, <4>2 DEF Gives, Value
    <3> QED BY <3>1, <3>2 DEF InsertLin, Gives, Holds, Kin
  <2>3. CASE s.kind = "update"
    <3> SUFFICES ASSUME NEW i \in DOMAIN s.os PROVE UpdateLin(T, n, s.ids[i], s.values[i])
      BY <2>3 DEF StmtLin
    <3>1. /\ s.ids[i] = b.objs[s.os[i]].id /\ Shows(s.values[i], b.objs[s.os[i]])
          /\ Holds(T, n, b.objs[s.os[i]]) /\ s.ids[i] # None
      BY <1>5, <2>1, <2>3 DEF Writing, Fits
    <3> QED BY <3>1 DEF UpdateLin, Shows, Holds, Kin
  <2>4. CASE s.kind \in {"delete", "defaults", "reload"}
    <3>1. DOMAIN s.os = {1}
      BY <1>3, <2>4 DEF StmtOK, Targeted
    <3>2. /\ s.id = b.objs[s.os[1]].id /\ Holds(T, n, b.objs[s.os[1]])
          /\ s.kind = "defaults" => s.id # None
          /\ s.kind = "reload" => s.id # OwnId
      BY <1>5, <2>1, <2>4, <3>1 DEF Writing, Fits
    <3>3. s.kind = "reload" => ReloadLin(T, n, s.id, b.objs[s.os[1]])
      BY <3>2 DEF ReloadLin, Holds
    <3> QED BY <2>4, <3>1, <3>2, <3>3 DEF StmtLin
  <2> QED BY <2>2, <2>3, <2>4 DEF StmtLin
<1>7. Agrees(s, b.objs, sp)
  BY <1>3 DEF Agrees
<1>8. /\ TodoLin(w.todo, b.objs) /\ TodoFits(w.todo, b.objs)
      /\ ~ls => TodoCareful(w.todo, b.objs)
  <2>1. \A x \in Later(v) : Same(os[x], b.objs[x])
    <3>1. Later(v) \subseteq DOMAIN os
      BY <1>5 DEF Later, JobOK, BatchOK, ToSet
    <3> QED BY <3>1 DEF Bound, Stamped, Same
  <2> QED BY <1>2, <2>1, TodoKeeps DEF JobInv
<1>9. JobOwn(sp, w)
  <2>1. Made(w) = Made(v) /\ Later(w) = Later(v)
    BY <1>2 DEF Made, Later
  <2> QED BY <1>2, <1>3, <2>1 DEF JobInv, JobOwn
<1>10. ~ls => StateGiven(s)
  BY DEF Bound, s
<1> QED BY <1>2, <1>4, <1>6, <1>7, <1>8, <1>9, <1>10 DEF JobInv, w

\* A call takes its next item: its statement is on the wire.
LEMMA Go ==
  ASSUME NEW T, NEW rs, NEW n, NEW os, NEW js, NEW sp, NEW ls, NEW rd, World(T, rs, n, os, js, sp, ls, rd),
         NEW t \in Tasks, js[t].stmt.kind = "none", NEW it, Ready(it, t, os, js, sp, ls, rd),
         NEW b, b = Bind(it, os, js[t].now)
  PROVE  World(T, rs, n, b.objs, [js EXCEPT ![t] = [js[t] EXCEPT !.stmt = b.stmt]], sp, ls, {})
<1> DEFINE v == js[t]
           w == [v EXCEPT !.stmt = b.stmt]
           js2 == [js EXCEPT ![t] = w]
<1>1. Bound(b, it, os)
  BY BindOK DEF World, Base, Ready, JobOK
<1>2. /\ decl \in Declarations /\ Base(T, rs, n, os, sp) /\ DOMAIN js = Tasks
      /\ \A u \in Tasks : JobOK(js[u], Len(os)) /\ JobInv(T, n, os, sp, ls, js[u])
      /\ \A k, u \in Tasks : k # u => Apart(js[k], js[u], sp)
  BY DEF World
<1>3. Base(T, rs, n, b.objs, sp)
  BY <1>1, <1>2, GoBase DEF Ready
<1>4. JobOK(w, Len(b.objs)) /\ JobInv(T, n, b.objs, sp, ls, w)
  BY <1>1, <1>2, <1>3, GoJob DEF Ready
<1>5. w.results = v.results /\ w.todo = v.todo /\ w.stmt = b.stmt
  BY <1>2 DEF JobOK
<1>6. Made(w) = Made(v) /\ Later(w) = Later(v) /\ UsedBy(w.stmt) = Touches(it) /\ UsedBy(v.stmt) = {}
  BY <1>1, <1>5 DEF Made, Later, Bound, UsedBy
<1>7. DOMAIN js2 = Tasks /\ js2[t] = w /\ \A u \in Tasks \ {t} : js2[u] = js[u]
  BY <1>2
<1> HIDE DEF v, w, js2
<1>8. ASSUME NEW u \in Tasks \ {t}
      PROVE  JobOK(js[u], Len(b.objs)) /\ JobInv(T, n, b.objs, sp, ls, js[u])
  <2> DEFINE k == js[u]
  <2>1. JobOK(k, Len(os)) /\ JobInv(T, n, os, sp, ls, k) /\ Made(k) \cap sp = {}
    BY <1>2 DEF JobInv, JobOwn
  <2>2. Lines(T) /\ n \in Nat /\ ObjsOK(os) /\ ObjsOK(b.objs) /\ Len(os) \in Nat /\ Len(b.objs) = Len(os) /\ Extends(T, T, n)
        /\ DOMAIN os = 1 .. Len(os)
    BY <1>1, <1>2, <1>3 DEF Base, Extends, ObjsOK, Bound
  <2>3. ASSUME NEW x \in Busied(k) PROVE (x \in sp \/ Same(os[x], b.objs[x])) /\ Evolves(os[x], b.objs[x])
    <3>0. x \in DOMAIN os
      <4>1. CASE x \in Later(k)
        BY <2>1, <2>2, <4>1 DEF Later, JobOK, BatchOK, ToSet
      <4>2. CASE x \in UsedBy(k.stmt)
        BY <2>1, <2>2, <4>2 DEF JobOK, StmtOK, UsedBy, InsertOK, BatchOK, ToSet, Kinds, Targeted
      <4> QED BY <2>3, <4>1, <4>2 DEF Busied
    <3>1. Stamped(os[x], b.objs[x]) /\ Steady(it, os[x], b.objs[x]) /\ (x \notin Touches(it) => b.objs[x] = os[x])
      BY <1>1, <3>0 DEF Bound
    <3>2. x \in Touches(it) => x \in sp /\ it.do \notin {"insert", "upsert"}
      <4>1. Touches(it) \cap Busied(k) \subseteq sp
        BY DEF Ready
      <4>2. it.do \in {"insert", "upsert"} => Touches(it) \cap Busied(k) = {}
        BY <1>2 DEF Ready, Apart
      <4> QED BY <2>3, <4>1, <4>2
    <3> QED BY <3>1, <3>2 DEF Stamped, Same, Steady, Evolves
  <2> HIDE DEF k
  <2> QED BY <2>1, <2>2, <2>3, JobKeeps DEF k
<1>9. \A u \in Tasks : JobOK(js2[u], Len(b.objs)) /\ JobInv(T, n, b.objs, sp, ls, js2[u])
  BY <1>4, <1>7, <1>8
<1>10. ASSUME NEW k \in Tasks, NEW u \in Tasks, k # u PROVE Apart(js2[k], js2[u], sp)
  <2>1. ASSUME NEW y \in Tasks \ {t} PROVE Apart(w, js[y], sp) /\ Apart(js[y], w, sp)
    <3>1. Apart(v, js[y], sp) /\ Apart(js[y], v, sp)
      BY <1>2 DEF v
    <3>2. Touches(it) \cap Busied(js[y]) \subseteq sp /\ Touches(it) \cap Made(js[y]) = {}
      BY DEF Ready
    <3> QED BY <1>6, <3>1, <3>2 DEF Apart, Busied
  <2> QED BY <1>2, <1>7, <1>10, <2>1
<1>11. ASSUME ~ls PROVE Read(rs, b.objs, js2, {})
  <2>1. Read(rs, os, js, rd)
    BY <1>11 DEF World
  <2>2. DOMAIN b.objs = DOMAIN os
    BY <1>1, <1>2, <1>3 DEF Base, ObjsOK, Bound
  <2>3. ASSUME NEW o \in DOMAIN os, b.objs[o].in_db, b.objs[o].state = None
        PROVE  b.objs[o].marks \/ Awaited(js2, o)
    <3>1. Stamped(os[o], b.objs[o])
      BY <1>1 DEF Bound
    <3>2. os[o].marks \/ o \in rd \/ Awaited(js, o)
      BY <2>1, <2>3, <3>1 DEF Read, Stamped
    <3>3. o \in rd => Awaited(js2, o)
      <4>1. o \in rd => it.do = "defaults" /\ it.o = o
        BY DEF Ready
      <4>2. it.do = "defaults" => w.stmt.kind = "defaults" /\ w.stmt.os[1] = it.o
        BY <1>1, <1>5 DEF Bound
      <4> QED BY <1>7, <4>1, <4>2 DEF Awaited
    <3>4. Awaited(js, o) => Awaited(js2, o)
      BY <1>7 DEF Awaited
    <3> QED BY <3>1, <3>2, <3>3, <3>4 DEF Stamped
  <2> QED BY <2>1, <2>2, <2>3 DEF Read
<1> QED BY <1>2, <1>3, <1>7, <1>9, <1>10, <1>11 DEF World, js2, w, v

-----------------------------------------------------------------------------
(* What a statement does to the table. *)

\* T with the keys generated since n, as their rows say.
Further(T, n, rs) ==
  [p \in Nat |-> IF p <= n THEN T[p] ELSE IF p \in DOMAIN rs THEN rs[p] ELSE [stamp |-> 0]]

\* T goes on by the rows that were inserted.
LEMMA FurtherOK ==
  ASSUME NEW T, Lines(T), NEW n \in Nat, NEW rs, NEW m \in Nat, n <= m, TableOK(rs, m),
         \A p \in DOMAIN rs : p \in Gen /\ p <= n => Kin(T, p, rs[p])
  PROVE  Extends(T, Further(T, n, rs), n) /\ Lines(Further(T, n, rs)) /\ RowsLin(Further(T, n, rs), m, rs)
<1> DEFINE U == Further(T, n, rs)
<1>1. \A p \in Nat : U[p] = IF p <= n THEN T[p] ELSE IF p \in DOMAIN rs THEN rs[p] ELSE [stamp |-> 0]
  BY DEF Further
<1> HIDE DEF U
<1>2. 0 \in Stamps
  BY PersistenceAssumption DEF Stamps
<1>3. \A p \in DOMAIN rs : rs[p].stamp \in Stamps
  BY DEF TableOK, Row
<1>4. Lines(U)
  BY <1>1, <1>2, <1>3 DEF Lines
<1>5. \A p \in DOMAIN rs : p \in Gen => Kin(U, p, rs[p])
  <2> SUFFICES ASSUME NEW p \in DOMAIN rs, p \in Gen PROVE Kin(U, p, rs[p])
    OBVIOUS
  <2>1. p \in Nat
    BY DEF Gen
  <2> QED BY <1>1, <2>1 DEF Kin
<1>6. \A p \in DOMAIN rs : p <= m \/ (p = OwnId /\ ~decl.advances)
  BY DEF TableOK
<1> QED BY <1>1, <1>4, <1>5, <1>6 DEF RowsLin, Extends, U

\* Rows stay who they are; a new one belongs to an instance of the INSERT.
TableStep(T, e, s) ==
  /\ TableOK(e.rows, e.serial) /\ serial <= e.serial
  /\ \A p \in DOMAIN e.rows : p \in Gen /\ p <= serial => Kin(T, p, e.rows[p])
  /\ \A p \in DOMAIN e.rows \cap DOMAIN rows : e.rows[p].by = rows[p].by
  /\ \A p \in DOMAIN e.rows \ DOMAIN rows : e.rows[p].by \in UsedBy(s) /\ s.kind \in {"insert", "upsert"}
  /\ UniqueKeys(e.rows)
  /\ (\A p \in DOMAIN rows : rows[p].state # None) /\ StateGiven(s) => \A p \in DOMAIN e.rows : e.rows[p].state # None

\* The table of a world.
LEMMA TableIsOK ==
  ASSUME NEW T, NEW rs, NEW n, NEW os, NEW sp, Base(T, rs, n, os, sp)
  PROVE  TableOK(rs, n) /\ UniqueKeys(rs) /\ \A p \in DOMAIN rs : p \in Gen => p <= n /\ Kin(T, p, rs[p])
<1>1. OwnId \notin Gen /\ OwnId \in Nat
  BY PersistenceAssumption DEF Gen
<1> QED BY <1>1 DEF Base, RowsOK, RowsLin, TableOK, Inserted

\* Each statement continues T: an INSERT.
LEMMA StepInsert ==
  ASSUME NEW T, Base(T, rows, serial, objs, spoilt), NEW s, s.kind = "insert", StmtOK(s, Len(objs)),
         StmtLin(T, serial, s, objs), Execute(s).ok
  PROVE  TableStep(T, Execute(s), s)
<1> DEFINE e == Execute(s)
<1>1. TableOK(rows, serial) /\ serial \in Nat /\ \A p \in DOMAIN rows : p \in Gen => p <= serial /\ Kin(T, p, rows[p])
  BY TableIsOK DEF Base
<1>2. /\ s.values \in Seq(Value) /\ Len(s.values) = Len(s.os) /\ DOMAIN s.values = DOMAIN s.os
      /\ \A i \in DOMAIN s.os : s.values[i].by = s.os[i]
  BY DEF StmtOK, InsertOK, BatchOK
<1>3. e = ExecuteInsert(s.values)
  BY ExecuteKinds DEF Kinds
<1>4. ExecuteInsert(s.values).ok
  BY <1>3
<1> HIDE DEF e
<1>5. /\ e.serial \in Nat /\ serial <= e.serial
      /\ \A i \in DOMAIN s.values :
           /\ e.ids[i] \in DOMAIN e.rows \ DOMAIN rows
           /\ e.rows[e.ids[i]] = Stored(s.values[i])
           /\ IF s.values[i].id # None THEN e.ids[i] = s.values[i].id
              ELSE e.ids[i] \in Nat /\ serial < e.ids[i] /\ e.ids[i] <= e.serial
           /\ s.values[i].id = OwnId /\ decl.advances => OwnId <= e.serial
      /\ \A p \in DOMAIN rows : p \in DOMAIN e.rows /\ e.rows[p] = rows[p]
      /\ \A p \in DOMAIN e.rows \ DOMAIN rows : \E i \in DOMAIN s.values : e.ids[i] = p
      /\ UniqueKeys(e.rows)
  BY <1>1, <1>2, <1>3, <1>4, Inserts
<1>6. ASSUME NEW p \in DOMAIN e.rows \ DOMAIN rows
      PROVE  /\ e.rows[p] \in Row /\ p \in Nat /\ (p <= e.serial \/ (p = OwnId /\ ~decl.advances))
             /\ (p \in Gen /\ p <= serial => Kin(T, p, e.rows[p]))
             /\ e.rows[p].by \in UsedBy(s) /\ e.rows[p].state # None
  <2>1. PICK i \in DOMAIN s.values : e.ids[i] = p
    BY <1>5
  <2> DEFINE v == s.values[i]
  <2>2. v \in Value /\ v.by = s.os[i] /\ e.rows[p] = Stored(v) /\ i \in DOMAIN s.os
    BY <1>2, <1>5, <2>1
  <2>3. v.id # None => p = v.id /\ (v.id = OwnId /\ decl.advances => p <= e.serial)
    BY <1>5, <2>1
  <2>4. v.id = None => p \in Nat /\ serial < p /\ p <= e.serial
    BY <1>5, <2>1
  <2>5. InsertLin(T, serial, v, objs[s.os[i]])
    BY <2>2 DEF StmtLin
  <2>6. UsedBy(s) = ToSet(s.os) /\ s.os[i] \in ToSet(s.os)
    BY <2>2 DEF UsedBy, ToSet
  <2> HIDE DEF v
  <2>7. /\ e.rows[p] \in Row /\ e.rows[p].state # None /\ e.rows[p].key = v.key /\ e.rows[p].stamp = v.stamp
        /\ e.rows[p].by = v.by
    BY <2>2, StoredRow
  <2>8. v.id \in Ids
    BY <2>2 DEF Value
  <2>9. OwnId \in Nat /\ serial \in Nat /\ e.serial \in Nat /\ serial <= e.serial
    BY <1>1, <1>5, PersistenceAssumption
  <2>10. CASE v.id = None
    BY <2>2, <2>4, <2>6, <2>7, <2>9, <2>10
  <2>11. CASE v.id # None
    <3>1. p = v.id /\ p \in Nat /\ (p \in Gen => p <= serial /\ Kin(T, p, v))
      BY <2>3, <2>5, <2>8, <2>9, <2>11 DEF InsertLin, Ids
    <3>2. p <= e.serial \/ (p = OwnId /\ ~decl.advances)
      <4>1. CASE v.id = OwnId
        BY <2>3, <2>11, <4>1
      <4>2. CASE v.id # OwnId
        BY <2>9, <3>1, <4>2 DEF Gen
      <4> QED BY <4>1, <4>2
    <3>3. p \in Gen /\ p <= serial => Kin(T, p, e.rows[p])
      BY <2>7, <3>1 DEF Kin
    <3> QED BY <2>2, <2>6, <2>7, <3>1, <3>2, <3>3
  <2> QED BY <2>10, <2>11
<1>7. TableOK(e.rows, e.serial)
  BY <1>1, <1>5, <1>6 DEF TableOK
<1> QED BY <1>1, <1>5, <1>6, <1>7 DEF TableStep, e

\* Each statement continues T: an UPDATE.
LEMMA StepUpdate ==
  ASSUME NEW T, Base(T, rows, serial, objs, spoilt), NEW s, s.kind = "update", StmtOK(s, Len(objs)),
         StmtLin(T, serial, s, objs), Execute(s).ok
  PROVE  TableStep(T, Execute(s), s)
<1> DEFINE e == Execute(s)
           n == Len(s.os)
<1>1. TableOK(rows, serial) /\ serial \in Nat /\ \A p \in DOMAIN rows : p \in Gen => p <= serial /\ Kin(T, p, rows[p])
  BY TableIsOK DEF Base
<1>2. /\ n \in Nat /\ DOMAIN s.os = 1 .. n /\ DOMAIN s.ids = 1 .. n /\ DOMAIN s.values = 1 .. n
      /\ \A i \in 1 .. n : PartOK(s.values[i])
  BY DEF StmtOK, BatchOK
<1>3. e = ExecuteUpdate(s.ids, s.values)
  BY ExecuteKinds DEF Kinds
<1>4. ExecuteUpdate(s.ids, s.values).ok
  BY <1>3
<1> HIDE DEF e, n
<1>5. /\ e.serial = serial /\ DOMAIN e.rows = DOMAIN rows /\ UniqueKeys(e.rows)
      /\ \A p \in DOMAIN rows :
           \/ e.rows[p] = rows[p] /\ \A i \in 1 .. n : s.ids[i] # p
           \/ \E i \in 1 .. n : s.ids[i] = p /\ e.rows[p] = Put(rows[p], s.values[i])
  BY <1>2, <1>3, <1>4, Updates
<1>6. ASSUME NEW p \in DOMAIN rows
      PROVE  /\ e.rows[p] \in Row /\ p \in Nat /\ (p <= e.serial \/ (p = OwnId /\ ~decl.advances))
             /\ (p \in Gen /\ p <= serial => Kin(T, p, e.rows[p]))
             /\ e.rows[p].by = rows[p].by
             /\ rows[p].state # None /\ StateGiven(s) => e.rows[p].state # None
  <2>1. rows[p] \in Row /\ p \in Nat /\ (p <= serial \/ (p = OwnId /\ ~decl.advances))
    BY <1>1 DEF TableOK
  <2>2. CASE e.rows[p] = rows[p]
    BY <1>1, <1>5, <2>1, <2>2
  <2>3. CASE \E i \in 1 .. n : s.ids[i] = p /\ e.rows[p] = Put(rows[p], s.values[i])
    <3>1. PICK i \in 1 .. n : s.ids[i] = p /\ e.rows[p] = Put(rows[p], s.values[i])
      BY <2>3
    <3> DEFINE v == s.values[i]
    <3>2. PartOK(v) /\ i \in DOMAIN s.os
      BY <1>2
    <3>3. UpdateLin(T, serial, p, v)
      BY <3>1, <3>2 DEF StmtLin
    <3>4. StateGiven(s) => ("state" \in DOMAIN v => v["state"] # None)
      BY <3>2 DEF StateGiven
    <3>5. e.rows[p] = Put(rows[p], v)
      BY <3>1
    <3> HIDE DEF v
    <3>6. /\ e.rows[p] \in Row /\ e.rows[p].by = rows[p].by
          /\ e.rows[p].key = IF "key" \in DOMAIN v THEN v["key"] ELSE rows[p].key
          /\ e.rows[p].state = IF "state" \in DOMAIN v THEN v["state"] ELSE rows[p].state
          /\ e.rows[p].stamp = IF "stamp" \in DOMAIN v THEN v["stamp"] ELSE rows[p].stamp
      BY <2>1, <3>2, <3>5, PutRow
    <3> QED BY <1>1, <1>5, <2>1, <3>3, <3>4, <3>6 DEF UpdateLin, Kin
  <2> QED BY <1>5, <2>2, <2>3
<1>7. TableOK(e.rows, e.serial)
  BY <1>1, <1>5, <1>6 DEF TableOK
<1> QED BY <1>1, <1>5, <1>6, <1>7 DEF TableStep, e

\* Each statement continues T: an upsert.
LEMMA StepUpsert ==
  ASSUME NEW T, Base(T, rows, serial, objs, spoilt), NEW s, s.kind = "upsert", StmtOK(s, Len(objs))
  PROVE  TableStep(T, Execute(s), s)
<1> DEFINE e == Execute(s)
<1>1. /\ TableOK(rows, serial) /\ serial \in Nat /\ UniqueKeys(rows)
      /\ \A p \in DOMAIN rows : p \in Gen => p <= serial /\ Kin(T, p, rows[p])
  BY TableIsOK DEF Base
<1>2. /\ s.values \in Seq(Value) /\ Len(s.values) = 2 /\ DOMAIN s.values = DOMAIN s.os /\ DOMAIN s.os = {1, 2}
      /\ \A i \in DOMAIN s.os : s.values[i].by = s.os[i]
      /\ s.cols \in SUBSET {"author"} /\ Once(s.os)
  BY DEF StmtOK, InsertOK, BatchOK
<1>3. s.values[1].by # s.values[2].by
  BY <1>2 DEF Once
<1>4. e = ExecuteUpsert(s.values, s.cols)
  BY ExecuteKinds DEF Kinds
<1> HIDE DEF e
<1>5. /\ TableOK(e.rows, e.serial) /\ serial <= e.serial
      /\ \A p \in DOMAIN rows : p \in DOMAIN e.rows /\ Alike(e.rows[p], rows[p])
      /\ \A p \in DOMAIN e.rows \ DOMAIN rows :
           /\ p \in Nat /\ serial < p
           /\ \E i \in DOMAIN s.values : Alike(e.rows[p], Stored(s.values[i]))
      /\ UniqueKeys(rows) => UniqueKeys(e.rows)
  BY <1>1, <1>2, <1>3, <1>4, UpsertsBoth
<1>6. ASSUME NEW p \in DOMAIN rows
      PROVE  /\ (p \in Gen /\ p <= serial => Kin(T, p, e.rows[p]))
             /\ e.rows[p].by = rows[p].by /\ e.rows[p].state = rows[p].state
  BY <1>1, <1>5 DEF Alike, Kin
<1>7. ASSUME NEW p \in DOMAIN e.rows \ DOMAIN rows
      PROVE  ~(p <= serial) /\ e.rows[p].by \in UsedBy(s) /\ e.rows[p].state # None
  <2>1. PICK i \in DOMAIN s.values : Alike(e.rows[p], Stored(s.values[i]))
    BY <1>5
  <2>2. s.values[i] \in Value /\ s.values[i].by = s.os[i] /\ i \in DOMAIN s.os
    BY <1>2
  <2>3. Stored(s.values[i]).by = s.os[i] /\ Stored(s.values[i]).state # None
    BY <2>2, StoredRow
  <2>4. s.os[i] \in UsedBy(s)
    BY <2>2 DEF UsedBy, ToSet
  <2>5. p \in Nat /\ serial < p
    BY <1>5
  <2> QED BY <1>1, <2>1, <2>3, <2>4, <2>5 DEF Alike
<1> QED BY <1>1, <1>5, <1>6, <1>7 DEF TableStep, e

\* Each statement continues T: a DELETE, or one that reads.
LEMMA StepOther ==
  ASSUME NEW T, Base(T, rows, serial, objs, spoilt), NEW s, s.kind \in Kinds \ {"insert", "update", "upsert"}
  PROVE  TableStep(T, Execute(s), s)
<1> DEFINE e == Execute(s)
<1>1. /\ TableOK(rows, serial) /\ serial \in Nat /\ UniqueKeys(rows)
      /\ \A p \in DOMAIN rows : p \in Gen => p <= serial /\ Kin(T, p, rows[p])
  BY TableIsOK DEF Base
<1>2. e.serial = serial /\ DOMAIN e.rows \subseteq DOMAIN rows /\ \A p \in DOMAIN e.rows : e.rows[p] = rows[p]
  BY ExecuteKinds DEF Kinds, Unchanged
<1> HIDE DEF e
<1>3. UniqueKeys(e.rows)
  BY <1>1, <1>2 DEF UniqueKeys
<1>4. TableOK(e.rows, e.serial)
  BY <1>1, <1>2 DEF TableOK
<1> QED BY <1>1, <1>2, <1>3, <1>4 DEF TableStep, e

\* Each statement that the database executes continues T.
LEMMA StepOK ==
  ASSUME NEW T, Base(T, rows, serial, objs, spoilt), NEW s, StmtOK(s, Len(objs)),
         StmtLin(T, serial, s, objs), Execute(s).ok
  PROVE  TableStep(T, Execute(s), s) /\ RowsOK(Execute(s).rows, Len(objs))
<1>1. s.kind \in Kinds
  BY DEF StmtOK
<1>2. TableStep(T, Execute(s), s)
  BY <1>1, StepInsert, StepUpdate, StepUpsert, StepOther DEF Kinds
<1>3. RowsOK(Execute(s).rows, Len(objs))
  <2>1. Len(objs) \in Nat
    BY DEF Base, ObjsOK
  <2> QED BY <2>1, TableIsOK, ExecuteRows DEF Base
<1> QED BY <1>2, <1>3

-----------------------------------------------------------------------------
(* What an answer does to the instances there are. *)

Executed(T, U, e, s) ==
  /\ e = Execute(s) /\ e.ok
  /\ Extends(T, U, serial) /\ RowsLin(U, e.serial, e.rows)
  /\ TableStep(T, e, s) /\ RowsOK(e.rows, Len(objs))

\* A call may ask, and t is the one that is answered.
Asked(T, t) ==
  /\ decl \in Declarations /\ Base(T, rows, serial, objs, spoilt)
  /\ t \in Tasks /\ JobOK(job[t], Len(objs)) /\ JobInv(T, serial, objs, spoilt, lost, job[t])
  /\ ~lost => Read(rows, objs, job, {})

AwaitedElse(t, o) == \E u \in Tasks \ {t} : job[u].stmt.kind = "defaults" /\ job[u].stmt.os[1] = o

Known2(t, rd, o, ob) == ob.in_db /\ ob.state = None => ob.marks \/ o \in rd \/ AwaitedElse(t, o)

Moved(U, e, t, os, rd) ==
  /\ ObjsOK(os) /\ Len(objs) <= Len(os)
  /\ \A x \in DOMAIN objs : /\ Evolves(objs[x], os[x])
                            /\ x \notin UsedBy(job[t].stmt) => Same(objs[x], os[x])
  /\ \A x \in DOMAIN os : Holds(U, e.serial, os[x])
  /\ Inserted(e.rows, os, spoilt)
  /\ ~lost => \A x \in DOMAIN os : Known2(t, rd, x, os[x])

\* A statement leaves who inserted a row, and its key and time of creation.
LEMMA RowsStay ==
  ASSUME NEW T, NEW U, NEW e, NEW s, Executed(T, U, e, s), Base(T, rows, serial, objs, spoilt),
         NEW p \in DOMAIN rows \cap DOMAIN e.rows
  PROVE  /\ e.rows[p].by = rows[p].by
         /\ p # OwnId => e.rows[p].key = rows[p].key /\ (decl.stamp = "add" => e.rows[p].stamp = rows[p].stamp)
<1>1. p # OwnId => p \in Gen /\ p <= serial /\ Kin(T, p, rows[p])
  BY DEF Base, RowsLin, RowsOK, Gen
<1>2. e.rows[p].by = rows[p].by /\ (p \in Gen /\ p <= serial => Kin(T, p, e.rows[p]))
  BY DEF Executed, TableStep
<1> QED BY <1>1, <1>2 DEF Kin

\* An instance that shows no more than a new cache.
LEMMA HeldSame ==
  ASSUME NEW T, NEW U, NEW e, NEW s, Executed(T, U, e, s), Base(T, rows, serial, objs, spoilt),
         NEW a, NEW b, b.id = a.id, b.key = a.key, b.stamp = a.stamp, Holds(T, serial, a)
  PROVE  Holds(U, e.serial, b)
<1>1. serial \in Nat /\ e.serial \in Nat /\ serial <= e.serial /\ \A p \in Nat : p <= serial => U[p] = T[p]
  BY DEF Executed, Base, TableStep, TableOK, Extends
<1> SUFFICES ASSUME b.id \in Gen PROVE b.id <= e.serial /\ Kin(U, b.id, b)
  BY DEF Holds
<1>2. a.id \in Nat /\ a.id <= serial /\ Kin(T, a.id, a)
  BY DEF Gen, Holds
<1>3. U[a.id] = T[a.id] /\ a.id <= e.serial
  BY <1>1, <1>2
<1> QED BY <1>2, <1>3 DEF Kin

\* An instance that did not change still leads to its row.
LEMMA RowOfSame ==
  ASSUME NEW T, NEW U, NEW e, NEW s, Executed(T, U, e, s), Base(T, rows, serial, objs, spoilt),
         NEW a, NEW b, b.id = a.id, b.key = a.key, b.in_db = a.in_db,
         NEW p \in DOMAIN rows \cap DOMAIN e.rows, RowOf(a, p, rows[p])
  PROVE  RowOf(b, p, e.rows[p])
<1>1. p # OwnId => e.rows[p].key = rows[p].key
  BY RowsStay
<1> QED BY <1>1 DEF RowOf

\* A default is unread where it was unread.
LEMMA ReadElse ==
  ASSUME NEW T, NEW t, Asked(T, t), ~lost, NEW x \in DOMAIN objs,
         job[t].stmt.kind = "defaults" => job[t].stmt.os[1] # x
  PROVE  \A rd : Known2(t, rd, x, objs[x])
<1>1. objs[x].in_db /\ objs[x].state = None => objs[x].marks \/ Awaited(job, x)
  BY DEF Asked, Read
<1>2. Awaited(job, x) => AwaitedElse(t, x)
  BY DEF Awaited, AwaitedElse
<1> QED BY <1>1, <1>2 DEF Known2

\* No row is new and no instance changes but in its cache.
LEMMA MovedSame ==
  ASSUME NEW T, NEW U, NEW t, Asked(T, t), NEW e, Executed(T, U, e, job[t].stmt),
         NEW os, ObjsOK(os), Len(os) = Len(objs), \A x \in DOMAIN objs : Same(objs[x], os[x]),
         job[t].stmt.kind \notin {"insert", "upsert", "defaults"}
  PROVE  Moved(U, e, t, os, {})
<1>1. DOMAIN os = DOMAIN objs
  BY DEF ObjsOK, Asked, Base
<1>2. \A x \in DOMAIN objs : Evolves(objs[x], os[x])
  BY SameEvolves
<1>3. \A x \in DOMAIN os : Holds(U, e.serial, os[x])
  <2> SUFFICES ASSUME NEW x \in DOMAIN os PROVE Holds(U, e.serial, os[x])
    OBVIOUS
  <2>1. Same(objs[x], os[x]) /\ Holds(T, serial, objs[x]) /\ Base(T, rows, serial, objs, spoilt)
    BY <1>1 DEF Asked, Base
  <2>2. os[x].id = objs[x].id /\ os[x].key = objs[x].key /\ os[x].stamp = objs[x].stamp
    BY <2>1 DEF Same
  <2> QED BY <2>1, <2>2, HeldSame
<1>4. Inserted(e.rows, os, spoilt)
  <2>1. UniqueKeys(e.rows)
    BY DEF Executed, TableStep
  <2>2. ASSUME NEW o \in DOMAIN os \ spoilt, NEW p \in DOMAIN e.rows \ {OwnId}, e.rows[p].by = o
        PROVE  RowOf(os[o], p, e.rows[p])
    <3>1. p \in DOMAIN rows
      BY DEF Executed, TableStep
    <3>2. rows[p].by = o
      BY <2>2, <3>1 DEF Executed, TableStep
    <3>3. RowOf(objs[o], p, rows[p]) /\ Base(T, rows, serial, objs, spoilt)
      BY <1>1, <3>1, <3>2 DEF Asked, Base, Inserted
    <3>4. os[o].id = objs[o].id /\ os[o].key = objs[o].key /\ os[o].in_db = objs[o].in_db
      BY <1>1 DEF Same
    <3> QED BY <3>1, <3>3, <3>4, RowOfSame
  <2> QED BY <2>1, <2>2 DEF Inserted
<1>5. ~lost => \A x \in DOMAIN os : Known2(t, {}, x, os[x])
  <2> SUFFICES ASSUME ~lost, NEW x \in DOMAIN os PROVE Known2(t, {}, x, os[x])
    OBVIOUS
  <2>1. Known2(t, {}, x, objs[x]) /\ Same(objs[x], os[x])
    BY <1>1, ReadElse
  <2> QED BY <2>1 DEF Known2, Same
<1>6. Len(objs) <= Len(os)
  BY DEF Asked, Base, ObjsOK
<1> QED BY <1>2, <1>3, <1>4, <1>5, <1>6 DEF Moved

\* INSERT with conflict handling: an instance may have inserted a row it does not know.
LEMMA MovedUpsert ==
  ASSUME NEW T, NEW U, NEW t, Asked(T, t), NEW e, Executed(T, U, e, job[t].stmt), job[t].stmt.kind = "upsert"
  PROVE  Moved(U, e, t, objs, {})
<1> DEFINE s == job[t].stmt
<1>1. /\ Base(T, rows, serial, objs, spoilt) /\ StmtOK(s, Len(objs)) /\ Agrees(s, objs, spoilt)
      /\ ObjsOK(objs) /\ objs \in Seq(Instance) /\ DOMAIN objs = 1 .. Len(objs) /\ Len(objs) \in Nat
  BY DEF Asked, Base, JobOK, JobInv, ObjsOK
<1>2. /\ s.values \in Seq(Value) /\ Len(s.values) = 2 /\ DOMAIN s.values = DOMAIN s.os /\ DOMAIN s.os = {1, 2}
      /\ \A i \in DOMAIN s.os : s.values[i].by = s.os[i]
      /\ s.cols \in SUBSET {"author"} /\ Once(s.os) /\ decl.unique
  BY <1>1 DEF StmtOK, InsertOK, BatchOK
<1>3. e = ExecuteUpsert(s.values, s.cols)
  BY ExecuteKinds DEF Executed, Kinds
<1>4. s.values[1].by # s.values[2].by
  BY <1>2 DEF Once
<1>5. \A p \in DOMAIN e.rows \ DOMAIN rows : p \in Nat /\ \E i \in DOMAIN s.values : Alike(e.rows[p], Stored(s.values[i]))
  BY <1>1, <1>2, <1>3, <1>4, UpsertsBoth, TableIsOK
<1>6. \A x : Same(objs[x], objs[x]) /\ Evolves(objs[x], objs[x])
  BY DEF Same, Evolves
<1>7. \A x \in DOMAIN objs : Holds(U, e.serial, objs[x])
  BY <1>1, HeldSame DEF Base
<1>8. ASSUME NEW o \in DOMAIN objs \ spoilt, NEW p \in DOMAIN e.rows \ {OwnId}, e.rows[p].by = o
      PROVE  RowOf(objs[o], p, e.rows[p])
  <2>1. CASE p \in DOMAIN rows
    <3>1. rows[p].by = o
      BY <1>8, <2>1 DEF Executed, TableStep
    <3>2. RowOf(objs[o], p, rows[p])
      BY <1>1, <2>1, <3>1 DEF Base, Inserted
    <3> QED BY <1>1, <2>1, <3>2, RowOfSame
  <2>2. CASE p \notin DOMAIN rows
    <3>1. PICK i \in DOMAIN s.values : Alike(e.rows[p], Stored(s.values[i]))
      BY <1>5, <2>2
    <3>2. s.values[i] \in Value /\ s.values[i].by = s.os[i] /\ i \in DOMAIN s.os
      BY <1>2
    <3>3. o = s.os[i] /\ e.rows[p].key = s.values[i].key
      BY <1>8, <3>1, <3>2, StoredRow DEF Alike
    <3>4. Fits(s, i, objs[o])
      BY <1>1, <3>2, <3>3 DEF Agrees, Writing
    <3> QED BY <1>2, <3>3, <3>4 DEF Fits, RowOf
  <2> QED BY <2>1, <2>2
<1>9. Inserted(e.rows, objs, spoilt)
  BY <1>8 DEF Inserted, Executed, TableStep
<1>10. ~lost => \A x \in DOMAIN objs : Known2(t, {}, x, objs[x])
  BY ReadElse
<1> QED BY <1>1, <1>6, <1>7, <1>9, <1>10 DEF Moved

\* The instances of an INSERT get their rows.
LEMMA MovedInsert ==
  ASSUME NEW T, NEW U, NEW t, Asked(T, t), NEW e, Executed(T, U, e, job[t].stmt), job[t].stmt.kind = "insert",
         NEW os, os \in Seq(Instance), Len(os) = Len(objs), NEW rd,
         \A x \in DOMAIN objs \ ToSet(job[t].stmt.os) : os[x] = objs[x],
         \A i \in DOMAIN job[t].stmt.os :
           Saved(objs[job[t].stmt.os[i]], os[job[t].stmt.os[i]], e.ids[i], e.rows[e.ids[i]], job[t].stmt.os[i] \in rd)
  PROVE  Moved(U, e, t, os, rd)
<1> DEFINE s == job[t].stmt
<1>1. /\ Base(T, rows, serial, objs, spoilt) /\ StmtOK(s, Len(objs)) /\ Agrees(s, objs, spoilt)
      /\ StmtLin(T, serial, s, objs) /\ serial \in Nat
      /\ ObjsOK(objs) /\ objs \in Seq(Instance) /\ DOMAIN objs = 1 .. Len(objs) /\ Len(objs) \in Nat
      /\ DOMAIN os = DOMAIN objs
  BY DEF Asked, Base, JobOK, JobInv, ObjsOK
<1>2. /\ s.values \in Seq(Value) /\ Len(s.values) = Len(s.os) /\ DOMAIN s.values = DOMAIN s.os
      /\ \A i \in DOMAIN s.os : s.values[i].by = s.os[i] /\ s.os[i] \in DOMAIN objs /\ s.os[i] \in ToSet(s.os)
      /\ UsedBy(s) = ToSet(s.os)
  BY <1>1 DEF StmtOK, InsertOK, BatchOK, ToSet, UsedBy
<1>3. e = ExecuteInsert(s.values) /\ ExecuteInsert(s.values).ok
  BY ExecuteKinds DEF Executed, Kinds
<1>4. /\ e.serial \in Nat /\ serial <= e.serial
      /\ e.ids \in Seq(Nat \cup {OwnId}) /\ Len(e.ids) = Len(s.values)
      /\ \A i \in DOMAIN s.values :
           /\ e.ids[i] \in DOMAIN e.rows \ DOMAIN rows
           /\ e.rows[e.ids[i]] = Stored(s.values[i])
           /\ IF s.values[i].id # None THEN e.ids[i] = s.values[i].id
              ELSE e.ids[i] \in Nat /\ serial < e.ids[i] /\ e.ids[i] <= e.serial
      /\ \A p \in DOMAIN rows : p \in DOMAIN e.rows /\ e.rows[p] = rows[p]
      /\ \A p \in DOMAIN e.rows \ DOMAIN rows : \E i \in DOMAIN s.values : e.ids[i] = p
      /\ UniqueKeys(e.rows)
  <2>1. serial \in Nat /\ s.values \in Seq(Value)
    BY <1>1, <1>2
  <2> HIDE DEF s
  <2> QED BY <2>1, <1>3, Inserts
<1>5. OwnId \in Nat /\ OwnId \notin Gen /\ Gen \subseteq Nat /\ None \notin Nat
  BY PersistenceAssumption DEF Gen
<1>6. ASSUME NEW i \in DOMAIN s.os
      PROVE  LET a == objs[s.os[i]]
                 b == os[s.os[i]]
             IN /\ Evolves(a, b) /\ Holds(U, e.serial, b) /\ b.stamp # None /\ b.id # None
                /\ b.in_db /\ b.id = e.ids[i]
                /\ b.state = None => b.marks \/ s.os[i] \in rd
  <2> DEFINE a == objs[s.os[i]]
             b == os[s.os[i]]
             v == s.values[i]
             p == e.ids[i]
  <2>1. Saved(a, b, p, e.rows[p], s.os[i] \in rd)
    OBVIOUS
  <2>2. InsertLin(T, serial, v, a)
    BY DEF StmtLin, Asked, JobInv
  <2>3. v \in Value /\ p \in DOMAIN e.rows /\ e.rows[p] = Stored(v)
        /\ (v.id # None => p = v.id) /\ (v.id = None => p \in Nat)
    <3>1. i \in DOMAIN s.values /\ v \in Value
      BY <1>2
    <3> HIDE DEF s
    <3> QED BY <1>4, <3>1
  <2>4. p \in Nat \cup {OwnId}
    <3>1. i \in DOMAIN s.values /\ DOMAIN s.values = 1 .. Len(s.values)
      BY <1>2
    <3>2. DOMAIN e.ids = 1 .. Len(e.ids) /\ Len(e.ids) = Len(s.values)
      BY <1>4
    <3>3. i \in DOMAIN e.ids
      BY <3>1, <3>2
    <3> QED BY <1>4, <3>3
  <2> HIDE DEF a, b, v, p
  <2>5. e.rows[p].key = v.key /\ e.rows[p].stamp = v.stamp /\ e.rows[p].state # None
    BY <2>3, StoredRow
  <2>6. p \in Gen => p <= e.serial /\ Kin(U, p, e.rows[p])
    BY <1>5, <2>3 DEF Executed, RowsLin
  <2>7. Evolves(a, b)
    BY <1>5, <2>1, <2>2, <2>3 DEF Saved, InsertLin, Evolves
  <2>8. Holds(U, e.serial, b)
    <3> SUFFICES ASSUME p \in Gen PROVE p <= e.serial /\ Kin(U, p, b)
      BY <2>1 DEF Holds, Saved
    <3>2. b.key = a.key /\ b.stamp = a.stamp
      BY <2>1 DEF Saved
    <3>3. v.key = a.key /\ (decl.stamp = "add" => v.stamp = a.stamp)
      BY <2>2 DEF InsertLin
    <3> QED BY <2>5, <2>6, <3>2, <3>3 DEF Kin
  <2>9. b.stamp # None /\ b.id # None /\ b.in_db /\ b.id = p
    BY <1>5, <2>1, <2>2, <2>4 DEF Saved, InsertLin
  <2>10. b.state = None => b.marks \/ s.os[i] \in rd
    BY <2>1, <2>5 DEF Saved
  <2> QED BY <2>7, <2>8, <2>9, <2>10 DEF a, b, p
<1>7. ASSUME NEW x \in DOMAIN objs, x \in ToSet(s.os)
      PROVE  \E i \in DOMAIN s.os : s.os[i] = x
  BY <1>7 DEF ToSet
<1>8. \A x \in DOMAIN objs : /\ Evolves(objs[x], os[x])
                             /\ x \notin UsedBy(s) => Same(objs[x], os[x])
  <2>1. \A a : Evolves(a, a) /\ Same(a, a)
    BY DEF Evolves, Same
  <2> QED BY <1>2, <1>6, <1>7, <2>1
<1>9. \A x \in DOMAIN os : Holds(U, e.serial, os[x])
  <2> SUFFICES ASSUME NEW x \in DOMAIN os, x \notin ToSet(s.os) PROVE Holds(U, e.serial, os[x])
    BY <1>1, <1>6, <1>7
  <2>1. os[x] = objs[x] /\ Holds(T, serial, objs[x])
    BY <1>1 DEF Base
  <2> QED BY <1>1, <2>1, HeldSame
<1>10. ObjsOK(os)
  <2> SUFFICES ASSUME NEW x \in DOMAIN os, os[x].in_db PROVE os[x].stamp # None /\ os[x].id # None
    BY DEF ObjsOK
  <2>1. CASE x \in ToSet(s.os)
    BY <1>1, <1>6, <1>7, <2>1
  <2>2. CASE x \notin ToSet(s.os)
    BY <1>1, <2>2 DEF ObjsOK
  <2> QED BY <2>1, <2>2
<1>11. ASSUME NEW o \in DOMAIN os \ spoilt, NEW p \in DOMAIN e.rows \ {OwnId}, e.rows[p].by = o
       PROVE  RowOf(os[o], p, e.rows[p])
  <2>1. CASE p \notin DOMAIN rows
    <3>1. PICK i \in DOMAIN s.os : e.ids[i] = p
      BY <1>2, <1>4, <2>1
    <3>2. e.rows[p] = Stored(s.values[i]) /\ s.values[i] \in Value /\ s.values[i].by = s.os[i]
      <4>1. i \in DOMAIN s.values /\ s.values[i] \in Value /\ s.values[i].by = s.os[i]
        BY <1>2
      <4> HIDE DEF s
      <4> QED BY <1>4, <3>1, <4>1
    <3>3. o = s.os[i]
      BY <1>11, <3>2, StoredRow
    <3> QED BY <1>6, <3>1, <3>3 DEF RowOf
  <2>2. CASE p \in DOMAIN rows
    <3>1. e.rows[p] = rows[p] /\ RowOf(objs[o], p, rows[p])
      BY <1>1, <1>4, <1>11, <2>2 DEF Base, Inserted
    <3>2. CASE o \notin ToSet(s.os)
      BY <1>1, <3>1, <3>2
    <3>3. CASE o \in ToSet(s.os)
      <4>1. PICK i \in DOMAIN s.os : s.os[i] = o
        BY <1>1, <1>7, <3>3
      <4>2. ~objs[o].in_db /\ Gives(s.values[i], objs[o])
        BY <1>1, <4>1 DEF Agrees, Fits, Writing
      <4>3. decl.unique /\ rows[p].key = objs[o].key
        BY <3>1, <4>2 DEF RowOf
      <4>4. e.ids[i] \in DOMAIN e.rows /\ e.ids[i] # p /\ e.rows[e.ids[i]] = Stored(s.values[i]) /\ s.values[i] \in Value
        BY <1>2, <1>4, <2>2, <4>1
      <4>5. e.rows[e.ids[i]].key = objs[o].key
        BY <4>2, <4>4, StoredRow DEF Gives
      <4> QED BY <1>4, <2>2, <3>1, <4>3, <4>4, <4>5 DEF UniqueKeys
    <3> QED BY <3>2, <3>3
  <2> QED BY <2>1, <2>2
<1>12. Inserted(e.rows, os, spoilt)
  BY <1>4, <1>11 DEF Inserted
<1>13. ASSUME ~lost, NEW x \in DOMAIN os PROVE Known2(t, rd, x, os[x])
  <2>1. CASE x \in ToSet(s.os)
    BY <1>1, <1>6, <1>7, <2>1 DEF Known2
  <2>2. CASE x \notin ToSet(s.os)
    <3>1. Known2(t, rd, x, objs[x]) /\ os[x] = objs[x]
      BY <1>1, <1>13, <2>2, ReadElse
    <3> QED BY <3>1
  <2> QED BY <2>1, <2>2
<1>14. Len(objs) <= Len(os)
  BY <1>1
<1> QED BY <1>8, <1>9, <1>10, <1>12, <1>13, <1>14 DEF Moved

\* DELETE, and the SELECTs of one row.
LEMMA MovedTargeted ==
  ASSUME NEW T, NEW U, NEW t, Asked(T, t), NEW e, Executed(T, U, e, job[t].stmt),
         job[t].stmt.kind \in {"delete", "defaults", "reload"}, NEW r, Kept(r, job[t]),
         \A x \in DOMAIN objs \ {job[t].stmt.os[1]} : r.objs[x] = objs[x],
         Targets(job[t].stmt, e, objs[job[t].stmt.os[1]], r.objs[job[t].stmt.os[1]])
  PROVE  Moved(U, e, t, r.objs, {})
<1> DEFINE s == job[t].stmt
           o == s.os[1]
           a == objs[o]
           os == r.objs
           b == os[o]
<1>1. /\ Base(T, rows, serial, objs, spoilt) /\ StmtOK(s, Len(objs)) /\ Agrees(s, objs, spoilt)
      /\ StmtLin(T, serial, s, objs) /\ serial \in Nat /\ JobOK(job[t], Len(objs))
      /\ ObjsOK(objs) /\ objs \in Seq(Instance) /\ DOMAIN objs = 1 .. Len(objs) /\ Len(objs) \in Nat
  BY DEF Asked, Base, JobOK, JobInv, ObjsOK
<1>2. /\ DOMAIN s.os = {1} /\ o \in DOMAIN objs /\ UsedBy(s) = {o} /\ s.id \in Ids
  <2>1. s.os \in Seq(1 .. Len(objs)) /\ Len(s.os) = 1 /\ s.id \in Ids
    BY <1>1 DEF StmtOK, Targeted
  <2>2. DOMAIN s.os = {1} /\ o \in DOMAIN objs
    BY <1>1, <2>1
  <2>3. ToSet(s.os) = {o}
    BY <2>2 DEF ToSet
  <2> QED BY <2>1, <2>2, <2>3 DEF UsedBy
<1>3. e.ok /\ \A p \in DOMAIN e.rows : e.rows[p] \in Row
  BY DEF Executed, RowsOK
<1>4. /\ Kept(r, job[t])
      /\ \A x \in DOMAIN objs \ {o} : os[x] = objs[x]
      /\ b.id = a.id /\ b.cache = a.cache
      /\ s.kind = "delete" => /\ ~b.in_db /\ b.key = a.key /\ b.author = a.author /\ b.state = a.state
                              /\ b.stamp = a.stamp /\ b.marks = a.marks
      /\ s.kind = "defaults" => /\ s.id \in DOMAIN e.rows
                                /\ b.in_db = a.in_db /\ b.key = a.key /\ b.author = a.author /\ b.stamp = a.stamp
                                /\ b.state = e.rows[s.id].state
      /\ s.kind = "reload" => /\ s.id \in DOMAIN e.rows /\ b.in_db = a.in_db
                              /\ b.key = e.rows[s.id].key /\ b.author = e.rows[s.id].author
                              /\ b.state = e.rows[s.id].state /\ b.stamp = e.rows[s.id].stamp
  BY DEF Targets
<1>5. os \in Seq(Instance) /\ Len(os) = Len(objs) /\ DOMAIN os = DOMAIN objs
  <2>1. Kept(r, job[t])
    BY <1>4
  <2> QED BY <1>1, <2>1 DEF Kept
<1>6. e.serial = serial /\ e.serial \in Nat
      /\ (s.kind # "delete" => e.rows = rows) /\ (s.kind = "delete" => s.id \notin DOMAIN e.rows)
      /\ DOMAIN e.rows \subseteq DOMAIN rows
  BY <1>1, ExecuteKinds DEF Executed, Kinds, Unchanged
<1>7. None \notin Stamps /\ Gen = Nat \ {OwnId} /\ None \notin Nat
  BY PersistenceAssumption DEF Stamps, Gen
<1> HIDE DEF s, o, a, os, b
<1>8. s.kind = "reload" => e.rows[s.id].stamp # None
  BY <1>3, <1>4, <1>7 DEF Row
<1>9. s.kind = "reload" => b.key = a.key /\ (decl.stamp = "add" => b.stamp = a.stamp)
  <2> SUFFICES ASSUME s.kind = "reload"
               PROVE  b.key = a.key /\ (decl.stamp = "add" => b.stamp = a.stamp)
    OBVIOUS
  <2>1. ReloadLin(T, serial, s.id, a)
    BY <1>1, <1>2 DEF StmtLin, s, a, o
  <2>2. s.id \in DOMAIN e.rows /\ s.id \in Nat
    <3>1. \A p \in DOMAIN e.rows : p \in Nat
      BY DEF Executed, TableStep, TableOK
    <3> QED BY <1>4, <3>1
  <2>3. s.id \in Gen /\ s.id <= serial /\ Kin(T, s.id, a)
    BY <1>7, <2>1, <2>2 DEF ReloadLin
  <2>4. Kin(T, s.id, e.rows[s.id])
    BY <2>2, <2>3 DEF Executed, TableStep, s
  <2> QED BY <1>4, <2>3, <2>4 DEF Kin
<1>10. Evolves(a, b)
  BY <1>4, <1>8, <1>9, <1>7 DEF Evolves, s
<1>11. Holds(T, serial, a)
  BY <1>2 DEF Asked, Base, a
<1>12. Holds(U, e.serial, b)
  <2>1. Holds(U, e.serial, a)
    BY <1>1, <1>11, HeldSame
  <2>2. b.key = a.key /\ (decl.stamp = "add" => b.stamp = a.stamp)
    BY <1>4, <1>9 DEF s
  <2> QED BY <1>4, <2>1, <2>2 DEF Holds, Kin
<1>13. \A x \in DOMAIN os : x # o => os[x] = objs[x]
  BY <1>4, <1>5
<1>14. \A x \in DOMAIN objs : Evolves(objs[x], os[x]) /\ (x \notin UsedBy(s) => Same(objs[x], os[x]))
  <2>1. \A c : Evolves(c, c) /\ Same(c, c)
    BY DEF Evolves, Same
  <2> QED BY <1>2, <1>5, <1>10, <1>13, <2>1 DEF a, b
<1>15. \A x \in DOMAIN os : Holds(U, e.serial, os[x])
  <2> SUFFICES ASSUME NEW x \in DOMAIN os, x # o PROVE Holds(U, e.serial, os[x])
    BY <1>12 DEF b
  <2>1. os[x] = objs[x] /\ Holds(T, serial, objs[x])
    BY <1>1, <1>5, <1>13 DEF Base
  <2> QED BY <1>1, <2>1, HeldSame
<1>16. ObjsOK(os)
  <2> SUFFICES ASSUME NEW x \in DOMAIN os, os[x].in_db PROVE os[x].stamp # None /\ os[x].id # None
    BY <1>5 DEF ObjsOK
  <2>1. CASE x # o
    BY <1>1, <1>5, <1>13, <2>1 DEF ObjsOK
  <2>2. CASE x = o
    <3>1. b.in_db /\ s.kind \in {"delete", "defaults", "reload"}
      BY <2>2 DEF b, s
    <3>2. a.in_db /\ s.kind # "delete"
      BY <1>4, <3>1
    <3>3. a.stamp # None /\ a.id # None
      BY <1>1, <1>2, <3>2 DEF ObjsOK, a
    <3> QED BY <1>4, <1>8, <2>2, <3>1, <3>2, <3>3 DEF b
  <2> QED BY <2>1, <2>2
<1>17. ASSUME NEW x \in DOMAIN os \ spoilt, NEW p \in DOMAIN e.rows \ {OwnId}, e.rows[p].by = x
       PROVE  RowOf(os[x], p, e.rows[p])
  <2>1. p \in DOMAIN rows /\ rows[p].by = x
    BY <1>6, <1>17 DEF Executed, TableStep
  <2>2. RowOf(objs[x], p, rows[p])
    BY <1>1, <1>5, <2>1 DEF Base, Inserted
  <2>3. CASE x # o
    <3>1. os[x] = objs[x]
      BY <1>5, <1>13, <2>3
    <3> QED BY <1>1, <2>1, <2>2, <3>1, RowOfSame
  <2>4. CASE x = o
    <3>1. Fits(s, 1, a)
      BY <1>1, <1>2, <2>4 DEF Agrees, Writing, a, o, s
    <3>2. s.id = a.id /\ s.kind \in {"delete", "defaults", "reload"}
      BY <3>1 DEF Fits, s
    <3>3. RowOf(a, p, rows[p]) /\ p # OwnId /\ e.rows[p].key = rows[p].key
      BY <1>1, <1>17, <2>1, <2>2, <2>4, RowsStay DEF a
    <3>4. b.key = a.key /\ b.id = a.id
      BY <1>4, <1>9, <3>2
    <3>5. CASE a.in_db /\ a.id = p
      <4>1. s.kind # "delete"
        BY <1>6, <3>2, <3>5
      <4> QED BY <1>4, <2>4, <3>2, <3>4, <3>5, <4>1 DEF RowOf, b
    <3>6. CASE ~a.in_db /\ a.id = None
      <4>1. ~b.in_db
        BY <1>4, <3>2, <3>6
      <4> QED BY <2>4, <3>3, <3>4, <3>6, <4>1 DEF RowOf, b
    <3> QED BY <3>3, <3>5, <3>6 DEF RowOf
  <2> QED BY <2>3, <2>4
<1>18. Inserted(e.rows, os, spoilt)
  BY <1>17 DEF Inserted, Executed, TableStep
<1>19. ASSUME ~lost, NEW x \in DOMAIN os PROVE Known2(t, {}, x, os[x])
  <2>1. CASE x # o
    <3>1. Known2(t, {}, x, objs[x]) /\ os[x] = objs[x]
      BY <1>5, <1>13, <1>19, <2>1, ReadElse DEF o, s
    <3> QED BY <3>1
  <2>2. CASE x = o
    <3>1. s.kind \in {"defaults", "reload"} => b.state # None
      <4>1. \A p \in DOMAIN rows : rows[p].state # None
        BY <1>19 DEF Asked, Read
      <4> QED BY <1>4, <1>6, <4>1
    <3>2. s.kind = "delete" => ~b.in_db
      BY <1>4
    <3> QED BY <2>2, <3>1, <3>2 DEF Known2, b, s
  <2> QED BY <2>1, <2>2
<1>20. Len(objs) <= Len(os)
  BY <1>1, <1>5
<1> QED BY <1>4, <1>14, <1>15, <1>16, <1>18, <1>19, <1>20 DEF Moved, os, s

\* An instance that came with the answer of a SELECT.
Fresh(b, e) ==
  \/ ~b.in_db /\ b.id \in {None, OwnId}
  \/ \E p \in DOMAIN e.rows : FromRow(b, p, e.rows[p])

\* A SELECT that makes instances leaves those there are alone.
LEMMA MovedFound ==
  ASSUME NEW T, NEW U, NEW t, Asked(T, t), NEW e, Executed(T, U, e, job[t].stmt), job[t].stmt.kind = "find",
         NEW os \in Seq(Instance), Len(objs) <= Len(os), \A x \in DOMAIN objs : os[x] = objs[x],
         \A x \in DOMAIN os \ DOMAIN objs : Fresh(os[x], e)
  PROVE  Moved(U, e, t, os, {})
<1>1. /\ Base(T, rows, serial, objs, spoilt) /\ ObjsOK(objs) /\ objs \in Seq(Instance)
      /\ DOMAIN objs = 1 .. Len(objs) /\ DOMAIN os = 1 .. Len(os) /\ Len(objs) \in Nat /\ Len(os) \in Nat
  BY DEF Asked, Base, ObjsOK
<1>2. \A x \in DOMAIN os : os[x] \in Instance
  OBVIOUS
<1>3. \A p \in DOMAIN e.rows : /\ p \in Nat \cup {OwnId} /\ e.rows[p] \in Row /\ e.rows[p].by \in 1 .. Len(objs)
                               /\ p \in DOMAIN rows /\ e.rows[p].by = rows[p].by
  BY DEF Executed, RowsOK, TableStep
<1>4. None \notin Stamps /\ None \notin Nat \cup {OwnId} /\ OwnId \notin Gen /\ Gen \subseteq Nat
  BY PersistenceAssumption DEF Stamps, Gen
<1>5. ObjsOK(os)
  <2> SUFFICES ASSUME NEW x \in DOMAIN os, os[x].in_db PROVE os[x].stamp # None /\ os[x].id # None
    BY DEF ObjsOK
  <2>1. CASE x \in DOMAIN objs
    BY <1>1, <2>1 DEF ObjsOK
  <2>2. CASE x \notin DOMAIN objs
    <3>1. PICK p \in DOMAIN e.rows : FromRow(os[x], p, e.rows[p])
      BY <2>2 DEF Fresh
    <3>2. e.rows[p].stamp \in Stamps
      BY <1>3 DEF Row
    <3> QED BY <1>3, <1>4, <3>1, <3>2 DEF FromRow
  <2> QED BY <2>1, <2>2
<1>6. \A x \in DOMAIN objs : Same(objs[x], os[x]) /\ Evolves(objs[x], os[x])
  BY DEF Same, Evolves
<1>7. \A x \in DOMAIN os : Holds(U, e.serial, os[x])
  <2> SUFFICES ASSUME NEW x \in DOMAIN os PROVE Holds(U, e.serial, os[x])
    OBVIOUS
  <2>1. CASE x \in DOMAIN objs
    <3>1. Holds(T, serial, objs[x]) /\ os[x] = objs[x]
      BY <2>1 DEF Asked, Base
    <3> QED BY <1>1, <3>1, HeldSame
  <2>2. CASE x \notin DOMAIN objs
    <3>1. CASE ~os[x].in_db /\ os[x].id \in {None, OwnId}
      BY <1>4, <3>1 DEF Holds
    <3>2. CASE \E p \in DOMAIN e.rows : FromRow(os[x], p, e.rows[p])
      BY <1>4, <3>2 DEF Executed, RowsLin, Holds, Kin, FromRow
    <3> QED BY <2>2, <3>1, <3>2 DEF Fresh
  <2> QED BY <2>1, <2>2
<1>8. Inserted(e.rows, os, spoilt)
  <2>1. UniqueKeys(e.rows)
    BY DEF Executed, TableStep
  <2>2. ASSUME NEW o \in DOMAIN os \ spoilt, NEW p \in DOMAIN e.rows \ {OwnId}, e.rows[p].by = o
        PROVE  RowOf(os[o], p, e.rows[p])
    <3>1. p \in DOMAIN rows /\ rows[p].by = o /\ o \in DOMAIN objs
      BY <1>1, <1>3, <2>2
    <3>2. RowOf(objs[o], p, rows[p]) /\ os[o] = objs[o]
      BY <1>1, <3>1 DEF Base, Inserted
    <3> QED BY <1>1, <3>1, <3>2, RowOfSame
  <2> QED BY <2>1, <2>2 DEF Inserted
<1>9. ~lost => \A x \in DOMAIN os : Known2(t, {}, x, os[x])
  <2> SUFFICES ASSUME ~lost, NEW x \in DOMAIN os PROVE Known2(t, {}, x, os[x])
    OBVIOUS
  <2>1. CASE x \in DOMAIN objs
    <3>1. Known2(t, {}, x, objs[x]) /\ os[x] = objs[x]
      BY <2>1, ReadElse
    <3> QED BY <3>1
  <2>2. CASE x \notin DOMAIN objs
    <3>1. \A p \in DOMAIN e.rows : e.rows[p].state # None
      BY DEF Asked, Read, Executed, TableStep, JobInv
    <3> QED BY <2>2, <3>1 DEF Fresh, FromRow, Known2
  <2> QED BY <2>1, <2>2
<1> QED BY <1>5, <1>6, <1>7, <1>8, <1>9 DEF Moved
=============================================================================
