------------------------ MODULE MigrationRunner_proofs ------------------------
(***************************************************************************)
(* Theorems about MigrationRunner: what the runner's statements can leave  *)
(* behind, for any migrations, any number of faults, and every backend.    *)
(*                                                                         *)
(* The program of a migration is a path through a small automaton, whose   *)
(* places say what the connection is like between two statements; the      *)
(* invariant says that the statements left are such a path, and that the   *)
(* connection and the data are as the place it starts from says.           *)
(***************************************************************************)
EXTENDS MigrationRunner, WellFoundedInduction, SequenceTheorems, TLAPS

-----------------------------------------------------------------------------
(* Induction over the natural numbers, for a set of them. *)

LEMMA Least ==
  ASSUME NEW T \in SUBSET Nat, T # {}
  PROVE  \E n \in T : \A m \in T : n <= m
<1>1. PICK x \in T : \A y \in T : ~ (<<y, x>> \in OpToRel(<, Nat))
  BY WFMin, NatLessThanWellFounded
<1>2. ASSUME NEW y \in T PROVE x <= y
  <2>1. ~ (<<y, x>> \in {ss \in Nat \X Nat : ss[1] < ss[2]})
    BY <1>1 DEF OpToRel
  <2> QED BY <2>1
<1> QED BY <1>2

LEMMA Induct ==
  ASSUME NEW T \in SUBSET Nat, 0 \in T, \A n \in T : n + 1 \in T
  PROVE  T = Nat
<1> SUFFICES ASSUME Nat \ T # {} PROVE FALSE
  OBVIOUS
<1>1. PICK n \in Nat \ T : \A m \in Nat \ T : n <= m
  BY Least
<1>2. n # 0 /\ n - 1 \in Nat /\ n - 1 \notin Nat \ T
  BY <1>1
<1> QED BY <1>1, <1>2

-----------------------------------------------------------------------------
(* The recursive functions of the model. *)

\* f[i] is what the first i sequences of s are, joined one by one.
Joins(S, s, f, n) ==
  /\ f \in [0 .. n -> Seq(S)] /\ f[0] = <<>>
  /\ \A i \in 1 .. n : f[i] = f[i - 1] \o s[i]

LEMMA JoinsExist ==
  ASSUME NEW S, NEW s \in Seq(Seq(S))
  PROVE  \E f : Joins(S, s, f, Len(s))
<1> DEFINE T == {n \in Nat : n <= Len(s) => \E f : Joins(S, s, f, n)}
<1>1. 0 \in T
  <2>1. Joins(S, s, [i \in 0 .. 0 |-> <<>>], 0)
    BY DEF Joins
  <2> QED BY <2>1
<1>2. ASSUME NEW n \in T PROVE n + 1 \in T
  <2> SUFFICES ASSUME n + 1 <= Len(s) PROVE \E f : Joins(S, s, f, n + 1)
    BY <1>2
  <2>0. n \in Nat /\ Len(s) \in Nat
    OBVIOUS
  <2>1. PICK f : Joins(S, s, f, n)
    BY <2>0
  <2> DEFINE g == [i \in 0 .. n + 1 |-> IF i <= n THEN f[i] ELSE f[n] \o s[n + 1]]
  <2>2. s[n + 1] \in Seq(S) /\ f[n] \in Seq(S)
    BY <2>0, <2>1 DEF Joins
  <2>3. f[n] \o s[n + 1] \in Seq(S)
    BY <2>2
  <2>4. g \in [0 .. n + 1 -> Seq(S)] /\ g[0] = <<>>
    BY <2>0, <2>1, <2>3 DEF Joins
  <2>5. ASSUME NEW i \in 1 .. n + 1 PROVE g[i] = g[i - 1] \o s[i]
    <3>1. CASE i = n + 1
      <4>1. ~(n + 1 <= n) /\ (n + 1) - 1 = n /\ n + 1 \in 0 .. n + 1 /\ n \in 0 .. n + 1
        BY <2>0
      <4>2. g[n + 1] = f[n] \o s[n + 1]
        BY <4>1
      <4>3. g[n] = f[n]
        BY <4>1, <2>0
      <4> QED BY <3>1, <4>1, <4>2, <4>3
    <3>2. CASE i # n + 1
      <4>1. i \in 1 .. n /\ i - 1 \in 0 .. n
        BY <2>0, <3>2
      <4>2. g[i] = f[i] /\ g[i - 1] = f[i - 1]
        BY <2>0, <4>1
      <4> QED BY <2>1, <4>1, <4>2 DEF Joins
    <3> QED BY <3>1, <3>2
  <2>6. Joins(S, s, g, n + 1)
    BY <2>4, <2>5 DEF Joins
  <2> QED BY <2>6
<1>3. T \in SUBSET Nat
  OBVIOUS
<1>4. T = Nat
  <2> HIDE DEF T
  <2> QED BY <1>1, <1>2, <1>3, Induct
<1>5. Len(s) \in T
  <2>1. Len(s) \in Nat
    OBVIOUS
  <2> HIDE DEF T
  <2> QED BY <1>4, <2>1
<1> QED BY <1>5

\* FlattenSeq joins its sequences one by one.
LEMMA Flattened ==
  ASSUME NEW S, NEW s \in Seq(Seq(S))
  PROVE  \E f : Joins(S, s, f, Len(s)) /\ f[Len(s)] = FlattenSeq(s)
<1>1. PICK f : Joins(S, s, f, Len(s))
  BY JoinsExist
<1>2. CASE s = <<>>
  <2>1. Len(s) = 0 /\ FlattenSeq(s) = <<>>
    BY <1>2 DEF FlattenSeq
  <2> QED BY <1>1, <2>1 DEF Joins
<1>3. CASE s # <<>>
  <2> DEFINE L == Len(s)
             Def(g) == g = [i \in 1 .. L |-> IF i = 1 THEN s[i] ELSE g[i - 1] \o s[i]]
             F == CHOOSE g : Def(g)
             h == [i \in 1 .. L |-> f[i]]
  <2>1. L \in Nat \ {0} /\ s[1] \in Seq(S)
    BY <1>3
  <2>2. f[1] = s[1]
    <3>1. 1 \in 1 .. L /\ 1 - 1 = 0
      BY <2>1
    <3>2. f[0] = <<>> /\ f[1] = f[1 - 1] \o s[1]
      BY <1>1, <3>1 DEF Joins
    <3>3. f[1] = <<>> \o s[1]
      BY <3>1, <3>2
    <3> QED BY <2>1, <3>3
  <2>3. ASSUME NEW i \in 1 .. L
        PROVE  h[i] = IF i = 1 THEN s[i] ELSE h[i - 1] \o s[i]
    <3>1. CASE i = 1
      BY <2>2, <3>1
    <3>2. CASE i # 1
      <4>1. i - 1 \in 1 .. L
        BY <2>1, <3>2
      <4>2. h[i] = f[i] /\ h[i - 1] = f[i - 1]
        BY <4>1
      <4> QED BY <1>1, <3>2, <4>2 DEF Joins
    <3> QED BY <3>1, <3>2
  <2>4. Def(h)
    BY <2>3
  <2>5. Def(F)
    <3> HIDE DEF h
    <3> QED BY <2>4
  <2>6. FlattenSeq(s) = F[L]
    BY <1>3, <2>1 DEF FlattenSeq
  <2> DEFINE U == {n \in Nat : n + 1 <= L => F[n + 1] = f[n + 1]}
  <2> HIDE DEF F, h
  <2>7. ASSUME NEW i \in 1 .. L PROVE F[i] = IF i = 1 THEN s[i] ELSE F[i - 1] \o s[i]
    BY <2>5
  <2>8. 0 \in U
    <3>1. F[1] = s[1]
      BY <2>1, <2>7
    <3> QED BY <2>2, <3>1
  <2>9. ASSUME NEW n \in U PROVE n + 1 \in U
    <3> SUFFICES ASSUME (n + 1) + 1 <= L PROVE F[(n + 1) + 1] = f[(n + 1) + 1]
      BY <2>9
    <3>1. n \in Nat /\ (n + 1) + 1 \in 1 .. L /\ (n + 1) + 1 # 1 /\ ((n + 1) + 1) - 1 = n + 1
      BY <2>1
    <3>2. F[n + 1] = f[n + 1]
      BY <2>1, <3>1
    <3>3. F[(n + 1) + 1] = F[n + 1] \o s[(n + 1) + 1]
      BY <2>7, <3>1
    <3>4. f[(n + 1) + 1] = f[n + 1] \o s[(n + 1) + 1]
      BY <1>1, <3>1 DEF Joins
    <3> QED BY <3>2, <3>3, <3>4
  <2>10. U \in SUBSET Nat
    OBVIOUS
  <2>11. U = Nat
    <3> HIDE DEF U
    <3> QED BY <2>8, <2>9, <2>10, Induct
  <2>12. L - 1 \in U /\ (L - 1) + 1 = L
    <3> HIDE DEF U
    <3> QED BY <2>1, <2>11
  <2>13. F[L] = f[L]
    BY <2>1, <2>12
  <2> QED BY <1>1, <2>6, <2>13
<1> QED BY <1>2, <1>3

\* f[i] is what the first i elements of s keep.
Keeps(X, s, S, f, n) ==
  /\ f \in [0 .. n -> Seq(X)] /\ f[0] = <<>>
  /\ \A i \in 1 .. n : f[i] = IF s[i] \in S THEN Append(f[i - 1], s[i]) ELSE f[i - 1]

LEMMA KeepsExist ==
  ASSUME NEW X, NEW S, NEW s \in Seq(X)
  PROVE  \E f : Keeps(X, s, S, f, Len(s))
<1> DEFINE T == {n \in Nat : n <= Len(s) => \E f : Keeps(X, s, S, f, n)}
<1>1. 0 \in T
  <2>1. Keeps(X, s, S, [i \in 0 .. 0 |-> <<>>], 0)
    BY DEF Keeps
  <2> QED BY <2>1
<1>2. ASSUME NEW n \in T PROVE n + 1 \in T
  <2> SUFFICES ASSUME n + 1 <= Len(s) PROVE \E f : Keeps(X, s, S, f, n + 1)
    BY <1>2
  <2>0. n \in Nat /\ Len(s) \in Nat
    OBVIOUS
  <2>1. PICK f : Keeps(X, s, S, f, n)
    BY <2>0
  <2> DEFINE last == IF s[n + 1] \in S THEN Append(f[n], s[n + 1]) ELSE f[n]
             g == [i \in 0 .. n + 1 |-> IF i <= n THEN f[i] ELSE last]
  <2>2. s[n + 1] \in X /\ f[n] \in Seq(X)
    BY <2>0, <2>1 DEF Keeps
  <2>3. last \in Seq(X)
    BY <2>2
  <2> HIDE DEF last
  <2>4. g \in [0 .. n + 1 -> Seq(X)] /\ g[0] = <<>>
    BY <2>0, <2>1, <2>3 DEF Keeps
  <2>5. ASSUME NEW i \in 1 .. n + 1
        PROVE  g[i] = IF s[i] \in S THEN Append(g[i - 1], s[i]) ELSE g[i - 1]
    <3>1. CASE i = n + 1
      <4>1. ~(n + 1 <= n) /\ (n + 1) - 1 = n /\ n + 1 \in 0 .. n + 1 /\ n \in 0 .. n + 1
        BY <2>0
      <4>2. g[n + 1] = last
        BY <4>1
      <4>3. g[n] = f[n]
        BY <4>1, <2>0
      <4> QED BY <3>1, <4>1, <4>2, <4>3 DEF last
    <3>2. CASE i # n + 1
      <4>1. i \in 1 .. n /\ i - 1 \in 0 .. n
        BY <2>0, <3>2
      <4>2. g[i] = f[i] /\ g[i - 1] = f[i - 1]
        BY <2>0, <4>1
      <4> QED BY <2>1, <4>1, <4>2 DEF Keeps
    <3> QED BY <3>1, <3>2
  <2>6. Keeps(X, s, S, g, n + 1)
    BY <2>4, <2>5 DEF Keeps
  <2> QED BY <2>6
<1>3. T \in SUBSET Nat
  OBVIOUS
<1>4. T = Nat
  <2> HIDE DEF T
  <2> QED BY <1>1, <1>2, <1>3, Induct
<1>5. Len(s) \in T
  <2>1. Len(s) \in Nat
    OBVIOUS
  <2> HIDE DEF T
  <2> QED BY <1>4, <2>1
<1> QED BY <1>5

\* Kept is the function that KeepsExist is about, at its last argument.
LEMMA KeptIs ==
  ASSUME NEW X, NEW S, NEW s \in Seq(X)
  PROVE  \E f : Keeps(X, s, S, f, Len(s)) /\ f[Len(s)] = Kept(s, S)
<1> DEFINE L == Len(s)
           Def(g) == g = [i \in 0 .. L |-> IF i = 0 THEN <<>>
                            ELSE IF s[i] \in S THEN Append(g[i - 1], s[i]) ELSE g[i - 1]]
           F == CHOOSE g : Def(g)
<1>1. PICK f : Keeps(X, s, S, f, L)
  BY KeepsExist
<1>2. L \in Nat
  OBVIOUS
<1>3. Def(f)
  <2>1. f = [i \in 0 .. L |-> f[i]]
    BY <1>1 DEF Keeps
  <2>2. ASSUME NEW i \in 0 .. L
        PROVE  f[i] = IF i = 0 THEN <<>>
                      ELSE IF s[i] \in S THEN Append(f[i - 1], s[i]) ELSE f[i - 1]
    <3>1. CASE i = 0
      BY <1>1, <3>1 DEF Keeps
    <3>2. CASE i # 0
      <4>1. i \in 1 .. L
        BY <1>2, <3>2
      <4> QED BY <1>1, <3>2, <4>1 DEF Keeps
    <3> QED BY <3>1, <3>2
  <2> QED BY <2>1, <2>2
<1>4. Def(F)
  BY <1>3
<1>5. Kept(s, S) = F[L]
  BY DEF Kept
<1> DEFINE U == {n \in Nat : n <= L => F[n] = f[n]}
<1> HIDE DEF F
<1>6. ASSUME NEW i \in 0 .. L
      PROVE  F[i] = IF i = 0 THEN <<>>
                    ELSE IF s[i] \in S THEN Append(F[i - 1], s[i]) ELSE F[i - 1]
  BY <1>4
<1>7. 0 \in U
  <2>1. F[0] = <<>>
    BY <1>2, <1>6
  <2> QED BY <1>1, <2>1 DEF Keeps
<1>8. ASSUME NEW n \in U PROVE n + 1 \in U
  <2> SUFFICES ASSUME n + 1 <= L PROVE F[n + 1] = f[n + 1]
    BY <1>8
  <2>1. n \in Nat /\ n + 1 \in 1 .. L /\ n + 1 \in 0 .. L /\ n + 1 # 0 /\ (n + 1) - 1 = n
    BY <1>2
  <2>2. F[n] = f[n]
    BY <1>2, <2>1
  <2>3. F[n + 1] = IF s[n + 1] \in S THEN Append(F[n], s[n + 1]) ELSE F[n]
    BY <1>6, <2>1
  <2>4. f[n + 1] = IF s[n + 1] \in S THEN Append(f[n], s[n + 1]) ELSE f[n]
    BY <1>1, <2>1 DEF Keeps
  <2> QED BY <2>2, <2>3, <2>4
<1>9. U \in SUBSET Nat
  OBVIOUS
<1>10. F[L] = f[L]
  <2>1. U = Nat
    <3> HIDE DEF U
    <3> QED BY <1>7, <1>8, <1>9, Induct
  <2>2. L \in U
    <3> HIDE DEF U
    <3> QED BY <1>2, <2>1
  <2> QED BY <1>2, <2>2
<1> QED BY <1>1, <1>5, <1>10

\* The elements of s from a + 1 to b, and no others, are in S.
InRange(s, S, a, b) ==
  a <= b /\ b <= Len(s) /\ \A i \in 1 .. Len(s) : s[i] \in S <=> a < i /\ i <= b

\* t are those elements.
IsRange(t, s, a, b) == Len(t) = b - a /\ \A j \in 1 .. b - a : t[j] = s[a + j]

LEMMA KeptRange ==
  ASSUME NEW X, NEW S, NEW s \in Seq(X), NEW a \in Nat, NEW b \in Nat, InRange(s, S, a, b)
  PROVE  Kept(s, S) \in Seq(X) /\ IsRange(Kept(s, S), s, a, b)
<1> USE DEF InRange, IsRange
<1> DEFINE L == Len(s)
           Size(i) == IF i <= a THEN 0 ELSE IF i <= b THEN i - a ELSE b - a
<1>1. PICK f : Keeps(X, s, S, f, L) /\ f[L] = Kept(s, S)
  BY KeptIs
<1>2. L \in Nat
  OBVIOUS
<1> DEFINE Right(i) == /\ f[i] \in Seq(X) /\ Len(f[i]) = Size(i)
                       /\ \A j \in 1 .. Size(i) : f[i][j] = s[a + j]
           U == {n \in Nat : n <= L => Right(n)}
<1>3. 0 \in U
  BY <1>1 DEF Keeps
<1>4. ASSUME NEW n \in U PROVE n + 1 \in U
  <2> HIDE DEF Right
  <2> SUFFICES ASSUME n + 1 <= L PROVE Right(n + 1)
    BY <1>4
  <2> USE DEF Right
  <2>1. n \in Nat /\ n + 1 \in 1 .. L /\ (n + 1) - 1 = n
    BY <1>2
  <2>2. Right(n)
    BY <1>2, <2>1
  <2>3. f[n + 1] = IF s[n + 1] \in S THEN Append(f[n], s[n + 1]) ELSE f[n]
    BY <1>1, <2>1 DEF Keeps
  <2>4. CASE a < n + 1 /\ n + 1 <= b
    <3>1. f[n + 1] = Append(f[n], s[n + 1]) /\ s[n + 1] \in X
      BY <2>1, <2>3, <2>4
    <3>2. Size(n + 1) = (n + 1) - a /\ Size(n) = n - a
      BY <2>1, <2>4
    <3>3. f[n + 1] \in Seq(X) /\ Len(f[n + 1]) = Size(n + 1)
      BY <2>1, <2>2, <3>1, <3>2
    <3>4. ASSUME NEW j \in 1 .. Size(n + 1) PROVE f[n + 1][j] = s[a + j]
      <4>1. CASE j = (n + 1) - a
        BY <2>1, <2>2, <3>1, <3>2, <4>1
      <4>2. CASE j # (n + 1) - a
        <5>1. j \in 1 .. Size(n)
          BY <2>1, <2>4, <3>2, <4>2
        <5> QED BY <2>1, <2>2, <3>1, <3>2, <5>1
      <4> QED BY <4>1, <4>2
    <3> QED BY <3>3, <3>4
  <2>5. CASE ~(a < n + 1 /\ n + 1 <= b)
    <3>1. f[n + 1] = f[n]
      BY <2>1, <2>3, <2>5
    <3>2. Size(n + 1) = Size(n)
      BY <2>1, <2>5
    <3> QED BY <2>2, <3>1, <3>2
  <2> QED BY <2>4, <2>5
<1>5. U \in SUBSET Nat
  OBVIOUS
<1>6. Right(L)
  <2>1. U = Nat
    <3> HIDE DEF U
    <3> QED BY <1>3, <1>4, <1>5, Induct
  <2>2. L \in U
    <3> HIDE DEF U
    <3> QED BY <1>2, <2>1
  <2> QED BY <1>2, <2>2
<1>7. Size(L) = b - a
  BY <1>2
<1> QED BY <1>1, <1>6, <1>7

-----------------------------------------------------------------------------
(* The automaton. *)

Size(p) == Len(Files[p].ops)
OnSqlite(o) == o.kind = "rebuild" /\ Backend = "sqlite"

\* The operation of the p-th file that is the k-th to run.
Nth(p, to, k) == IF to = 1 THEN Files[p].ops[k] ELSE Files[p].ops[(Size(p) - k) + 1]

\* out: no transaction; in: inside one; from there to "on": between the statements of a
\* rebuild, in their order.
Modes == {"out", "in", "paused", "off", "new", "copied", "dropped", "swapped", "done", "on"}

\* A place: k operations are done, or all are and the migration is recorded.
Places == [m : Modes, k : Nat]
At(m, k) == [m |-> m, k |-> k]

Stmts ==
  [op : {"BEGIN", "COMMIT", "ROLLBACK", "COMMIT raw", "ROLLBACK raw", "OFF", "ON", "copy", "drop"}]
    \cup [op : {"BEGIN raw"}, off : BOOLEAN]
    \cup [op : Kinds \cup {"swap"}, on : Things, to : {0, 1}]
    \cup [op : {"record"}, on : Names, to : {0, 1}]

WorkMode(p) == IF Files[p].atomic THEN "in" ELSE "out"

GoesChange(p, to, a, s, b) ==
  /\ a.k < Size(p) /\ ~OnSqlite(Nth(p, to, a.k + 1))
  /\ s = Change(Nth(p, to, a.k + 1), to)
  /\ a.m = WorkMode(p) /\ b = At(WorkMode(p), a.k + 1)

GoesRecord(p, to, a, s, b) ==
  /\ a = At(WorkMode(p), Size(p)) /\ b = At(WorkMode(p), Size(p) + 1)
  /\ s = [op |-> "record", on |-> Files[p].name, to |-> to]

GoesEngine(p, a, s, b) ==
  /\ b.k = a.k
  /\ \/ /\ s = Stmt("BEGIN") /\ a.m = "out" /\ b.m = "in"
        /\ Plain(p) => a.k = 0
     \/ /\ s = Stmt("COMMIT") /\ a.m = "in" /\ b.m = "out"
        /\ Plain(p) => a.k = Size(p) + 1

GoesRaw(p, to, a, s, b) ==
  /\ Backend = "sqlite" /\ ~Plain(p) /\ a.k < Size(p)
  /\ b.k = IF a.m = "on" THEN a.k + 1 ELSE a.k
  /\ \/ a.m = "in" /\ s = Stmt("COMMIT raw") /\ b.m = "paused"
     \/ a.m = "paused" /\ s = Stmt("OFF") /\ b.m = "off"
     \/ a.m = "off" /\ s = [op |-> "BEGIN raw", off |-> TRUE] /\ b.m = "new"
     \/ a.m = "new" /\ s = Stmt("copy") /\ b.m = "copied"
     \/ a.m = "copied" /\ s = Stmt("drop") /\ b.m = "dropped"
     \/ /\ a.m = "dropped" /\ b.m = "swapped"
        /\ s = [op |-> "swap", on |-> Nth(p, to, a.k + 1).on, to |-> to]
     \/ a.m = "swapped" /\ s = Stmt("COMMIT raw") /\ b.m = "done"
     \/ a.m = "done" /\ s = Stmt("ON") /\ b.m = "on"
     \/ a.m = "on" /\ s = [op |-> "BEGIN raw", off |-> FALSE] /\ b.m = "in"

\* Statement s of file p, in direction to, leads from a to b.
Goes(p, to, a, s, b) ==
  GoesChange(p, to, a, s, b) \/ GoesRecord(p, to, a, s, b) \/ GoesEngine(p, a, s, b)
    \/ GoesRaw(p, to, a, s, b)

\* The statements of P do, one after the other.
Leads(p, to, P, a, b) ==
  /\ P \in Seq(Stmts)
  /\ \E st \in [1 .. Len(P) + 1 -> Places] :
       /\ st[1] = a /\ st[Len(P) + 1] = b
       /\ \A i \in 1 .. Len(P) : Goes(p, to, st[i], P[i], st[i + 1])

End(p) == At("out", Size(p) + 1)

-----------------------------------------------------------------------------
(* The invariant. *)

\* What the connection and the runner's two flags are like in a mode.
Conn(m) ==
  /\ pinned = (m # "out")
  /\ m \in {"out", "paused", "off", "done", "on"} => ~open
  /\ m \in {"in", "new", "copied", "dropped", "swapped"} /\ Backend # "mysql" => open
  /\ m \in {"out", "in", "paused", "off"} => ~fkOff
  /\ m \in {"new", "copied", "dropped", "swapped"} => fkOff
  /\ m \in {"off", "new", "copied", "dropped", "swapped"} => ~fk
  /\ m \in {"out", "in", "paused", "on"} /\ ~cancelled => fk

\* What is recorded are the first files.
FirstFiles(rows) == Len(rows) <= Len(Files) /\ \A i \in DOMAIN rows : rows[i] = Files[i].name

\* The migrations left go on from the q-th file, up or down.
Ahead(to, q) ==
  \A i \in DOMAIN todo :
    LET r == IF to = 1 THEN q + (i - 1) ELSE q - (i - 1)
    IN  r \in DOMAIN Files /\ todo[i] = [name |-> Files[r].name, to |-> to]

\* The p-th file is recorded, in a view of the database, as far as place a says.
Recorded(p, to, a) ==
  Len(View.rows) = IF (to = 1) = (a.k = Size(p) + 1) THEN p ELSE p - 1

\* The plain files but the p-th are done, in v, if and only if they are recorded.
WholeBut(v, p) ==
  \A i \in DOMAIN Files : Plain(i) /\ i # p =>
    \A j \in DOMAIN Files[i].ops : v.has[Files[i].ops[j].on] = IF i <= Len(v.rows) THEN 1 ELSE 0

Whole(v) == WholeBut(v, 0)

\* Of the p-th file the first k operations are done.
Partly(v, p, to, k) ==
  \A j \in 1 .. Size(p) : v.has[Nth(p, to, j).on] = IF j <= k THEN to ELSE 1 - to

Done(p, to, a) == open =>
  /\ a.k <= Size(p) => Len(tx.rows) = Len(db.rows)
  /\ WholeBut(tx, p)
  /\ Plain(p) => Partly(tx, p, to, a.k)

Atomically == Backend # "mysql" /\ TouchedOnce

\* Between two migrations, or at rest.
Resting ==
  /\ prog = <<>> /\ Conn("out")
  /\ \E to \in {0, 1} : Ahead(to, IF to = 1 THEN Len(db.rows) + 1 ELSE Len(db.rows))

\* In the middle of the p-th file.
Running == \E p \in DOMAIN Files, to \in {0, 1}, a \in Places :
  /\ prog # <<>> /\ Leads(p, to, prog, a, End(p)) /\ Conn(a.m)
  /\ Ahead(to, IF to = 1 THEN p + 1 ELSE p - 1)
  /\ Recorded(p, to, a)
  /\ Atomically => Done(p, to, a)

\* After a failure: what the except clause and __aexit__ still send.
Undoing ==
  /\ todo = <<>> /\ pinned /\ ~fkOff
  /\ \/ prog = Append(Except, Stmt("ROLLBACK")) /\ Backend = "sqlite" /\ (~cancelled => open)
     \/ prog = Tail(Append(Except, Stmt("ROLLBACK"))) /\ Backend = "sqlite" /\ ~open
     \/ prog = Tail(Tail(Append(Except, Stmt("ROLLBACK")))) /\ Backend = "sqlite" /\ ~open /\ (~cancelled => fk)
     \/ prog = <<Stmt("ROLLBACK")>> /\ (~cancelled => fk)

DataInv ==
  /\ db \in State /\ tx \in State
  /\ FirstFiles(db.rows) /\ FirstFiles(tx.rows)
  /\ db.children /\ tx.children
  /\ Atomically => Whole(db)

FlagsInv ==
  /\ open \in BOOLEAN /\ pinned \in BOOLEAN /\ fk \in BOOLEAN /\ fkOff \in BOOLEAN
  /\ cancelled \in BOOLEAN /\ todo \in Seq([name : Names, to : {0, 1}])
  /\ faults \in 0 .. MaxFaults /\ downgrades \in 0 .. MaxDowngrades

RunnerInv == FlagsInv /\ DataInv /\ (Resting \/ Running \/ Undoing)

-----------------------------------------------------------------------------
(* Paths. *)

LEMMA Element ==
  ASSUME NEW X, NEW s \in Seq(X), NEW i \in DOMAIN s
  PROVE  s[i] \in X /\ i \in 1 .. Len(s) /\ Len(s) \in Nat /\ DOMAIN s = 1 .. Len(s)
OBVIOUS

LEMMA FileFacts ==
  ASSUME NEW p \in DOMAIN Files
  PROVE  /\ p \in 1 .. Len(Files) /\ Len(Files) \in Nat
         /\ Files[p].name \in Names /\ Files[p].atomic \in BOOLEAN
         /\ Files[p].ops \in Seq([kind : Kinds, on : Things])
         /\ Size(p) \in Nat /\ DOMAIN Files[p].ops = 1 .. Size(p)
         /\ File(Files[p].name) = Files[p]
<1>1. Files \in Seq([name : Names, atomic : BOOLEAN, ops : Seq([kind : Kinds, on : Things])])
  BY FilesAssumption
<1>2. p \in 1 .. Len(Files) /\ Len(Files) \in Nat
  BY <1>1, Element
<1>3. Files[p] \in [name : Names, atomic : BOOLEAN, ops : Seq([kind : Kinds, on : Things])]
  BY <1>1, Element
<1>4. Size(p) \in Nat /\ DOMAIN Files[p].ops = 1 .. Size(p)
  BY <1>3 DEF Size
<1>5. File(Files[p].name) = Files[p]
  <2> DEFINE q == CHOOSE i \in DOMAIN Files : Files[i].name = Files[p].name
  <2>1. q \in DOMAIN Files /\ Files[q].name = Files[p].name
    OBVIOUS
  <2>2. q = p
    BY <2>1, FilesAssumption
  <2> QED BY <2>2 DEF File
<1> QED BY <1>2, <1>3, <1>4, <1>5

LEMMA NthFacts ==
  ASSUME NEW p \in DOMAIN Files, NEW to \in {0, 1}, NEW k \in 1 .. Size(p)
  PROVE  /\ Nth(p, to, k) \in [kind : Kinds, on : Things]
         /\ \E j \in DOMAIN Files[p].ops : Nth(p, to, k) = Files[p].ops[j]
<1>1. Size(p) \in Nat /\ DOMAIN Files[p].ops = 1 .. Size(p)
      /\ Files[p].ops \in Seq([kind : Kinds, on : Things])
  BY FileFacts
<1>2. k \in 1 .. Size(p) /\ (Size(p) - k) + 1 \in 1 .. Size(p)
  BY <1>1
<1>3. Nth(p, to, k) = Files[p].ops[k] \/ Nth(p, to, k) = Files[p].ops[(Size(p) - k) + 1]
  BY DEF Nth
<1>4. PICK j \in DOMAIN Files[p].ops : Nth(p, to, k) = Files[p].ops[j]
  BY <1>1, <1>2, <1>3
<1> QED BY <1>1, <1>4, Element

LEMMA LeadsNone ==
  ASSUME NEW p, NEW to, NEW a \in Places
  PROVE  Leads(p, to, <<>>, a, a)
<1> DEFINE st == [i \in 1 .. 1 |-> a]
<1>1. st \in [1 .. Len(<<>>) + 1 -> Places] /\ st[1] = a /\ st[Len(<<>>) + 1] = a
  OBVIOUS
<1>2. <<>> \in Seq(Stmts) /\ 1 .. Len(<<>>) = {}
  OBVIOUS
<1> QED BY <1>1, <1>2 DEF Leads

LEMMA LeadsNowhere ==
  ASSUME NEW p, NEW to, NEW a, NEW b, Leads(p, to, <<>>, a, b)
  PROVE  a = b /\ a \in Places
<1>1. PICK st \in [1 .. Len(<<>>) + 1 -> Places] : st[1] = a /\ st[Len(<<>>) + 1] = b
  BY DEF Leads
<1>2. Len(<<>>) + 1 = 1
  OBVIOUS
<1> QED BY <1>1, <1>2

LEMMA LeadsOne ==
  ASSUME NEW p, NEW to, NEW a \in Places, NEW b \in Places, NEW s \in Stmts, Goes(p, to, a, s, b)
  PROVE  Leads(p, to, <<s>>, a, b)
<1> DEFINE st == [i \in 1 .. 2 |-> IF i = 1 THEN a ELSE b]
<1>1. <<s>> \in Seq(Stmts) /\ Len(<<s>>) = 1 /\ <<s>>[1] = s
  OBVIOUS
<1>2. st \in [1 .. Len(<<s>>) + 1 -> Places] /\ st[1] = a /\ st[2] = b /\ st[Len(<<s>>) + 1] = b
  BY <1>1
<1>3. ASSUME NEW i \in 1 .. Len(<<s>>) PROVE Goes(p, to, st[i], <<s>>[i], st[i + 1])
  <2>1. i = 1
    BY <1>1
  <2>2. Goes(p, to, st[1], <<s>>[1], st[2])
    BY <1>1, <1>2
  <2> QED BY <2>1, <2>2
<1> HIDE DEF st
<1> QED BY <1>1, <1>2, <1>3 DEF Leads

\* The first statement of a path leads to where the rest begins.
LEMMA LeadsTail ==
  ASSUME NEW p, NEW to, NEW a, NEW b, NEW P, P # <<>>, Leads(p, to, P, a, b)
  PROVE  \E c \in Places : /\ a \in Places /\ Head(P) \in Stmts /\ Goes(p, to, a, Head(P), c)
                           /\ Leads(p, to, Tail(P), c, b)
<1>1. P \in Seq(Stmts)
  BY DEF Leads
<1>2. PICK st \in [1 .. Len(P) + 1 -> Places] :
        /\ st[1] = a /\ st[Len(P) + 1] = b
        /\ \A i \in 1 .. Len(P) : Goes(p, to, st[i], P[i], st[i + 1])
  BY DEF Leads
<1>3. Len(P) \in Nat \ {0} /\ Tail(P) \in Seq(Stmts) /\ Len(Tail(P)) = Len(P) - 1
      /\ Head(P) = P[1] /\ P[1] \in Stmts
  BY <1>1
<1> DEFINE rest == [i \in 1 .. Len(Tail(P)) + 1 |-> st[i + 1]]
<1>4. rest \in [1 .. Len(Tail(P)) + 1 -> Places]
  BY <1>2, <1>3
<1>5. rest[1] = st[2] /\ rest[Len(Tail(P)) + 1] = b
  BY <1>2, <1>3
<1>6. ASSUME NEW i \in 1 .. Len(Tail(P)) PROVE Goes(p, to, rest[i], Tail(P)[i], rest[i + 1])
  <2>1. i + 1 \in 1 .. Len(P) /\ Tail(P)[i] = P[i + 1]
    BY <1>1, <1>3
  <2>2. rest[i] = st[i + 1] /\ rest[i + 1] = st[(i + 1) + 1]
    BY <1>3
  <2> HIDE DEF rest
  <2> QED BY <1>2, <2>1, <2>2
<1>7. Leads(p, to, Tail(P), st[2], b)
  <2> HIDE DEF rest
  <2> QED BY <1>3, <1>4, <1>5, <1>6 DEF Leads
<1>8. 1 \in 1 .. Len(P) /\ 1 + 1 = 2 /\ 2 \in 1 .. Len(P) + 1
  BY <1>3
<1>9. Goes(p, to, a, Head(P), st[2])
  BY <1>2, <1>3, <1>8
<1> QED BY <1>2, <1>3, <1>7, <1>8, <1>9

LEMMA LeadsJoin ==
  ASSUME NEW p, NEW to, NEW a, NEW b, NEW c, NEW P, NEW Q,
         Leads(p, to, P, a, b), Leads(p, to, Q, b, c)
  PROVE  Leads(p, to, P \o Q, a, c)
<1>1. P \in Seq(Stmts) /\ Q \in Seq(Stmts)
  BY DEF Leads
<1>2. PICK st \in [1 .. Len(P) + 1 -> Places] :
        /\ st[1] = a /\ st[Len(P) + 1] = b
        /\ \A i \in 1 .. Len(P) : Goes(p, to, st[i], P[i], st[i + 1])
  BY DEF Leads
<1>3. PICK su \in [1 .. Len(Q) + 1 -> Places] :
        /\ su[1] = b /\ su[Len(Q) + 1] = c
        /\ \A i \in 1 .. Len(Q) : Goes(p, to, su[i], Q[i], su[i + 1])
  BY DEF Leads
<1> DEFINE L == Len(P)
           M == Len(Q)
           sv == [i \in 1 .. (L + M) + 1 |-> IF i <= L THEN st[i] ELSE su[i - L]]
<1>4. P \o Q \in Seq(Stmts) /\ Len(P \o Q) = L + M /\ L \in Nat /\ M \in Nat
  BY <1>1
<1>5. sv \in [1 .. (L + M) + 1 -> Places]
  BY <1>2, <1>3, <1>4
<1>6. sv[1] = a /\ sv[(L + M) + 1] = c
  <2>1. sv[1] = a
    BY <1>2, <1>3, <1>4
  <2>2. ~((L + M) + 1 <= L) /\ ((L + M) + 1) - L = M + 1 /\ (L + M) + 1 \in 1 .. (L + M) + 1
    BY <1>4
  <2> QED BY <1>3, <2>1, <2>2
<1>7. ASSUME NEW i \in 1 .. L + M PROVE Goes(p, to, sv[i], (P \o Q)[i], sv[i + 1])
  <2>0. i \in 1 .. (L + M) + 1 /\ i + 1 \in 1 .. (L + M) + 1
    BY <1>4
  <2>1. CASE i <= L
    <3>1. i \in 1 .. L /\ (P \o Q)[i] = P[i]
      BY <1>1, <1>4, <2>1
    <3>2. sv[i] = st[i]
      BY <2>0, <2>1
    <3>3. sv[i + 1] = st[i + 1]
      <4>1. CASE i + 1 <= L
        BY <2>0, <4>1
      <4>2. CASE i = L
        <5>1. ~(i + 1 <= L) /\ (i + 1) - L = 1
          BY <1>4, <4>2
        <5> QED BY <1>2, <1>3, <2>0, <4>2, <5>1
      <4> QED BY <1>4, <2>1, <4>1, <4>2
    <3> QED BY <1>2, <3>1, <3>2, <3>3
  <2>2. CASE i > L
    <3>1. i - L \in 1 .. M /\ (P \o Q)[i] = Q[i - L] /\ (i + 1) - L = (i - L) + 1
      BY <1>1, <1>4, <2>2
    <3>2. sv[i] = su[i - L] /\ sv[i + 1] = su[(i - L) + 1]
      BY <1>4, <2>0, <2>2, <3>1
    <3> QED BY <1>3, <3>1, <3>2
  <2> QED BY <1>4, <2>1, <2>2
<1>8. Len(P \o Q) + 1 = (L + M) + 1
  BY <1>4
<1> HIDE DEF sv
<1> QED BY <1>4, <1>5, <1>6, <1>7, <1>8 DEF Leads

\* A sequence of paths, each of which begins where the one before it ended.
LEMMA LeadsFlat ==
  ASSUME NEW p, NEW to, NEW s \in Seq(Seq(Stmts)), NEW q \in [0 .. Len(s) -> Places],
         \A i \in 1 .. Len(s) : Leads(p, to, s[i], q[i - 1], q[i])
  PROVE  Leads(p, to, FlattenSeq(s), q[0], q[Len(s)])
<1>1. PICK f : Joins(Stmts, s, f, Len(s)) /\ f[Len(s)] = FlattenSeq(s)
  BY Flattened
<1>2. Len(s) \in Nat
  OBVIOUS
<1> DEFINE T == {n \in Nat : n <= Len(s) => Leads(p, to, f[n], q[0], q[n])}
<1>3. 0 \in T
  <2>1. f[0] = <<>> /\ q[0] \in Places
    BY <1>1, <1>2 DEF Joins
  <2> QED BY <2>1, LeadsNone
<1>4. ASSUME NEW n \in T PROVE n + 1 \in T
  <2> SUFFICES ASSUME n + 1 <= Len(s) PROVE Leads(p, to, f[n + 1], q[0], q[n + 1])
    BY <1>4
  <2>1. n + 1 \in 1 .. Len(s) /\ (n + 1) - 1 = n /\ n <= Len(s)
    BY <1>2
  <2>2. Leads(p, to, f[n], q[0], q[n]) /\ Leads(p, to, s[n + 1], q[n], q[n + 1])
    BY <2>1
  <2>3. f[n + 1] = f[n] \o s[n + 1]
    BY <1>1, <2>1 DEF Joins
  <2> QED BY <2>2, <2>3, LeadsJoin
<1>5. T \in SUBSET Nat
  OBVIOUS
<1>6. Len(s) \in T
  <2> HIDE DEF T
  <2> QED BY <1>2, <1>3, <1>4, <1>5, Induct
<1> QED BY <1>1, <1>2, <1>6

LEMMA AtPlace ==
  ASSUME NEW m \in Modes, NEW k \in Nat
  PROVE  At(m, k) \in Places /\ At(m, k).m = m /\ At(m, k).k = k
BY DEF At, Places

LEMMA Pair ==
  ASSUME NEW S, NEW s \in S, NEW t \in S
  PROVE  <<s>> \o <<t>> = <<s, t>>
<1> DEFINE P == <<s>>
           Q == <<t>>
           R == <<s, t>>
<1>1. P \in Seq(S) /\ Len(P) = 1 /\ P[1] = s /\ Q \in Seq(S) /\ Len(Q) = 1 /\ Q[1] = t
  OBVIOUS
<1>2. R \in Seq(S) /\ Len(R) = 2 /\ R[1] = s /\ R[2] = t
  OBVIOUS
<1> HIDE DEF P, Q, R
<1>3. P \o Q \in Seq(S) /\ Len(P \o Q) = 2 /\ (P \o Q)[1] = s /\ (P \o Q)[2] = t
  <2>1. 1 \in 1 .. Len(P) + Len(Q) /\ 2 \in 1 .. Len(P) + Len(Q) /\ ~(2 <= Len(P)) /\ 2 - Len(P) = 1
    BY <1>1
  <2>2. /\ P \o Q \in Seq(S)
        /\ Len(P \o Q) = Len(P) + Len(Q)
        /\ \A i \in 1 .. Len(P) + Len(Q) : (P \o Q)[i] =
                     IF i <= Len(P) THEN P[i] ELSE Q[i - Len(P)]
    BY <1>1, ConcatProperties
  <2> QED BY <1>1, <2>1, <2>2
<1>4. ASSUME NEW i \in 1 .. Len(P \o Q) PROVE (P \o Q)[i] = R[i]
  <2>1. i = 1 \/ i = 2
    BY <1>3
  <2> QED BY <1>2, <1>3, <2>1
<1>5. P \o Q = R
  BY <1>2, <1>3, <1>4, SeqEqual
<1> QED BY <1>5 DEF P, Q, R

LEMMA Triple ==
  ASSUME NEW S, NEW s \in S, NEW t \in S, NEW u \in S
  PROVE  <<s, t>> \o <<u>> = <<s, t, u>>
<1> DEFINE P == <<s, t>>
           Q == <<u>>
           R == <<s, t, u>>
<1>1. P \in Seq(S) /\ Len(P) = 2 /\ P[1] = s /\ P[2] = t /\ Q \in Seq(S) /\ Len(Q) = 1 /\ Q[1] = u
  OBVIOUS
<1>2. R \in Seq(S) /\ Len(R) = 3 /\ R[1] = s /\ R[2] = t /\ R[3] = u
  OBVIOUS
<1> HIDE DEF P, Q, R
<1>3. P \o Q \in Seq(S) /\ Len(P \o Q) = 3 /\ (P \o Q)[1] = s /\ (P \o Q)[2] = t /\ (P \o Q)[3] = u
  <2>1. {1, 2, 3} \subseteq 1 .. Len(P) + Len(Q) /\ 2 <= Len(P) /\ ~(3 <= Len(P)) /\ 3 - Len(P) = 1
    BY <1>1
  <2>2. /\ P \o Q \in Seq(S)
        /\ Len(P \o Q) = Len(P) + Len(Q)
        /\ \A i \in 1 .. Len(P) + Len(Q) : (P \o Q)[i] =
                     IF i <= Len(P) THEN P[i] ELSE Q[i - Len(P)]
    BY <1>1, ConcatProperties
  <2> QED BY <1>1, <2>1, <2>2
<1>4. ASSUME NEW i \in 1 .. Len(P \o Q) PROVE (P \o Q)[i] = R[i]
  <2>1. i = 1 \/ i = 2 \/ i = 3
    BY <1>3
  <2> QED BY <1>2, <1>3, <2>1
<1>5. P \o Q = R
  BY <1>2, <1>3, <1>4, SeqEqual
<1> QED BY <1>5 DEF P, Q, R

LEMMA LeadsThree ==
  ASSUME NEW p, NEW to, NEW a \in Places, NEW b \in Places, NEW c \in Places, NEW d \in Places,
         NEW s \in Stmts, NEW t \in Stmts, NEW u \in Stmts,
         Goes(p, to, a, s, b), Goes(p, to, b, t, c), Goes(p, to, c, u, d)
  PROVE  Leads(p, to, <<s, t, u>>, a, d)
<1>1. Leads(p, to, <<s>>, a, b) /\ Leads(p, to, <<t>>, b, c) /\ Leads(p, to, <<u>>, c, d)
  BY LeadsOne
<1>2. Leads(p, to, <<s>> \o <<t>>, a, c)
  BY <1>1, LeadsJoin
<1>3. Leads(p, to, (<<s>> \o <<t>>) \o <<u>>, a, d)
  BY <1>1, <1>2, LeadsJoin
<1>4. (<<s>> \o <<t>>) \o <<u>> = <<s, t, u>>
  <2>1. <<s>> \o <<t>> = <<s, t>>
    BY Pair
  <2>2. <<s, t>> \o <<u>> = <<s, t, u>>
    BY Triple
  <2> QED BY <2>1, <2>2
<1> QED BY <1>3, <1>4

LEMMA StmtKinds ==
  /\ \A op \in {"BEGIN", "COMMIT", "ROLLBACK", "COMMIT raw", "ROLLBACK raw", "OFF", "ON",
                "copy", "drop"} : Stmt(op) \in Stmts /\ Stmt(op).op = op
  /\ \A f \in BOOLEAN : [op |-> "BEGIN raw", off |-> f] \in Stmts
BY DEF Stmts, Stmt

LEMMA RebuildLeads ==
  ASSUME NEW p \in DOMAIN Files, NEW to \in {0, 1}, NEW k \in Nat, k < Size(p),
         Backend = "sqlite", ~Plain(p)
  PROVE  Leads(p, to, Rebuild(Nth(p, to, k + 1), to), At("in", k), At("in", k + 1))
<1> DEFINE o == Nth(p, to, k + 1)
<1>1. o.on \in Things
  <2>1. k + 1 \in 1 .. Size(p)
    BY FileFacts
  <2>2. o \in [kind : Kinds, on : Things]
    BY <2>1, NthFacts
  <2> QED BY <2>2
<1>2. \A m \in Modes : At(m, k) \in Places /\ At(m, k).m = m /\ At(m, k).k = k
  BY AtPlace
<1>3. At("in", k + 1) \in Places /\ At("in", k + 1).m = "in" /\ At("in", k + 1).k = k + 1
  BY AtPlace DEF Modes
<1> DEFINE sw == [op |-> "swap", on |-> o.on, to |-> to]
<1>4. sw \in Stmts
  BY <1>1 DEF Stmts
<1> HIDE DEF o
<1>5. Leads(p, to, Hoisted("OFF"), At("in", k), At("new", k))
  <2> DEFINE begin == [op |-> "BEGIN raw", off |-> TRUE]
  <2>1. Goes(p, to, At("in", k), Stmt("COMMIT raw"), At("paused", k))
    BY <1>2 DEF Goes, GoesRaw, Modes
  <2>2. Goes(p, to, At("paused", k), Stmt("OFF"), At("off", k))
    BY <1>2 DEF Goes, GoesRaw, Modes
  <2>3. Goes(p, to, At("off", k), begin, At("new", k))
    BY <1>2 DEF Goes, GoesRaw, Modes
  <2>4. Hoisted("OFF") = <<Stmt("COMMIT raw"), Stmt("OFF"), begin>>
    BY DEF Hoisted
  <2>5. At("in", k) \in Places /\ At("paused", k) \in Places /\ At("off", k) \in Places
        /\ At("new", k) \in Places
    BY <1>2 DEF Modes
  <2>6. Stmt("COMMIT raw") \in Stmts /\ Stmt("OFF") \in Stmts
        /\ begin \in Stmts
    BY StmtKinds
  <2> HIDE DEF begin
  <2>7. Leads(p, to, <<Stmt("COMMIT raw"), Stmt("OFF"), begin>>, At("in", k), At("new", k))
    BY <2>1, <2>2, <2>3, <2>5, <2>6, LeadsThree
  <2> QED BY <2>4, <2>7
<1>6. Leads(p, to, Swap(o, to), At("new", k), At("swapped", k))
  <2>1. Goes(p, to, At("new", k), Stmt("copy"), At("copied", k))
    BY <1>2 DEF Goes, GoesRaw, Modes
  <2>2. Goes(p, to, At("copied", k), Stmt("drop"), At("dropped", k))
    BY <1>2 DEF Goes, GoesRaw, Modes
  <2>3. Goes(p, to, At("dropped", k), sw, At("swapped", k))
    BY <1>2 DEF Goes, GoesRaw, Modes, o
  <2>4. Swap(o, to) = <<Stmt("copy"), Stmt("drop"), sw>>
    BY DEF Swap
  <2>5. At("new", k) \in Places /\ At("copied", k) \in Places /\ At("dropped", k) \in Places
        /\ At("swapped", k) \in Places
    BY <1>2 DEF Modes
  <2>6. Stmt("copy") \in Stmts /\ Stmt("drop") \in Stmts
    BY StmtKinds
  <2> HIDE DEF sw
  <2> QED BY <2>1, <2>2, <2>3, <2>4, <2>5, <2>6, <1>4, LeadsThree
<1>7. Leads(p, to, Hoisted("ON"), At("swapped", k), At("in", k + 1))
  <2> DEFINE begin == [op |-> "BEGIN raw", off |-> FALSE]
  <2>1. Goes(p, to, At("swapped", k), Stmt("COMMIT raw"), At("done", k))
    BY <1>2 DEF Goes, GoesRaw, Modes
  <2>2. Goes(p, to, At("done", k), Stmt("ON"), At("on", k))
    BY <1>2 DEF Goes, GoesRaw, Modes
  <2>3. Goes(p, to, At("on", k), begin, At("in", k + 1))
    BY <1>2, <1>3 DEF Goes, GoesRaw, Modes
  <2>4. Hoisted("ON") = <<Stmt("COMMIT raw"), Stmt("ON"), begin>>
    BY DEF Hoisted
  <2>5. At("swapped", k) \in Places /\ At("done", k) \in Places /\ At("on", k) \in Places
        /\ At("in", k + 1) \in Places
    BY <1>2, <1>3 DEF Modes
  <2>6. Stmt("COMMIT raw") \in Stmts /\ Stmt("ON") \in Stmts
        /\ begin \in Stmts
    BY StmtKinds
  <2> HIDE DEF begin
  <2>7. Leads(p, to, <<Stmt("COMMIT raw"), Stmt("ON"), begin>>, At("swapped", k), At("in", k + 1))
    BY <2>1, <2>2, <2>3, <2>5, <2>6, LeadsThree
  <2> QED BY <2>4, <2>7
<1>8. Leads(p, to, (Hoisted("OFF") \o Swap(o, to)) \o Hoisted("ON"), At("in", k), At("in", k + 1))
  <2>1. Leads(p, to, Hoisted("OFF") \o Swap(o, to), At("in", k), At("swapped", k))
    BY <1>5, <1>6, LeadsJoin
  <2> QED BY <1>7, <2>1, LeadsJoin
<1>9. Rebuild(o, to) = (Hoisted("OFF") \o Swap(o, to)) \o Hoisted("ON")
  BY DEF Rebuild
<1> QED BY <1>8, <1>9 DEF o

\* The statements of one operation lead to the next.
LEMMA OpLeads ==
  ASSUME NEW p \in DOMAIN Files, NEW to \in {0, 1}, NEW k \in Nat, k < Size(p)
  PROVE  Leads(p, to, OpProgram(Nth(p, to, k + 1), to, Files[p].atomic),
               At(WorkMode(p), k), At(WorkMode(p), k + 1))
<1> DEFINE o == Nth(p, to, k + 1)
           W == WorkMode(p)
<1>1. k + 1 \in 1 .. Size(p)
  BY FileFacts
<1>2. /\ o \in [kind : Kinds, on : Things]
      /\ \E j \in DOMAIN Files[p].ops : o = Files[p].ops[j]
  BY <1>1, NthFacts
<1>3. W \in {"in", "out"} /\ (Files[p].atomic => W = "in") /\ (~Files[p].atomic => W = "out")
  BY DEF WorkMode
<1>4. \A m \in Modes, i \in {k, k + 1} :
        At(m, i) \in Places /\ At(m, i).m = m /\ At(m, i).k = i
  BY AtPlace
<1>5. CASE ~OnSqlite(o)
  <2>1. OpProgram(o, to, Files[p].atomic) = <<Change(o, to)>>
    BY <1>5 DEF OpProgram, OnSqlite
  <2>2. Change(o, to) \in Stmts
    BY <1>2 DEF Change, Stmts
  <2>3. Goes(p, to, At(W, k), Change(o, to), At(W, k + 1))
    BY <1>3, <1>4, <1>5 DEF Goes, GoesChange, Modes
  <2>4. At(W, k) \in Places /\ At(W, k + 1) \in Places
    BY <1>3, <1>4 DEF Modes
  <2> HIDE DEF o, W
  <2> QED BY <2>1, <2>2, <2>3, <2>4, LeadsOne DEF o, W
<1>6. CASE OnSqlite(o)
  <2>1. Backend = "sqlite" /\ ~Plain(p)
    BY <1>2, <1>6 DEF OnSqlite, Plain, Rebuilds
  <2>2. Leads(p, to, Rebuild(o, to), At("in", k), At("in", k + 1))
    BY <2>1, RebuildLeads
  <2>3. CASE Files[p].atomic
    <3>1. OpProgram(o, to, Files[p].atomic) = Rebuild(o, to) /\ W = "in"
      BY <1>3, <1>6, <2>3 DEF OpProgram, OnSqlite
    <3> QED BY <2>2, <3>1
  <2>4. CASE ~Files[p].atomic
    <3>1. OpProgram(o, to, Files[p].atomic)
            = (<<Stmt("BEGIN")>> \o Rebuild(o, to)) \o <<Stmt("COMMIT")>> /\ W = "out"
      BY <1>3, <1>6, <2>4 DEF OpProgram, OnSqlite
    <3>2. Goes(p, to, At("out", k), Stmt("BEGIN"), At("in", k))
      BY <1>4, <2>1 DEF Goes, GoesEngine, Modes
    <3>3. Goes(p, to, At("in", k + 1), Stmt("COMMIT"), At("out", k + 1))
      BY <1>4, <2>1 DEF Goes, GoesEngine, Modes
    <3>4. {At("out", k), At("in", k), At("in", k + 1), At("out", k + 1)} \subseteq Places
      BY <1>4 DEF Modes
    <3>5. Leads(p, to, <<Stmt("BEGIN")>>, At("out", k), At("in", k))
      BY <3>2, <3>4, StmtKinds, LeadsOne
    <3>6. Leads(p, to, <<Stmt("COMMIT")>>, At("in", k + 1), At("out", k + 1))
      BY <3>3, <3>4, StmtKinds, LeadsOne
    <3> HIDE DEF o
    <3>7. Leads(p, to, <<Stmt("BEGIN")>> \o Rebuild(o, to), At("out", k), At("in", k + 1))
      BY <2>2, <3>5, LeadsJoin
    <3>8. Leads(p, to, (<<Stmt("BEGIN")>> \o Rebuild(o, to)) \o <<Stmt("COMMIT")>>,
                At("out", k), At("out", k + 1))
      BY <3>6, <3>7, LeadsJoin
    <3> QED BY <3>1, <3>8 DEF o
  <2> QED BY <2>3, <2>4
<1> QED BY <1>5, <1>6

\* What a migration runs leads from its beginning to its end.
LEMMA ProgramLeads ==
  ASSUME NEW p \in DOMAIN Files, NEW to \in {0, 1}
  PROVE  /\ Leads(p, to, Program(Files[p].name, to), At("out", 0), End(p))
         /\ Program(Files[p].name, to) # <<>>
<1> DEFINE m == Files[p]
           W == WorkMode(p)
           n == Size(p)
           steps == [i \in DOMAIN m.ops |-> OpProgram(m.ops[i], to, m.atomic)]
           s == IF to = 1 THEN steps ELSE Reverse(steps)
           q == [k \in 0 .. n |-> At(W, k)]
           rec == [op |-> "record", on |-> m.name, to |-> to]
<1>1. n \in Nat /\ DOMAIN m.ops = 1 .. n /\ File(m.name) = m /\ m.name \in Names
      /\ m.atomic \in BOOLEAN
  BY FileFacts
<1>2. W \in {"in", "out"} /\ (m.atomic => W = "in") /\ (~m.atomic => W = "out")
  BY DEF WorkMode
<1>3. \A i \in Nat : At(W, i) \in Places /\ At(W, i).m = W /\ At(W, i).k = i
  BY <1>2, AtPlace DEF Modes
<1>4. ASSUME NEW k \in 1 .. n PROVE Leads(p, to, OpProgram(Nth(p, to, k), to, m.atomic), At(W, k - 1), At(W, k))
  <2>1. k - 1 \in Nat /\ k - 1 < n /\ (k - 1) + 1 = k
    BY <1>1
  <2>2. Leads(p, to, OpProgram(Nth(p, to, (k - 1) + 1), to, m.atomic), At(W, k - 1), At(W, (k - 1) + 1))
    BY <2>1, OpLeads
  <2> QED BY <2>1, <2>2
<1>5. ASSUME NEW k \in 1 .. n PROVE OpProgram(Nth(p, to, k), to, m.atomic) \in Seq(Stmts)
  BY <1>4 DEF Leads
<1>6. s = [k \in 1 .. n |-> OpProgram(Nth(p, to, k), to, m.atomic)]
  <2>1. CASE to = 1
    <3>1. steps = [k \in 1 .. n |-> OpProgram(Nth(p, to, k), to, m.atomic)]
      BY <1>1, <2>1 DEF Nth
    <3> QED BY <2>1, <3>1
  <2>2. CASE to # 1
    <3>1. Len(steps) = n
      BY <1>1
    <3>2. Reverse(steps) = [k \in 1 .. n |-> steps[(n - k) + 1]]
      BY <3>1 DEF Reverse
    <3>3. ASSUME NEW k \in 1 .. n PROVE steps[(n - k) + 1] = OpProgram(Nth(p, to, k), to, m.atomic)
      <4>1. (n - k) + 1 \in DOMAIN m.ops
        BY <1>1
      <4>2. Nth(p, to, k) = m.ops[(n - k) + 1]
        BY <2>2 DEF Nth
      <4> QED BY <4>1, <4>2
    <3> HIDE DEF steps
    <3>4. Reverse(steps) = [k \in 1 .. n |-> OpProgram(Nth(p, to, k), to, m.atomic)]
      BY <3>2, <3>3
    <3> QED BY <2>2, <3>4
  <2> QED BY <2>1, <2>2
<1>7. s \in Seq(Seq(Stmts)) /\ Len(s) = n
  <2> DEFINE t == [k \in 1 .. n |-> OpProgram(Nth(p, to, k), to, m.atomic)]
  <2>1. t \in Seq(Seq(Stmts)) /\ Len(t) = n
    BY <1>1, <1>5
  <2> HIDE DEF s, t
  <2> QED BY <1>6, <2>1 DEF t
<1>8. Leads(p, to, FlattenSeq(s), At(W, 0), At(W, n))
  <2>1. q \in [0 .. Len(s) -> Places]
    <3> HIDE DEF s
    <3> QED BY <1>1, <1>3, <1>7
  <2>2. ASSUME NEW i \in 1 .. Len(s) PROVE Leads(p, to, s[i], q[i - 1], q[i])
    <3>1. i \in 1 .. n /\ i - 1 \in 0 .. n /\ i \in 0 .. n
      <4> HIDE DEF s
      <4> QED BY <1>1, <1>7
    <3>2. q[i - 1] = At(W, i - 1) /\ q[i] = At(W, i)
      BY <3>1
    <3>3. s[i] = OpProgram(Nth(p, to, i), to, m.atomic)
      <4> HIDE DEF s
      <4> QED BY <1>6, <3>1
    <3> HIDE DEF s, q
    <3> QED BY <1>4, <3>1, <3>2, <3>3
  <2>3. Leads(p, to, FlattenSeq(s), q[0], q[Len(s)])
    <3> HIDE DEF s, q
    <3> QED BY <1>7, <2>1, <2>2, LeadsFlat
  <2>4. q[0] = At(W, 0) /\ q[Len(s)] = At(W, n)
    <3> HIDE DEF s
    <3> QED BY <1>1, <1>7
  <2> QED BY <2>3, <2>4
<1>9. OpsProgram(m, to) = FlattenSeq(s)
  BY DEF OpsProgram
<1>10. rec \in Stmts
  BY <1>1 DEF Stmts
<1>11. Leads(p, to, <<rec>>, At(W, n), At(W, n + 1))
  <2>1. Goes(p, to, At(W, n), rec, At(W, n + 1))
    BY DEF Goes, GoesRecord
  <2>2. At(W, n) \in Places /\ At(W, n + 1) \in Places
    BY <1>1, <1>3
  <2> HIDE DEF rec
  <2> QED BY <1>10, <2>1, <2>2, LeadsOne
<1> DEFINE body == OpsProgram(m, to) \o <<rec>>
<1>12. Leads(p, to, body, At(W, 0), At(W, n + 1))
  <2> HIDE DEF rec, s, m
  <2> QED BY <1>8, <1>9, <1>11, LeadsJoin
<1>13. OpsProgram(m, to) \in Seq(Stmts) /\ Append(OpsProgram(m, to), rec) = body /\ body # <<>>
  <2>1. OpsProgram(m, to) \in Seq(Stmts)
    BY <1>8, <1>9 DEF Leads
  <2> HIDE DEF rec, m
  <2> QED BY <1>10, <2>1
<1>14. CASE m.atomic
  <2>1. Program(m.name, to) = (<<Stmt("BEGIN")>> \o body) \o <<Stmt("COMMIT")>>
    <3>1. Program(m.name, to) = <<Stmt("BEGIN")>> \o Append(OpsProgram(m, to), rec) \o <<Stmt("COMMIT")>>
      BY <1>1, <1>14 DEF Program
    <3> HIDE DEF body, rec, m
    <3> QED BY <1>13, <3>1
  <2>2. W = "in" /\ At("out", 0) \in Places /\ At("in", 0) \in Places
        /\ At("in", n + 1) \in Places /\ End(p) \in Places
    BY <1>1, <1>2, <1>14, AtPlace DEF Modes, End
  <2>3. Goes(p, to, At("out", 0), Stmt("BEGIN"), At("in", 0))
    BY AtPlace DEF Goes, GoesEngine, Modes
  <2>4. Goes(p, to, At("in", n + 1), Stmt("COMMIT"), End(p))
    BY <1>1, AtPlace DEF Goes, GoesEngine, Modes, End
  <2>5. Leads(p, to, <<Stmt("BEGIN")>>, At("out", 0), At("in", 0))
    BY <2>2, <2>3, StmtKinds, LeadsOne
  <2>6. Leads(p, to, <<Stmt("COMMIT")>>, At("in", n + 1), End(p))
    BY <2>2, <2>4, StmtKinds, LeadsOne
  <2>7. Leads(p, to, <<Stmt("BEGIN")>> \o body, At("out", 0), At("in", n + 1))
    <3> HIDE DEF body
    <3> QED BY <1>12, <2>2, <2>5, LeadsJoin
  <2>8. Leads(p, to, (<<Stmt("BEGIN")>> \o body) \o <<Stmt("COMMIT")>>, At("out", 0), End(p))
    <3> HIDE DEF body
    <3> QED BY <2>6, <2>7, LeadsJoin
  <2>9. (<<Stmt("BEGIN")>> \o body) \o <<Stmt("COMMIT")>> # <<>>
    <3>1. body \in Seq(Stmts)
      BY <1>12 DEF Leads
    <3> HIDE DEF body
    <3>2. <<Stmt("BEGIN")>> \in Seq(Stmts) /\ <<Stmt("COMMIT")>> \in Seq(Stmts)
          /\ Len(<<Stmt("BEGIN")>>) = 1 /\ Len(<<Stmt("COMMIT")>>) = 1
      <4>1. Stmt("BEGIN") \in Stmts /\ Stmt("COMMIT") \in Stmts
        BY StmtKinds
      <4> QED BY <4>1
    <3>3. Len((<<Stmt("BEGIN")>> \o body) \o <<Stmt("COMMIT")>>) = (1 + Len(body)) + 1
      BY <3>1, <3>2
    <3>4. Len(body) \in Nat
      BY <3>1
    <3> QED BY <3>3, <3>4
  <2> QED BY <2>1, <2>8, <2>9
<1>15. CASE ~m.atomic
  <2>1. Program(m.name, to) = body /\ W = "out" /\ End(p) = At("out", n + 1)
    <3>1. Program(m.name, to) = Append(OpsProgram(m, to), rec)
      BY <1>1, <1>15 DEF Program
    <3> QED BY <1>2, <1>13, <1>15, <3>1 DEF End
  <2> HIDE DEF body, W
  <2> QED BY <1>12, <1>13, <2>1
<1> QED BY <1>1, <1>14, <1>15

-----------------------------------------------------------------------------
(* What a statement does to the data. *)

LEMMA StateFacts ==
  ASSUME NEW v \in State
  PROVE  /\ v.has \in [Things -> Int] /\ v.rows \in Seq(Names)
         /\ v.children \in BOOLEAN /\ v.temp \in BOOLEAN
BY DEF State

LEMMA ViewFacts ==
  ASSUME DataInv
  PROVE  View \in State /\ FirstFiles(View.rows) /\ View.children
BY DEF DataInv, View

LEMMA HasFacts ==
  ASSUME DataInv, NEW x \in Things, NEW n \in Int
  PROVE  /\ Has(x, n) \in State /\ Has(x, n).rows = View.rows /\ Has(x, n).children = View.children
         /\ Has(x, n).has[x] = n
         /\ \A y \in Things : y # x => Has(x, n).has[y] = View.has[y]
<1>1. View \in State
  BY ViewFacts
<1> QED BY <1>1 DEF Has, State

\* A view of the database that may be left behind.
Sound(v) == v \in State /\ FirstFiles(v.rows) /\ v.children

LEMMA LeavesData ==
  ASSUME DataInv, NEW v, Sound(v), NEW ddl \in BOOLEAN, Leaves(v, ddl),
         Atomically /\ ~(open /\ (TransactionalDDL \/ ~ddl)) => Whole(v)
  PROVE  DataInv' /\ View' = v /\ (open' => tx' = v /\ UNCHANGED db)
<1>1. CASE open /\ (TransactionalDDL \/ ~ddl)
  <2>1. tx' = v /\ UNCHANGED <<db, open>>
    BY <1>1 DEF Leaves
  <2> QED BY <1>1, <2>1 DEF DataInv, View, Sound, FirstFiles, Whole, WholeBut, Atomically
<1>2. CASE ~(open /\ (TransactionalDDL \/ ~ddl))
  <2>1. db' = v /\ open' = FALSE /\ UNCHANGED tx
    BY <1>2 DEF Leaves
  <2> QED BY <1>2, <2>1 DEF DataInv, View, Sound, FirstFiles, Whole, WholeBut, Atomically
<1> QED BY <1>1, <1>2

\* A thing that an operation of file p touches is none of another, plain file's.
LEMMA Apart ==
  ASSUME TouchedOnce, NEW p \in DOMAIN Files, NEW to \in {0, 1}, NEW k \in 1 .. Size(p),
         NEW i \in DOMAIN Files, Plain(i), i # p, NEW j \in DOMAIN Files[i].ops
  PROVE  Files[i].ops[j].on # Nth(p, to, k).on
<1>1. PICK l \in DOMAIN Files[p].ops : Nth(p, to, k) = Files[p].ops[l]
  BY NthFacts
<1> QED BY <1>1 DEF TouchedOnce

\* Nor of another operation of its own, if it is plain.
LEMMA ApartNth ==
  ASSUME TouchedOnce, NEW p \in DOMAIN Files, Plain(p), NEW to \in {0, 1},
         NEW k \in 1 .. Size(p), NEW j \in 1 .. Size(p), j # k
  PROVE  Nth(p, to, j).on # Nth(p, to, k).on
<1>1. Size(p) \in Nat /\ DOMAIN Files[p].ops = 1 .. Size(p)
  BY FileFacts
<1>2. CASE to = 1
  BY <1>1, <1>2 DEF Nth, TouchedOnce
<1>3. CASE to # 1
  <2>1. (Size(p) - k) + 1 \in 1 .. Size(p) /\ (Size(p) - j) + 1 \in 1 .. Size(p)
        /\ (Size(p) - j) + 1 # (Size(p) - k) + 1
    BY <1>1
  <2> QED BY <1>1, <1>3, <2>1 DEF Nth, TouchedOnce
<1> QED BY <1>2, <1>3

\* Where the runner is, and where the statement took it.
Here(p, to, a) == Conn(a.m) /\ Recorded(p, to, a) /\ (Atomically => Done(p, to, a))
There(p, to, c) == DataInv' /\ Recorded(p, to, c)' /\ (Atomically => Done(p, to, c)')

LEMMA ChangeData ==
  ASSUME DataInv, open \in BOOLEAN, NEW p \in DOMAIN Files, NEW to \in {0, 1}, NEW a \in Places,
         NEW c \in Places, NEW s, Here(p, to, a), GoesChange(p, to, a, s, c), Ran(s)
  PROVE  There(p, to, c)
<1> DEFINE o == Nth(p, to, a.k + 1)
<1>0. /\ Size(p) \in Nat /\ a.k \in Nat /\ a.k < Size(p) /\ a.k + 1 \in 1 .. Size(p)
      /\ c = At(WorkMode(p), a.k + 1) /\ c.k = a.k + 1 /\ c.m = a.m /\ a.m = WorkMode(p)
      /\ s = Change(o, to)
  <2>1. Size(p) \in Nat /\ a.k \in Nat
    BY FileFacts DEF Places
  <2> QED BY <2>1 DEF GoesChange, At
<1>1. o \in [kind : Kinds, on : Things]
  BY <1>0, NthFacts
<1>2. s.op = o.kind /\ s.on = o.on /\ s.to = to /\ s.op \in Kinds /\ s.on \in Things
  BY <1>0, <1>1 DEF Change
<1>3. View \in State /\ FirstFiles(View.rows) /\ View.children /\ View.has[s.on] \in Int
  BY <1>2, ViewFacts, StateFacts
<1>4. RunChange(s)
  BY <1>2 DEF Ran, RunSwap, RunPragma, RunRaw, RunEngine, Kinds
<1> DEFINE new == IF s.op = "python"
                  THEN IF to = 1 THEN View.has[s.on] + 1 ELSE View.has[s.on] - 1 ELSE to
<1>5. new \in Int
  BY <1>3
<1>6. \E ddl \in BOOLEAN : Leaves(Has(s.on, new), ddl)
  BY <1>2, <1>4 DEF RunChange, Kinds
<1> DEFINE v == Has(s.on, new)
<1>7. /\ v \in State /\ v.rows = View.rows /\ v.children = View.children /\ v.has[s.on] = new
      /\ \A y \in Things : y # s.on => v.has[y] = View.has[y]
  BY <1>2, <1>5, HasFacts
<1>8. Sound(v)
  BY <1>3, <1>7 DEF Sound
<1> HIDE DEF v
<1>9. PICK ddl \in BOOLEAN : Leaves(v, ddl)
  BY <1>6 DEF v
<1>10. ASSUME Atomically
       PROVE  \A i \in DOMAIN Files : Plain(i) /\ i # p => \A j \in DOMAIN Files[i].ops :
                /\ v.has[Files[i].ops[j].on] = View.has[Files[i].ops[j].on]
  <2> SUFFICES ASSUME NEW i \in DOMAIN Files, Plain(i), i # p, NEW j \in DOMAIN Files[i].ops
               PROVE  v.has[Files[i].ops[j].on] = View.has[Files[i].ops[j].on]
    OBVIOUS
  <2>1. Files[i].ops[j].on # s.on
    BY <1>0, <1>2, <1>10, Apart DEF Atomically
  <2>2. Files[i].ops[j].on \in Things
    <3>1. Files[i].ops \in Seq([kind : Kinds, on : Things])
      BY FileFacts
    <3>2. Files[i].ops[j] \in [kind : Kinds, on : Things]
      BY <3>1, Element
    <3> QED BY <3>2
  <2> QED BY <1>7, <2>1, <2>2
<1>11. CASE Files[p].atomic
  <2>1. a.m = "in" /\ (Backend # "mysql" => open)
    BY <1>0, <1>11 DEF WorkMode, Here, Conn
  <2>2. Atomically => open /\ (TransactionalDDL \/ ~ddl)
    BY <2>1 DEF Atomically, TransactionalDDL
  <2>3. DataInv' /\ View' = v /\ (open' => tx' = v /\ UNCHANGED db)
    BY <1>8, <1>9, <2>2, LeavesData
  <2>4. Recorded(p, to, c)'
    <3>1. Len(View.rows) = IF (to = 1) = (a.k = Size(p) + 1) THEN p ELSE p - 1
      BY DEF Here, Recorded
    <3>2. (a.k = Size(p) + 1) = (c.k = Size(p) + 1)
      BY <1>0
    <3> QED BY <1>7, <2>3, <3>1, <3>2 DEF Recorded
  <2>5. ASSUME Atomically PROVE Done(p, to, c)'
    <3>1. open /\ tx' = v /\ db' = db /\ View = tx /\ open'
      BY <1>9, <2>2, <2>5 DEF Leaves, View
    <3>2. Done(p, to, a)
      BY <2>5 DEF Here
    <3>3. c.k <= Size(p) => Len(tx'.rows) = Len(db'.rows)
      BY <1>0, <1>7, <3>1, <3>2 DEF Done
    <3>4. WholeBut(tx', p)
      <4> SUFFICES ASSUME NEW i \in DOMAIN Files, Plain(i), i # p, NEW j \in DOMAIN Files[i].ops
                   PROVE  tx'.has[Files[i].ops[j].on] = IF i <= Len(tx'.rows) THEN 1 ELSE 0
        BY DEF WholeBut
      <4>1. tx.has[Files[i].ops[j].on] = IF i <= Len(tx.rows) THEN 1 ELSE 0
        BY <3>1, <3>2 DEF Done, WholeBut
      <4> QED BY <1>7, <1>10, <2>5, <3>1, <4>1
    <3>5. ASSUME Plain(p) PROVE Partly(tx', p, to, c.k)
      <4> SUFFICES ASSUME NEW j \in 1 .. Size(p)
                   PROVE  tx'.has[Nth(p, to, j).on] = IF j <= a.k + 1 THEN to ELSE 1 - to
        BY <1>0 DEF Partly
      <4>1. \A i \in 1 .. Size(p) : tx.has[Nth(p, to, i).on] = IF i <= a.k THEN to ELSE 1 - to
        BY <3>1, <3>2, <3>5 DEF Done, Partly
      <4>2. CASE j = a.k + 1
        <5>1. tx.has[s.on] = 1 - to
          BY <1>0, <1>2, <4>1
        <5>2. new = to
          BY <1>2, <3>1, <5>1
        <5>3. Nth(p, to, j).on = s.on
          BY <1>2, <4>2
        <5> QED BY <1>0, <1>7, <3>1, <4>2, <5>2, <5>3
      <4>3. CASE j # a.k + 1
        <5>1. Nth(p, to, j).on # s.on
          BY <1>0, <1>2, <2>5, <3>5, <4>3, ApartNth DEF Atomically
        <5>2. Nth(p, to, j).on \in Things
          BY NthFacts
        <5>3. tx'.has[Nth(p, to, j).on] = tx.has[Nth(p, to, j).on]
          BY <1>7, <3>1, <5>1, <5>2
        <5> QED BY <1>0, <4>1, <4>3, <5>3
      <4> QED BY <4>2, <4>3
    <3> QED BY <3>1, <3>3, <3>4, <3>5 DEF Done, WholeBut, Partly
  <2> QED BY <2>3, <2>4, <2>5 DEF There
<1>12. CASE ~Files[p].atomic
  <2>1. ~open /\ ~Plain(p)
    BY <1>0, <1>12 DEF WorkMode, Here, Conn, Plain
  <2>2. Atomically => Whole(v)
    <3> SUFFICES ASSUME Atomically, NEW i \in DOMAIN Files, Plain(i), i # 0,
                        NEW j \in DOMAIN Files[i].ops
                 PROVE  v.has[Files[i].ops[j].on] = IF i <= Len(v.rows) THEN 1 ELSE 0
      BY DEF Whole, WholeBut
    <3>1. i # p /\ View = db
      BY <2>1 DEF View
    <3>2. db.has[Files[i].ops[j].on] = IF i <= Len(db.rows) THEN 1 ELSE 0
      BY DEF DataInv, Whole, WholeBut
    <3> QED BY <1>7, <1>10, <3>1, <3>2
  <2>3. DataInv' /\ View' = v
    BY <1>8, <1>9, <2>2, LeavesData
  <2>4. open' = FALSE
    BY <1>9, <2>1 DEF Leaves
  <2>5. Recorded(p, to, c)'
    <3>1. Len(View.rows) = IF (to = 1) = (a.k = Size(p) + 1) THEN p ELSE p - 1
      BY DEF Here, Recorded
    <3>2. (a.k = Size(p) + 1) = (c.k = Size(p) + 1)
      BY <1>0
    <3> QED BY <1>7, <2>3, <3>1, <3>2 DEF Recorded
  <2> QED BY <2>3, <2>4, <2>5 DEF There, Done
<1> QED BY <1>11, <1>12

\* DELETE FROM orm_migrations of the last one recorded.
LEMMA Unrecord ==
  ASSUME NEW rows \in Seq(Names), FirstFiles(rows), NEW p \in DOMAIN Files, Len(rows) = p
  PROVE  LET left == Kept(rows, Names \ {Files[p].name})
         IN  left \in Seq(Names) /\ FirstFiles(left) /\ Len(left) = p - 1
<1> DEFINE S == Names \ {Files[p].name}
<1>1. p \in Nat \ {0} /\ p <= Len(Files) /\ Len(Files) \in Nat /\ DOMAIN Files = 1 .. Len(Files)
  <2>1. p \in 1 .. Len(Files) /\ Len(Files) \in Nat
    BY FileFacts
  <2>2. DOMAIN Files = 1 .. Len(Files)
    BY FilesAssumption, Element
  <2> QED BY <2>1, <2>2
<1>2. ASSUME NEW i \in 1 .. Len(rows) PROVE rows[i] \in S <=> 0 < i /\ i <= p - 1
  <2>1. rows[i] = Files[i].name /\ i \in DOMAIN Files /\ rows[i] \in Names
    BY <1>1 DEF FirstFiles
  <2>2. rows[i] = Files[p].name <=> i = p
    BY <2>1, FilesAssumption
  <2> QED BY <1>1, <2>1, <2>2
<1>3. /\ Kept(rows, S) \in Seq(Names) /\ Len(Kept(rows, S)) = (p - 1) - 0
      /\ \A j \in 1 .. (p - 1) - 0 : Kept(rows, S)[j] = rows[0 + j]
  <2>1. 0 \in Nat /\ p - 1 \in Nat /\ 0 <= p - 1 /\ p - 1 <= Len(rows)
    BY <1>1
  <2>2. \A i \in 1 .. Len(rows) : rows[i] \in S <=> 0 < i /\ i <= p - 1
    BY <1>2
  <2> DEFINE a == 0
             b == p - 1
  <2> HIDE DEF S, a, b
  <2>3. a \in Nat /\ b \in Nat /\ InRange(rows, S, a, b)
    BY <2>1, <2>2 DEF a, b, InRange
  <2>4. Kept(rows, S) \in Seq(Names) /\ IsRange(Kept(rows, S), rows, a, b)
    BY <2>3, KeptRange
  <2> QED BY <2>4 DEF a, b, IsRange
<1>4. (p - 1) - 0 = p - 1
  BY <1>1
<1> DEFINE left == Kept(rows, S)
<1> HIDE DEF left
<1>5. left \in Seq(Names) /\ Len(left) = p - 1 /\ \A j \in 1 .. p - 1 : left[j] = rows[0 + j]
  BY <1>3, <1>4 DEF left
<1>6. FirstFiles(left)
  <2> SUFFICES ASSUME NEW j \in DOMAIN left PROVE left[j] = Files[j].name
    BY <1>1, <1>5 DEF FirstFiles
  <2>1. j \in 1 .. p - 1 /\ 0 + j = j /\ j \in DOMAIN rows
    BY <1>1, <1>5
  <2> QED BY <1>5, <2>1 DEF FirstFiles
<1> QED BY <1>5, <1>6 DEF left

LEMMA RecordData ==
  ASSUME DataInv, open \in BOOLEAN, NEW p \in DOMAIN Files, NEW to \in {0, 1}, NEW a \in Places,
         NEW c \in Places, NEW s, Here(p, to, a), GoesRecord(p, to, a, s, c), Ran(s)
  PROVE  There(p, to, c)
<1>0. /\ Size(p) \in Nat /\ a.k = Size(p) /\ a.m = WorkMode(p) /\ c.k = Size(p) + 1 /\ c.m = a.m
      /\ s.op = "record" /\ s.on = Files[p].name /\ s.to = to /\ s.on \in Names
      /\ p \in 1 .. Len(Files) /\ Len(Files) \in Nat
  BY FileFacts DEF GoesRecord, At
<1>1. Sound(View) /\ View.rows \in Seq(Names)
  BY ViewFacts, StateFacts DEF Sound
<1>2. RunChange(s)
  BY <1>0 DEF Ran, RunSwap, RunPragma, RunRaw, RunEngine
<1> DEFINE rows == IF to = 1 THEN Append(View.rows, s.on) ELSE Kept(View.rows, Names \ {s.on})
           v == [View EXCEPT !.rows = rows]
<1>3. Leaves(v, FALSE)
  BY <1>0, <1>2 DEF RunChange
<1>4. Len(View.rows) = IF to = 1 THEN p - 1 ELSE p
  BY <1>0 DEF Here, Recorded
<1>5. rows \in Seq(Names) /\ FirstFiles(rows) /\ Len(rows) = IF to = 1 THEN p ELSE p - 1
  <2>1. CASE to = 1
    <3>1. rows = Append(View.rows, s.on)
      BY <2>1
    <3>2. rows \in Seq(Names) /\ Len(rows) = p
      BY <1>0, <1>1, <1>4, <2>1, <3>1
    <3>3. ASSUME NEW i \in DOMAIN rows PROVE rows[i] = Files[i].name
      <4>1. i \in 1 .. p
        BY <1>0, <3>2
      <4>2. CASE i = p
        BY <1>0, <1>1, <1>4, <2>1, <3>1, <4>2
      <4>3. CASE i # p
        <5>1. i \in 1 .. Len(View.rows)
          BY <1>0, <1>4, <2>1, <4>1, <4>3
        <5>2. Append(View.rows, s.on)[i] = View.rows[i]
          <6> HIDE DEF rows
          <6> QED BY <1>0, <1>1, <5>1
        <5>3. View.rows[i] = Files[i].name
          BY <1>1, <5>1 DEF Sound, FirstFiles
        <5> QED BY <3>1, <5>2, <5>3
      <4> QED BY <4>2, <4>3
    <3> QED BY <1>0, <2>1, <3>2, <3>3 DEF FirstFiles
  <2>2. CASE to # 1
    <3>1. rows = Kept(View.rows, Names \ {Files[p].name})
      BY <1>0, <2>2
    <3>2. Len(View.rows) = p
      BY <1>4, <2>2
    <3> HIDE DEF rows
    <3> QED BY <1>1, <2>2, <3>1, <3>2, Unrecord DEF Sound
  <2> QED BY <2>1, <2>2
<1> HIDE DEF rows
<1>6. v \in State /\ v.rows = rows /\ v.children = View.children /\ v.has = View.has
  BY <1>1, <1>5 DEF Sound, State
<1>7. Sound(v)
  BY <1>1, <1>5, <1>6 DEF Sound
<1> HIDE DEF v
<1>8. ASSUME NEW i \in DOMAIN Files, i # p PROVE i <= Len(v.rows) <=> i <= Len(View.rows)
  <2>1. i \in 1 .. Len(Files)
    BY FileFacts
  <2>2. Len(v.rows) = Len(rows)
    BY <1>6
  <2>3. CASE to = 1
    <3>1. Len(rows) = p /\ Len(View.rows) = p - 1
      BY <1>4, <1>5, <2>3
    <3> QED BY <1>0, <1>8, <2>1, <2>2, <3>1
  <2>4. CASE to # 1
    <3>1. Len(rows) = p - 1 /\ Len(View.rows) = p
      BY <1>4, <1>5, <2>4
    <3> QED BY <1>0, <1>8, <2>1, <2>2, <3>1
  <2> QED BY <2>3, <2>4
<1>9. ASSUME WholeBut(View, p) PROVE WholeBut(v, p)
  BY <1>6, <1>8, <1>9 DEF WholeBut
<1>10. ASSUME Atomically, ~open PROVE Whole(v)
  <2>1. View = db /\ Whole(db)
    BY <1>10 DEF View, DataInv
  <2>2. ~Plain(p)
    BY <1>0, <1>10 DEF Here, Conn, WorkMode, Plain, Atomically
  <2>3. \A i \in DOMAIN Files : i # 0
    BY FileFacts
  <2>4. WholeBut(v, p)
    BY <1>9, <2>1, <2>3 DEF Whole, WholeBut
  <2> QED BY <2>2, <2>4 DEF Whole, WholeBut
<1>11. DataInv' /\ View' = v /\ (open' => tx' = v /\ UNCHANGED db)
  <2>1. Atomically /\ ~(open /\ (TransactionalDDL \/ ~FALSE)) => Whole(v)
    BY <1>10
  <2> QED BY <1>3, <1>7, <2>1, LeavesData
<1>12. Recorded(p, to, c)'
  <2>1. (c.k = Size(p) + 1) = TRUE
    BY <1>0
  <2>2. Len(v.rows) = IF (to = 1) = TRUE THEN p ELSE p - 1
    BY <1>5, <1>6
  <2> QED BY <1>11, <2>1, <2>2 DEF Recorded
<1>13. ASSUME Atomically PROVE Done(p, to, c)'
  <2> SUFFICES ASSUME open' PROVE WholeBut(tx', p) /\ (Plain(p) => Partly(tx', p, to, c.k))
    BY <1>0 DEF Done, WholeBut, Partly
  <2>1. open
    BY <1>3 DEF Leaves
  <2>2. View = tx /\ tx' = v /\ Done(p, to, a)
    BY <1>11, <1>13, <2>1 DEF View, Here
  <2>3. WholeBut(v, p)
    BY <1>9, <2>1, <2>2 DEF Done
  <2>4. Plain(p) => Partly(v, p, to, c.k)
    BY <1>0, <1>6, <2>1, <2>2 DEF Done, Partly
  <2> QED BY <2>2, <2>3, <2>4
<1> QED BY <1>11, <1>12, <1>13 DEF There

LEMMA EngineData ==
  ASSUME DataInv, open \in BOOLEAN, NEW p \in DOMAIN Files, NEW to \in {0, 1}, NEW a \in Places,
         NEW c \in Places, NEW s, Here(p, to, a), GoesEngine(p, a, s, c), Ran(s)
  PROVE  There(p, to, c)
<1>0. Size(p) \in Nat /\ a.k \in Nat /\ c.k = a.k /\ p \in 1 .. Len(Files) /\ Len(Files) \in Nat
  BY FileFacts DEF GoesEngine, Places
<1>1. Len(View.rows) = IF (to = 1) = (a.k = Size(p) + 1) THEN p ELSE p - 1
  BY DEF Here, Recorded
<1>2. \A i \in DOMAIN Files : i # 0
  BY FileFacts
<1>3. CASE s = Stmt("BEGIN") /\ a.m = "out" /\ c.m = "in" /\ (Plain(p) => a.k = 0)
  <2>1. s.op = "BEGIN"
    BY <1>3 DEF Stmt
  <2>2. tx' = db /\ open' = TRUE /\ db' = db
    BY <2>1 DEF Ran, RunChange, RunSwap, RunPragma, RunRaw, RunEngine
  <2>3. ~open /\ View = db
    BY <1>3 DEF Here, Conn, View
  <2>4. DataInv' /\ View' = View
    BY <2>2, <2>3 DEF DataInv, View, FirstFiles, Whole, WholeBut, Atomically
  <2>5. Recorded(p, to, c)'
    BY <1>0, <1>1, <2>4 DEF Recorded
  <2>6. ASSUME Atomically PROVE Done(p, to, c)'
    <3>1. Whole(db)
      BY <2>6 DEF DataInv
    <3>2. WholeBut(tx', p)
      BY <1>2, <2>2, <3>1 DEF Whole, WholeBut
    <3>3. ASSUME Plain(p) PROVE Partly(tx', p, to, c.k)
      <4> SUFFICES ASSUME NEW j \in 1 .. Size(p)
                   PROVE  tx'.has[Nth(p, to, j).on] = IF j <= c.k THEN to ELSE 1 - to
        BY DEF Partly
      <4>1. PICK l \in DOMAIN Files[p].ops : Nth(p, to, j) = Files[p].ops[l]
        BY NthFacts
      <4>2. db.has[Nth(p, to, j).on] = IF p <= Len(db.rows) THEN 1 ELSE 0
        BY <1>2, <3>1, <3>3, <4>1 DEF Whole, WholeBut
      <4>3. ~(j <= c.k) /\ a.k # Size(p) + 1
        BY <1>0, <1>3, <3>3
      <4>4. Len(db.rows) = IF to = 1 THEN p - 1 ELSE p
        BY <1>1, <2>3, <4>3
      <4>5. db.has[Nth(p, to, j).on] = 1 - to
        BY <1>0, <4>2, <4>4
      <4> QED BY <2>2, <4>3, <4>5
    <3> QED BY <2>2, <3>2, <3>3 DEF Done, WholeBut, Partly
  <2> QED BY <2>4, <2>5, <2>6 DEF There
<1>4. CASE s = Stmt("COMMIT") /\ a.m = "in" /\ c.m = "out" /\ (Plain(p) => a.k = Size(p) + 1)
  <2>1. s.op = "COMMIT"
    BY <1>4 DEF Stmt
  <2>2. db' = View /\ open' = FALSE /\ tx' = tx
    BY <2>1 DEF Ran, RunChange, RunSwap, RunPragma, RunRaw, RunEngine
  <2>3. Atomically => Whole(View)
    <3> SUFFICES ASSUME Atomically, NEW i \in DOMAIN Files, Plain(i), i # 0,
                        NEW j \in DOMAIN Files[i].ops
                 PROVE  View.has[Files[i].ops[j].on] = IF i <= Len(View.rows) THEN 1 ELSE 0
      BY DEF Whole, WholeBut
    <3>1. open /\ View = tx /\ Done(p, to, a)
      BY <1>4 DEF Here, Conn, View, Atomically
    <3>2. CASE i # p
      BY <3>1, <3>2 DEF Done, WholeBut
    <3>3. CASE i = p
      <4>1. a.k = Size(p) + 1 /\ Partly(tx, p, to, a.k)
        BY <1>4, <3>1, <3>3 DEF Done
      <4>2. DOMAIN Files[p].ops = 1 .. Size(p) /\ j \in 1 .. Size(p)
        BY <3>3, FileFacts
      <4>3. \E l \in 1 .. Size(p) : Nth(p, to, l) = Files[p].ops[j]
        <5>1. CASE to = 1
          BY <4>2, <5>1 DEF Nth
        <5>2. CASE to # 1
          <6>1. (Size(p) - j) + 1 \in 1 .. Size(p) /\ (Size(p) - ((Size(p) - j) + 1)) + 1 = j
            BY <1>0, <4>2
          <6>2. Nth(p, to, (Size(p) - j) + 1) = Files[p].ops[j]
            BY <5>2, <6>1 DEF Nth
          <6> QED BY <6>1, <6>2
        <5> QED BY <5>1, <5>2
      <4>4. PICK l \in 1 .. Size(p) : Nth(p, to, l) = Files[p].ops[j]
        BY <4>3
      <4>5. l <= a.k
        BY <1>0, <4>1
      <4>6. tx.has[Nth(p, to, l).on] = to
        BY <4>1, <4>5 DEF Partly
      <4>7. tx.has[Files[p].ops[j].on] = to
        BY <4>4, <4>6
      <4>8. Len(tx.rows) = IF to = 1 THEN p ELSE p - 1
        BY <1>1, <3>1, <4>1
      <4> QED BY <1>0, <3>1, <3>3, <4>7, <4>8
    <3> QED BY <3>2, <3>3
  <2>4. DataInv' /\ View' = View
    BY <2>2, <2>3, ViewFacts DEF DataInv, View, FirstFiles, Whole, WholeBut, Atomically
  <2>5. Recorded(p, to, c)'
    BY <1>0, <1>1, <2>4 DEF Recorded
  <2> QED BY <2>2, <2>4, <2>5 DEF There, Done
<1> QED BY <1>3, <1>4 DEF GoesEngine

LEMMA RawData ==
  ASSUME DataInv, open \in BOOLEAN, NEW p \in DOMAIN Files, NEW to \in {0, 1}, NEW a \in Places,
         NEW c \in Places, NEW s, Here(p, to, a), GoesRaw(p, to, a, s, c), Ran(s)
  PROVE  There(p, to, c)
<1>0. /\ Size(p) \in Nat /\ a.k \in Nat /\ a.k < Size(p) /\ c.k \in {a.k, a.k + 1}
      /\ Backend = "sqlite" /\ ~Plain(p) /\ a.k + 1 \in 1 .. Size(p)
  <2>1. Size(p) \in Nat /\ a.k \in Nat
    BY FileFacts DEF Places
  <2>2. Backend = "sqlite" /\ ~Plain(p) /\ a.k < Size(p) /\ c.k = IF a.m = "on" THEN a.k + 1 ELSE a.k
    BY DEF GoesRaw
  <2> QED BY <2>1, <2>2
<1>1. Len(View.rows) = IF (to = 1) = (a.k = Size(p) + 1) THEN p ELSE p - 1
  BY DEF Here, Recorded
<1>2. \A i \in DOMAIN Files : i # 0
  BY FileFacts
<1>3. SUFFICES /\ DataInv' /\ View'.rows = View.rows
               /\ Atomically => (open' => Len(tx'.rows) = Len(db'.rows) /\ WholeBut(tx', p))
  <2>1. a.k # Size(p) + 1 /\ c.k # Size(p) + 1
    BY <1>0
  <2>2. Recorded(p, to, c)'
    BY <1>1, <1>3, <2>1 DEF Recorded
  <2>3. Atomically => Done(p, to, c)'
    BY <1>0, <1>3 DEF Done, WholeBut
  <2> QED BY <1>3, <2>2, <2>3 DEF There
<1>4. CASE s = Stmt("COMMIT raw") /\ a.m \in {"in", "swapped"}
  <2>1. s.op = "COMMIT raw"
    BY <1>4 DEF Stmt
  <2>2. db' = tx /\ open' = FALSE /\ tx' = tx
    BY <2>1 DEF Ran, RunChange, RunSwap, RunPragma, RunRaw, RunEngine
  <2>3. open
    BY <1>0, <1>4 DEF Here, Conn
  <2>4. Atomically => Whole(tx)
    <3>1. Atomically => WholeBut(tx, p)
      BY <2>3 DEF Here, Done
    <3> QED BY <1>0, <3>1 DEF Whole, WholeBut
  <2>5. DataInv' /\ View' = View
    BY <2>2, <2>3, <2>4 DEF DataInv, View, FirstFiles, Whole, WholeBut, Atomically
  <2> QED BY <2>2, <2>5
<1>5. CASE \E f \in BOOLEAN : s = [op |-> "BEGIN raw", off |-> f]
  <2>1. s.op = "BEGIN raw"
    <3>1. PICK f \in BOOLEAN : s = [op |-> "BEGIN raw", off |-> f]
      BY <1>5
    <3> QED BY <3>1
  <2>2. tx' = db /\ open' = TRUE /\ db' = db /\ ~open
    BY <2>1 DEF Ran, RunChange, RunSwap, RunPragma, RunRaw, RunEngine, Accepts
  <2>3. DataInv' /\ View' = View
    BY <2>2 DEF DataInv, View, FirstFiles, Whole, WholeBut, Atomically
  <2>4. Atomically => WholeBut(tx', p)
    BY <1>2, <2>2 DEF DataInv, Whole, WholeBut
  <2> QED BY <2>2, <2>3, <2>4
<1>6. CASE s \in {Stmt("OFF"), Stmt("ON")} /\ a.m \in {"paused", "done"}
  <2>1. s.op \in {"OFF", "ON"}
    BY <1>6 DEF Stmt
  <2>2. UNCHANGED <<db, tx, open>>
    BY <2>1 DEF Ran, RunChange, RunSwap, RunPragma, RunRaw, RunEngine
  <2>3. ~open
    BY <1>6 DEF Here, Conn
  <2>4. DataInv' /\ View' = View
    BY <2>2 DEF DataInv, View, FirstFiles, Whole, WholeBut, Atomically
  <2> QED BY <2>2, <2>3, <2>4
<1>7. CASE /\ a.m \in {"new", "copied", "dropped"}
           /\ \/ s = Stmt("copy") \/ s = Stmt("drop")
              \/ s = [op |-> "swap", on |-> Nth(p, to, a.k + 1).on, to |-> to]
  <2>1. s.op \in {"copy", "drop", "swap"}
    BY <1>7 DEF Stmt
  <2>2. open /\ ~fk /\ View = tx /\ TransactionalDDL
    BY <1>0, <1>7 DEF Here, Conn, View, TransactionalDDL
  <2>3. RunSwap(s)
    BY <2>1 DEF Ran, RunChange, RunPragma, RunRaw, RunEngine
  <2>4. View \in State /\ FirstFiles(View.rows) /\ View.children
    BY ViewFacts
  <2>5. \E v : /\ Leaves(v, TRUE) /\ Sound(v) /\ v.rows = View.rows
               /\ Atomically => \A i \in DOMAIN Files : Plain(i) /\ i # p =>
                    \A j \in DOMAIN Files[i].ops :
                      v.has[Files[i].ops[j].on] = View.has[Files[i].ops[j].on]
    <3>1. CASE s.op = "copy"
      <4> DEFINE v == [View EXCEPT !.temp = TRUE]
      <4>1. Leaves(v, TRUE)
        BY <2>3, <3>1 DEF RunSwap
      <4>2. v \in State /\ v.rows = View.rows /\ v.children = View.children /\ v.has = View.has
        BY <2>4 DEF State
      <4> QED BY <2>4, <4>1, <4>2 DEF Sound
    <3>2. CASE s.op = "drop"
      <4> DEFINE v == [View EXCEPT !.children = View.children /\ ~fk]
      <4>1. Leaves(v, TRUE)
        BY <2>3, <3>2 DEF RunSwap
      <4>2. v \in State /\ v.rows = View.rows /\ v.children /\ v.has = View.has
        BY <2>2, <2>4 DEF State
      <4> QED BY <2>4, <4>1, <4>2 DEF Sound
    <3>3. CASE s.op = "swap"
      <4>1. s.on = Nth(p, to, a.k + 1).on /\ s.to = to
        BY <1>7, <3>3 DEF Stmt
      <4>2. s.on \in Things
        BY <1>0, <4>1, NthFacts
      <4> DEFINE w == Has(s.on, s.to)
                 v == [w EXCEPT !.temp = FALSE]
      <4>3. Leaves(v, TRUE)
        BY <2>3, <3>3 DEF RunSwap
      <4>4. /\ w \in State /\ w.rows = View.rows /\ w.children = View.children
            /\ \A y \in Things : y # s.on => w.has[y] = View.has[y]
        BY <4>1, <4>2, HasFacts
      <4> HIDE DEF w
      <4>5. v \in State /\ v.rows = View.rows /\ v.children /\ v.has = w.has
        BY <2>4, <4>4 DEF State
      <4> HIDE DEF v
      <4>6. ASSUME Atomically, NEW i \in DOMAIN Files, Plain(i), i # p,
                   NEW j \in DOMAIN Files[i].ops
            PROVE  v.has[Files[i].ops[j].on] = View.has[Files[i].ops[j].on]
        <5>1. Files[i].ops[j].on # s.on
          BY <1>0, <4>1, <4>6, Apart DEF Atomically
        <5>2. Files[i].ops[j] \in [kind : Kinds, on : Things]
          BY FileFacts, Element
        <5> QED BY <4>4, <4>5, <5>1, <5>2
      <4> QED BY <2>4, <4>3, <4>5, <4>6 DEF Sound
    <3> QED BY <2>1, <3>1, <3>2, <3>3
  <2>6. PICK v : /\ Leaves(v, TRUE) /\ Sound(v) /\ v.rows = View.rows
                 /\ Atomically => \A i \in DOMAIN Files : Plain(i) /\ i # p =>
                      \A j \in DOMAIN Files[i].ops :
                        v.has[Files[i].ops[j].on] = View.has[Files[i].ops[j].on]
    BY <2>5
  <2>7. tx' = v /\ db' = db /\ open'
    BY <2>2, <2>6 DEF Leaves
  <2>8. DataInv' /\ View' = v
    <3>1. Atomically /\ ~(open /\ (TransactionalDDL \/ ~TRUE)) => Whole(v)
      BY <2>2
    <3> QED BY <2>6, <3>1, LeavesData
  <2>9. Atomically => Len(tx'.rows) = Len(db'.rows) /\ WholeBut(tx', p)
    <3> SUFFICES ASSUME Atomically PROVE Len(tx'.rows) = Len(db'.rows) /\ WholeBut(tx', p)
      OBVIOUS
    <3>1. Len(tx.rows) = Len(db.rows) /\ WholeBut(tx, p)
      BY <1>0, <2>2 DEF Here, Done
    <3> QED BY <2>2, <2>6, <2>7, <3>1 DEF WholeBut
  <2> QED BY <2>6, <2>7, <2>8, <2>9
<1> QED BY <1>4, <1>5, <1>6, <1>7 DEF GoesRaw

-----------------------------------------------------------------------------
(* What a statement does to the connection. *)

LEMMA LeavesOpen ==
  ASSUME open \in BOOLEAN, NEW v, NEW ddl \in BOOLEAN, Leaves(v, ddl)
  PROVE  /\ open' \in BOOLEAN /\ (~open => ~open')
         /\ open /\ TransactionalDDL => open'
BY DEF Leaves

LEMMA ChangeOpen ==
  ASSUME open \in BOOLEAN, NEW s, RunChange(s) \/ RunSwap(s)
  PROVE  /\ open' \in BOOLEAN /\ (~open => ~open') /\ (open /\ TransactionalDDL => open')
         /\ UNCHANGED <<pinned, fk>>
<1>1. \E v : \E ddl \in BOOLEAN : Leaves(v, ddl)
  <2>1. CASE RunChange(s)
    BY <2>1 DEF RunChange
  <2>2. CASE RunSwap(s)
    BY <2>2 DEF RunSwap
  <2> QED BY <2>1, <2>2
<1>2. UNCHANGED <<pinned, fk>>
  BY DEF RunChange, RunSwap
<1> QED BY <1>1, <1>2, LeavesOpen

LEMMA RanFlags ==
  ASSUME open \in BOOLEAN, pinned \in BOOLEAN, fk \in BOOLEAN, NEW s, Ran(s)
  PROVE  open' \in BOOLEAN /\ pinned' \in BOOLEAN /\ fk' \in BOOLEAN
<1>1. CASE RunChange(s) \/ RunSwap(s)
  BY <1>1, ChangeOpen
<1>2. CASE RunPragma(s)
  BY <1>2 DEF RunPragma
<1>3. CASE RunRaw(s)
  BY <1>3 DEF RunRaw
<1>4. CASE RunEngine(s)
  BY <1>4 DEF RunEngine
<1> QED BY <1>1, <1>2, <1>3, <1>4 DEF Ran

LEMMA WorkStep ==
  ASSUME NEW p \in DOMAIN Files, NEW to \in {0, 1}, NEW a \in Places, NEW c \in Places,
         NEW s, GoesChange(p, to, a, s, c) \/ GoesRecord(p, to, a, s, c)
  PROVE  c.m = a.m /\ a.m \in {"in", "out"} /\ s.op \in Kinds \cup {"record"}
<1>1. CASE GoesRecord(p, to, a, s, c)
  BY <1>1 DEF GoesRecord, At, WorkMode
<1>2. CASE GoesChange(p, to, a, s, c)
  <2>1. Size(p) \in Nat /\ a.k \in Nat /\ a.k + 1 \in 1 .. Size(p)
    BY <1>2, FileFacts DEF GoesChange, Places
  <2>2. Nth(p, to, a.k + 1).kind \in Kinds
    BY <2>1, NthFacts
  <2> QED BY <1>2, <2>2 DEF GoesChange, At, WorkMode, Change
<1> QED BY <1>1, <1>2

\* fk_off after statement s has run.
NoteOff(s) == fkOff' = IF s.op = "BEGIN raw" THEN s.off ELSE fkOff

\* A statement that leads from a to c leaves the connection as c says.
LEMMA RanConn ==
  ASSUME open \in BOOLEAN, pinned \in BOOLEAN, fk \in BOOLEAN, fkOff \in BOOLEAN,
         NEW p \in DOMAIN Files, NEW to \in {0, 1}, NEW a \in Places, NEW c \in Places,
         NEW s, Goes(p, to, a, s, c), Conn(a.m), Ran(s), NoteOff(s), cancelled' = cancelled
  PROVE  Conn(c.m)'
<1>1. ASSUME GoesChange(p, to, a, s, c) \/ GoesRecord(p, to, a, s, c) PROVE Conn(c.m)'
  <2>1. c.m = a.m /\ a.m \in {"in", "out"} /\ s.op \in Kinds \cup {"record"}
    BY <1>1, WorkStep
  <2>2. RunChange(s)
    BY <2>1 DEF Ran, RunSwap, RunPragma, RunRaw, RunEngine, Kinds
  <2>3. /\ open' \in BOOLEAN /\ (~open => ~open') /\ (open /\ TransactionalDDL => open')
        /\ UNCHANGED <<pinned, fk>>
    BY <2>2, ChangeOpen
  <2>4. fkOff' = fkOff
    BY <2>1 DEF NoteOff, Kinds
  <2>5. Backend # "mysql" => TransactionalDDL
    BY DEF TransactionalDDL
  <2> QED BY <2>1, <2>3, <2>4, <2>5 DEF Conn
<1>2. ASSUME GoesEngine(p, a, s, c) PROVE Conn(c.m)'
  <2>1. CASE s = Stmt("BEGIN") /\ a.m = "out" /\ c.m = "in"
    <3>1. s.op = "BEGIN"
      BY <2>1 DEF Stmt
    <3>2. open' = TRUE /\ pinned' = TRUE /\ fk' = fk /\ fkOff' = fkOff
      BY <3>1 DEF Ran, RunChange, RunSwap, RunPragma, RunRaw, RunEngine, NoteOff
    <3> QED BY <2>1, <3>2 DEF Conn
  <2>2. CASE s = Stmt("COMMIT") /\ a.m = "in" /\ c.m = "out"
    <3>1. s.op = "COMMIT"
      BY <2>2 DEF Stmt
    <3>2. open' = FALSE /\ pinned' = FALSE /\ fk' = fk /\ fkOff' = fkOff
      BY <3>1 DEF Ran, RunChange, RunSwap, RunPragma, RunRaw, RunEngine, NoteOff
    <3> QED BY <2>2, <3>2 DEF Conn
  <2> QED BY <1>2, <2>1, <2>2 DEF GoesEngine
<1>3. ASSUME GoesRaw(p, to, a, s, c) PROVE Conn(c.m)'
  <2>0. Backend = "sqlite" /\ TransactionalDDL
    BY <1>3 DEF GoesRaw, TransactionalDDL
  <2>1. CASE s = Stmt("COMMIT raw") /\ <<a.m, c.m>> \in {<<"in", "paused">>, <<"swapped", "done">>}
    <3>1. s.op = "COMMIT raw"
      BY <2>1 DEF Stmt
    <3>2. open' = FALSE /\ pinned' = pinned /\ fk' = fk /\ fkOff' = fkOff
      BY <3>1 DEF Ran, RunChange, RunSwap, RunPragma, RunRaw, RunEngine, NoteOff
    <3>3. CASE a.m = "in" /\ c.m = "paused"
      BY <3>2, <3>3 DEF Conn
    <3>4. CASE a.m = "swapped" /\ c.m = "done"
      BY <3>2, <3>4 DEF Conn
    <3> QED BY <2>1, <3>3, <3>4
  <2>2. CASE s = Stmt("OFF") /\ a.m = "paused" /\ c.m = "off"
    <3>1. s.op = "OFF"
      BY <2>2 DEF Stmt
    <3>2. ~open
      BY <2>2 DEF Conn
    <3>3. open' = open /\ pinned' = pinned /\ fk' = FALSE /\ fkOff' = fkOff
      BY <3>1, <3>2 DEF Ran, RunChange, RunSwap, RunPragma, RunRaw, RunEngine, NoteOff
    <3> QED BY <2>2, <3>3 DEF Conn
  <2>3. CASE s = [op |-> "BEGIN raw", off |-> TRUE] /\ a.m = "off" /\ c.m = "new"
    <3>1. s.op = "BEGIN raw" /\ s.off = TRUE
      BY <2>3
    <3>2. open' = TRUE /\ pinned' = pinned /\ fk' = fk /\ fkOff' = TRUE
      BY <3>1 DEF Ran, RunChange, RunSwap, RunPragma, RunRaw, RunEngine, NoteOff
    <3> QED BY <2>3, <3>2 DEF Conn
  <2>4. CASE /\ <<a.m, c.m>> \in {<<"new", "copied">>, <<"copied", "dropped">>, <<"dropped", "swapped">>}
             /\ s.op \in {"copy", "drop", "swap"}
    <3>1. RunSwap(s)
      BY <2>4 DEF Ran, RunChange, RunPragma, RunRaw, RunEngine
    <3>2. open' = TRUE /\ pinned' = pinned /\ fk' = fk /\ fkOff' = fkOff
      <4>1. open
        BY <2>0, <2>4 DEF Conn
      <4>2. open' \in BOOLEAN /\ (open /\ TransactionalDDL => open') /\ UNCHANGED <<pinned, fk>>
        BY <3>1, ChangeOpen
      <4> QED BY <2>0, <2>4, <4>1, <4>2 DEF NoteOff
    <3> QED BY <2>4, <3>2 DEF Conn
  <2>5. CASE s = Stmt("ON") /\ a.m = "done" /\ c.m = "on"
    <3>1. s.op = "ON"
      BY <2>5 DEF Stmt
    <3>2. ~open
      BY <2>5 DEF Conn
    <3>3. open' = open /\ pinned' = pinned /\ fk' = TRUE /\ fkOff' = fkOff
      BY <3>1, <3>2 DEF Ran, RunChange, RunSwap, RunPragma, RunRaw, RunEngine, NoteOff
    <3> QED BY <2>5, <3>3 DEF Conn
  <2>6. CASE s = [op |-> "BEGIN raw", off |-> FALSE] /\ a.m = "on" /\ c.m = "in"
    <3>1. s.op = "BEGIN raw" /\ s.off = FALSE
      BY <2>6
    <3>2. open' = TRUE /\ pinned' = pinned /\ fk' = fk /\ fkOff' = FALSE
      BY <3>1 DEF Ran, RunChange, RunSwap, RunPragma, RunRaw, RunEngine, NoteOff
    <3> QED BY <2>6, <3>2 DEF Conn
  <2>7. s \in {Stmt("copy"), Stmt("drop"), [op |-> "swap", on |-> Nth(p, to, a.k + 1).on, to |-> to]}
        => s.op \in {"copy", "drop", "swap"}
    BY DEF Stmt
  <2> QED BY <1>3, <2>1, <2>2, <2>3, <2>4, <2>5, <2>6, <2>7 DEF GoesRaw
<1> QED BY <1>1, <1>2, <1>3 DEF Goes

\* Of the data, likewise.
LEMMA RanData ==
  ASSUME DataInv, open \in BOOLEAN, NEW p \in DOMAIN Files, NEW to \in {0, 1}, NEW a \in Places,
         NEW c \in Places, NEW s, Here(p, to, a), Goes(p, to, a, s, c), Ran(s)
  PROVE  There(p, to, c)
BY ChangeData, RecordData, EngineData, RawData DEF Goes

-----------------------------------------------------------------------------
(* The commands, and the beginning of a migration. *)

LEMMA NamesOf ==
  ASSUME NEW i \in DOMAIN Files, FirstFiles(db.rows), db \in State
  PROVE  Files[i].name \in Applied <=> i <= Len(db.rows)
<1>1. db.rows \in Seq(Names) /\ Len(db.rows) \in Nat /\ DOMAIN db.rows = 1 .. Len(db.rows)
  BY StateFacts
<1>2. i \in 1 .. Len(Files) /\ DOMAIN Files = 1 .. Len(Files) /\ Len(Files) \in Nat
  BY FilesAssumption, Element
<1>3. ASSUME i <= Len(db.rows) PROVE Files[i].name \in Applied
  <2>1. i \in DOMAIN db.rows /\ db.rows[i] = Files[i].name
    BY <1>1, <1>2, <1>3 DEF FirstFiles
  <2> QED BY <2>1 DEF Applied, ToSet
<1>4. ASSUME Files[i].name \in Applied PROVE i <= Len(db.rows)
  <2>1. PICK j \in DOMAIN db.rows : Files[i].name = db.rows[j]
    BY <1>4 DEF Applied, ToSet
  <2>2. j \in DOMAIN Files /\ Files[j].name = Files[i].name
    BY <1>1, <1>2, <2>1 DEF FirstFiles
  <2>3. i = j
    BY <2>2, FilesAssumption
  <2> QED BY <1>1, <2>1, <2>3
<1> QED BY <1>3, <1>4

\* What is left of a command begins where the recorded files end.
AtRest(to) == Ahead(to, IF to = 1 THEN Len(db.rows) + 1 ELSE Len(db.rows))

TodoType == todo \in Seq([name : Names, to : {0, 1}])

LEMMA UpgradeAhead ==
  ASSUME DataInv, NEW last \in DOMAIN Files, Upgrade(last)
  PROVE  AtRest(1)' /\ TodoType'
<1> DEFINE N == Len(db.rows)
           M == [name : Names, atomic : BOOLEAN, ops : Seq([kind : Kinds, on : Things])]
           s == SubSeq(Files, 1, last)
           S == {m \in ToSet(Files) : m.name \notin Applied}
           upTo == Kept(s, S)
           a == IF N < last THEN N ELSE last
           b == last
<1>1. /\ last \in 1 .. Len(Files) /\ DOMAIN Files = 1 .. Len(Files) /\ Len(Files) \in Nat
      /\ Files \in Seq(M) /\ N \in Nat
  BY FilesAssumption, Element, StateFacts DEF DataInv
<1>2. s \in Seq(M) /\ Len(s) = last /\ \A i \in 1 .. last : s[i] = Files[i]
  <2>1. \A i \in 1 .. last : Files[i] \in M
    <3>1. \A i \in 1 .. last : i \in DOMAIN Files
      BY <1>1
    <3> HIDE DEF M
    <3> QED BY <1>1, <3>1, Element
  <2>2. 1 \in Int /\ last \in Int /\ 1 <= last /\ (last - 1) + 1 = last
    BY <1>1
  <2> HIDE DEF M
  <2>3. /\ s \in Seq(M) /\ Len(s) = (last - 1) + 1
        /\ \A i \in 1 .. (last - 1) + 1 : s[i] = Files[(1 + i) - 1]
    BY <2>1, <2>2, SubSeqProperties
  <2>4. \A i \in 1 .. last : (1 + i) - 1 = i
    BY <1>1
  <2> HIDE DEF s
  <2> QED BY <2>2, <2>3, <2>4
<1>3. a \in Nat /\ b \in Nat /\ a <= b
  BY <1>1
<1>4. ASSUME NEW i \in 1 .. Len(s) PROVE s[i] \in S <=> a < i /\ i <= b
  <2>1. i \in DOMAIN Files /\ s[i] = Files[i] /\ i \in 1 .. last
    BY <1>1, <1>2
  <2>2. Files[i] \in ToSet(Files)
    BY <2>1 DEF ToSet
  <2>3. s[i] \in S <=> ~(i <= N)
    BY <2>1, <2>2, NamesOf DEF DataInv
  <2> QED BY <1>1, <2>1, <2>3
<1>5. upTo \in Seq(M) /\ IsRange(upTo, s, a, b)
  <2> HIDE DEF s, S, a, b
  <2>1. b <= Len(s)
    BY <1>1, <1>2 DEF b
  <2>2. InRange(s, S, a, b)
    BY <1>3, <1>4, <2>1 DEF InRange
  <2> QED BY <1>2, <1>3, <2>2, KeptRange
<1>6. upTo # <<>> /\ todo' = [i \in DOMAIN upTo |-> [name |-> upTo[i].name, to |-> 1]] /\ db' = db
  BY DEF Upgrade, connVars
<1> HIDE DEF s, S, a, b, upTo
<1>7. Len(upTo) = b - a /\ DOMAIN upTo = 1 .. Len(upTo) /\ Len(upTo) \in Nat
  BY <1>5, Element DEF IsRange
<1>8. a = N
  <2>1. b - a # 0
    BY <1>5, <1>6, <1>7
  <2> QED BY <1>1, <1>3, <2>1 DEF a, b
<1>9. ASSUME NEW i \in DOMAIN upTo
      PROVE  N + i \in DOMAIN Files /\ upTo[i] = Files[N + i] /\ upTo[i] \in M
  <2>1. i \in 1 .. b - a /\ a + i \in 1 .. last
    BY <1>1, <1>3, <1>7 DEF b
  <2>2. upTo[i] = s[a + i] /\ s[a + i] = Files[a + i]
    BY <1>2, <1>5, <2>1 DEF IsRange
  <2>3. upTo[i] \in M
    <3> HIDE DEF M
    <3> QED BY <1>5, Element
  <2>4. N + i \in DOMAIN Files
    BY <1>1, <1>8, <2>1
  <2> HIDE DEF M
  <2> QED BY <1>8, <2>2, <2>3, <2>4
<1>10. Len(todo') = Len(upTo) /\ DOMAIN todo' = DOMAIN upTo /\ TodoType'
  <2>1. \A i \in DOMAIN upTo : [name |-> upTo[i].name, to |-> 1] \in [name : Names, to : {0, 1}]
    BY <1>9
  <2>2. todo' = [i \in 1 .. Len(upTo) |-> [name |-> upTo[i].name, to |-> 1]]
    BY <1>6, <1>7
  <2> DEFINE R == [name : Names, to : {0, 1}]
             f(i) == [name |-> upTo[i].name, to |-> 1]
  <2>3. \A i \in 1 .. Len(upTo) : f(i) \in R
    BY <1>7, <2>1
  <2>4. todo' = [i \in 1 .. Len(upTo) |-> f(i)]
    BY <2>2
  <2> HIDE DEF f, R
  <2>5. todo' \in Seq(R) /\ Len(todo') = Len(upTo) /\ DOMAIN todo' = 1 .. Len(upTo)
    BY <1>7, <2>3, <2>4
  <2> QED BY <1>7, <2>5 DEF TodoType, R
<1>11. Ahead(1, N + 1)'
  <2> SUFFICES ASSUME NEW i \in DOMAIN todo'
               PROVE  (N + 1) + (i - 1) \in DOMAIN Files
                      /\ todo'[i] = [name |-> Files[(N + 1) + (i - 1)].name, to |-> 1]
    BY <1>6 DEF Ahead
  <2>1. (N + 1) + (i - 1) = N + i /\ i \in DOMAIN upTo
    BY <1>1, <1>7, <1>10
  <2> QED BY <1>6, <1>9, <2>1
<1> QED BY <1>6, <1>10, <1>11 DEF AtRest

LEMMA DowngradeAhead ==
  ASSUME DataInv, NEW steps \in DOMAIN Files, Downgrade(steps)
  PROVE  AtRest(0)' /\ TodoType'
<1> DEFINE N == Len(db.rows)
           sub == SubSeq(db.rows, (N - steps) + 1, N)
           names == NewestFirst(sub)
<1>1. /\ steps \in 1 .. N /\ N \in Nat /\ db.rows \in Seq(Names)
      /\ DOMAIN Files = 1 .. Len(Files) /\ Len(Files) \in Nat /\ N <= Len(Files)
  BY FilesAssumption, Element, StateFacts DEF DataInv, Downgrade, FirstFiles
<1>2. Len(sub) = steps /\ \A k \in 1 .. steps : sub[k] = db.rows[(N - steps) + k]
  <2> DEFINE m == (N - steps) + 1
  <2>1. m \in Int /\ N \in Int /\ m <= N /\ (N - m) + 1 = steps
        /\ \A i \in m .. N : db.rows[i] \in Names
    BY <1>1
  <2>2. \A k \in 1 .. steps : (m + k) - 1 = (N - steps) + k
    BY <1>1
  <2> HIDE DEF m
  <2>3. /\ Len(SubSeq(db.rows, m, N)) = (N - m) + 1
        /\ \A k \in 1 .. (N - m) + 1 : SubSeq(db.rows, m, N)[k] = db.rows[(m + k) - 1]
    BY <2>1, SubSeqProperties
  <2>4. sub = SubSeq(db.rows, m, N)
    BY DEF m
  <2> HIDE DEF sub
  <2> QED BY <2>1, <2>2, <2>3, <2>4
<1> HIDE DEF sub
<1>3. names = [k \in 1 .. steps |-> sub[(steps - k) + 1]]
  BY <1>2 DEF NewestFirst, Reverse
<1>4. ASSUME NEW i \in 1 .. steps
      PROVE  N - (i - 1) \in DOMAIN Files /\ names[i] = Files[N - (i - 1)].name
  <2>1. /\ (steps - i) + 1 \in 1 .. steps
        /\ (N - steps) + ((steps - i) + 1) = N - (i - 1) /\ N - (i - 1) \in 1 .. N
    BY <1>1
  <2>2. names[i] = db.rows[N - (i - 1)]
    BY <1>2, <1>3, <2>1
  <2>3. N - (i - 1) \in DOMAIN db.rows /\ N - (i - 1) \in DOMAIN Files
    BY <1>1, <2>1
  <2>4. db.rows[N - (i - 1)] = Files[N - (i - 1)].name
    BY <2>3 DEF DataInv, FirstFiles
  <2> QED BY <2>2, <2>3, <2>4
<1>5. todo' = [i \in DOMAIN names |-> [name |-> names[i], to |-> 0]] /\ db' = db
  BY DEF Downgrade, connVars, sub
<1>6. DOMAIN names = 1 .. steps
  BY <1>3
<1> HIDE DEF names
<1>7. DOMAIN todo' = 1 .. steps /\ TodoType'
  <2>1. \A i \in 1 .. steps : names[i] \in Names
    BY <1>4, FileFacts
  <2> DEFINE R == [name : Names, to : {0, 1}]
             f(i) == [name |-> names[i], to |-> 0]
  <2>2. todo' = [i \in 1 .. steps |-> f(i)]
    BY <1>5, <1>6
  <2>3. \A i \in 1 .. steps : f(i) \in R
    BY <2>1
  <2> HIDE DEF f, R
  <2>4. steps \in Nat
    BY <1>1
  <2>5. todo' \in Seq(R) /\ DOMAIN todo' = 1 .. steps
    BY <2>2, <2>3, <2>4
  <2> QED BY <2>5 DEF TodoType, R
<1>8. Ahead(0, N)'
  <2> SUFFICES ASSUME NEW i \in DOMAIN todo'
               PROVE  N - (i - 1) \in DOMAIN Files
                      /\ todo'[i] = [name |-> Files[N - (i - 1)].name, to |-> 0]
    BY <1>5 DEF Ahead
  <2> QED BY <1>4, <1>5, <1>6, <1>7
<1> QED BY <1>5, <1>7, <1>8 DEF AtRest

\* The first migration left runs, and the others after it.
LEMMA HeadAhead ==
  ASSUME TodoType, NEW q \in Int, NEW to \in {0, 1}, Ahead(to, q), NextMigration
  PROVE  /\ q \in DOMAIN Files
         /\ prog' = Program(Files[q].name, to) /\ TodoType'
         /\ Ahead(to, IF to = 1 THEN q + 1 ELSE q - 1)'
<1> DEFINE r(i) == IF to = 1 THEN q + (i - 1) ELSE q - (i - 1)
<1>1. todo # <<>> /\ todo' = Tail(todo) /\ prog' = Program(Head(todo).name, Head(todo).to)
  BY DEF NextMigration
<1> DEFINE R == [name : Names, to : {0, 1}]
<1>2. \A i \in DOMAIN todo : r(i) \in DOMAIN Files /\ todo[i] = [name |-> Files[r(i)].name, to |-> to]
  BY DEF Ahead
<1>3. todo \in Seq(R)
  BY DEF TodoType
<1>4. /\ Tail(todo) \in Seq(R) /\ Len(Tail(todo)) = Len(todo) - 1 /\ Len(todo) \in Nat \ {0}
      /\ \A i \in 1 .. Len(Tail(todo)) : Tail(todo)[i] = todo[i + 1]
      /\ Head(todo) = todo[1] /\ DOMAIN todo = 1 .. Len(todo)
      /\ DOMAIN Tail(todo) = 1 .. Len(Tail(todo))
  <2> HIDE DEF R
  <2> QED BY <1>1, <1>3, HeadTailProperties
<1>5. r(1) = q /\ 1 \in DOMAIN todo
  BY <1>4
<1>6. q \in DOMAIN Files /\ Head(todo).name = Files[q].name /\ Head(todo).to = to
  <2> HIDE DEF r
  <2> QED BY <1>2, <1>4, <1>5
<1>7. ASSUME NEW i \in DOMAIN todo'
      PROVE  LET u == IF to = 1 THEN (q + 1) + (i - 1) ELSE (q - 1) - (i - 1)
             IN  u \in DOMAIN Files /\ todo'[i] = [name |-> Files[u].name, to |-> to]
  <2>1. i \in Nat /\ i + 1 \in DOMAIN todo /\ todo'[i] = todo[i + 1]
    BY <1>1, <1>4
  <2>2. r(i + 1) = IF to = 1 THEN (q + 1) + (i - 1) ELSE (q - 1) - (i - 1)
    BY <2>1
  <2> HIDE DEF r
  <2> QED BY <1>2, <2>1, <2>2
<1>8. Ahead(to, IF to = 1 THEN q + 1 ELSE q - 1)'
  <2>1. CASE to = 1
    BY <1>7, <2>1 DEF Ahead
  <2>2. CASE to # 1
    BY <1>7, <2>2 DEF Ahead
  <2> QED BY <2>1, <2>2
<1> QED BY <1>1, <1>3, <1>4, <1>6, <1>8 DEF TodoType

-----------------------------------------------------------------------------
(* Every action keeps the invariant: a command, a step, and what ends a command. *)

Engine == {"BEGIN", "COMMIT", "ROLLBACK"}

LEMMA InitRunner == ASSUME Init PROVE RunnerInv
<1>1. db \in State /\ db.rows = <<>> /\ db.children /\ \A x \in Things : db.has[x] = 0
  BY DEF Init, State
<1>2. /\ tx = db /\ open = FALSE /\ pinned = FALSE /\ fk = TRUE /\ fkOff = FALSE
      /\ cancelled = FALSE /\ prog = <<>> /\ todo = <<>> /\ faults = 0 /\ downgrades = 0
  BY DEF Init
<1>3. FlagsInv
  <2>1. todo \in Seq([name : Names, to : {0, 1}]) /\ 0 \in 0 .. MaxFaults /\ 0 \in 0 .. MaxDowngrades
    BY <1>2, BoundsAssumption
  <2> QED BY <1>2, <2>1 DEF FlagsInv
<1>4. Len(db.rows) = 0 /\ DOMAIN db.rows = {} /\ Len(Files) \in Nat
  <2>1. Len(<<>>) = 0 /\ DOMAIN <<>> = {}
    OBVIOUS
  <2> QED BY <1>1, <2>1, FilesAssumption
<1>5. FirstFiles(db.rows)
  BY <1>4 DEF FirstFiles
<1>6. Whole(db)
  <2> SUFFICES ASSUME NEW i \in DOMAIN Files, NEW j \in DOMAIN Files[i].ops
               PROVE  db.has[Files[i].ops[j].on] = IF i <= Len(db.rows) THEN 1 ELSE 0
    BY DEF Whole, WholeBut
  <2>1. i \in 1 .. Len(Files) /\ Files[i].ops \in Seq([kind : Kinds, on : Things])
    BY FileFacts
  <2>2. Files[i].ops[j] \in [kind : Kinds, on : Things]
    BY <2>1, Element
  <2>3. Files[i].ops[j].on \in Things
    BY <2>2
  <2> QED BY <1>1, <1>4, <2>1, <2>3
<1>7. DataInv
  BY <1>1, <1>2, <1>5, <1>6 DEF DataInv
<1>8. Resting
  <2>1. Conn("out")
    BY <1>2 DEF Conn
  <2>2. \A q : Ahead(1, q)
    <3>1. DOMAIN todo = {}
      BY <1>2
    <3> QED BY <3>1 DEF Ahead
  <2> QED BY <1>2, <2>1, <2>2 DEF Resting
<1> QED BY <1>3, <1>7, <1>8 DEF RunnerInv

LEMMA UndoFacts ==
  LET U == Append(Except, Stmt("ROLLBACK"))
      on == Tail(U)
      begin == Tail(Tail(U))
      rest == Tail(Tail(Tail(U)))
  IN  /\ U # <<>> /\ Head(U).op = "ROLLBACK raw"
      /\ on # <<>> /\ Head(on).op = "ON"
      /\ begin # <<>> /\ Head(begin).op = "BEGIN raw" /\ Head(begin).off = FALSE
      /\ rest = <<Stmt("ROLLBACK")>>
      /\ <<Stmt("ROLLBACK")>> # <<>> /\ Head(<<Stmt("ROLLBACK")>>).op = "ROLLBACK"
      /\ Tail(<<Stmt("ROLLBACK")>>) = <<>>
<1> DEFINE b == [op |-> "BEGIN raw", off |-> FALSE]
           r == Stmt("ROLLBACK raw")
           n == Stmt("ON")
           k == Stmt("ROLLBACK")
<1>1. r.op = "ROLLBACK raw" /\ n.op = "ON" /\ k.op = "ROLLBACK" /\ b.op = "BEGIN raw" /\ b.off = FALSE
  BY DEF Stmt
<1>2. Except = <<r, n, b>>
  BY DEF Except
<1> HIDE DEF b, r, n, k
<1>3. Append(<<r, n, b>>, k) = <<r, n, b, k>>
  <2> DEFINE X == {r, n, b, k}
             P == <<r, n, b>>
             Q == <<r, n, b, k>>
  <2>1. P \in Seq(X) /\ Len(P) = 3 /\ P[1] = r /\ P[2] = n /\ P[3] = b /\ k \in X
    OBVIOUS
  <2>2. Q \in Seq(X) /\ Len(Q) = 4 /\ Q[1] = r /\ Q[2] = n /\ Q[3] = b /\ Q[4] = k
    OBVIOUS
  <2> HIDE DEF P, Q, X
  <2>3. /\ Append(P, k) \in Seq(X) /\ Len(Append(P, k)) = 4
        /\ \A i \in 1 .. 3 : Append(P, k)[i] = P[i]
        /\ Append(P, k)[4] = k
    <3>1. 3 + 1 = 4
      OBVIOUS
    <3>2. P \in Seq(X) /\ k \in X
      BY <2>1
    <3>3. Append(P, k) \in Seq(X)
      BY <3>2, AppendProperties, Zenon
    <3>4. Len(Append(P, k)) = Len(P) + 1
      BY <3>2, AppendProperties, Zenon
    <3>5. \A i \in 1 .. Len(P) : Append(P, k)[i] = P[i]
      BY <3>2, SMT
    <3>6. Append(P, k)[Len(P) + 1] = k
      BY <3>2, AppendProperties, Zenon
    <3> QED BY <2>1, <3>1, <3>3, <3>4, <3>5, <3>6
  <2>4. ASSUME NEW i \in 1 .. Len(Q) PROVE Append(P, k)[i] = Q[i]
    <3>1. i \in 1 .. 3 \/ i = 4
      BY <2>2
    <3>2. i \in 1 .. 3 => i = 1 \/ i = 2 \/ i = 3
      OBVIOUS
    <3> QED BY <2>1, <2>2, <2>3, <3>1, <3>2
  <2>5. Append(P, k) = Q
    BY <2>2, <2>3, <2>4, SeqEqual
  <2> QED BY <2>5 DEF P, Q
<1>4. Tail(<<r, n, b, k>>) = <<n, b, k>> /\ Tail(<<n, b, k>>) = <<b, k>> /\ Tail(<<b, k>>) = <<k>>
      /\ Tail(<<k>>) = <<>>
  OBVIOUS
<1>5. Head(<<r, n, b, k>>) = r /\ Head(<<n, b, k>>) = n /\ Head(<<b, k>>) = b /\ Head(<<k>>) = k
  OBVIOUS
<1>6. <<r, n, b, k>> # <<>> /\ <<n, b, k>> # <<>> /\ <<b, k>> # <<>> /\ <<k>> # <<>>
  OBVIOUS
<1> QED BY <1>1, <1>2, <1>3, <1>4, <1>5, <1>6 DEF k

\* Nothing is left to send only at rest.
LEMMA RestingFacts ==
  ASSUME RunnerInv, prog = <<>>
  PROVE  /\ Conn("out")
         /\ \E to \in {0, 1} : AtRest(to)
<1>1. ~Undoing
  BY UndoFacts DEF Undoing
<1>2. Resting
  BY <1>1 DEF RunnerInv, Running
<1> QED BY <1>2 DEF Resting, AtRest

LEMMA UpgradeRunner ==
  ASSUME RunnerInv, NEW last \in DOMAIN Files, Upgrade(last)
  PROVE  RunnerInv'
<1>1. UNCHANGED <<db, tx, open, pinned, fk, fkOff, prog, cancelled, faults, downgrades>>
  BY DEF Upgrade, connVars
<1>2. prog = <<>> /\ Conn("out")
  BY RestingFacts DEF Upgrade, Idle
<1>3. AtRest(1)' /\ TodoType'
  BY UpgradeAhead DEF RunnerInv
<1>4. Conn("out")'
  BY <1>1, <1>2 DEF Conn
<1>5. FlagsInv'
  BY <1>1, <1>3 DEF FlagsInv, TodoType, RunnerInv
<1>6. DataInv'
  BY <1>1 DEF DataInv, RunnerInv, FirstFiles, Whole, WholeBut, Atomically
<1>7. Resting'
  BY <1>1, <1>2, <1>3, <1>4 DEF Resting, AtRest
<1> QED BY <1>5, <1>6, <1>7 DEF RunnerInv

LEMMA DowngradeRunner ==
  ASSUME RunnerInv, NEW steps \in DOMAIN Files, Downgrade(steps)
  PROVE  RunnerInv'
<1>1. /\ UNCHANGED <<db, tx, open, pinned, fk, fkOff, prog, cancelled, faults>>
      /\ downgrades < MaxDowngrades /\ downgrades' = downgrades + 1
  BY DEF Downgrade, connVars
<1>2. prog = <<>> /\ Conn("out")
  BY RestingFacts DEF Downgrade, Idle
<1>3. AtRest(0)' /\ TodoType'
  BY DowngradeAhead DEF RunnerInv
<1>4. Conn("out")'
  BY <1>1, <1>2 DEF Conn
<1>5. FlagsInv'
  <2>1. downgrades' \in 0 .. MaxDowngrades
    BY <1>1, BoundsAssumption DEF FlagsInv, RunnerInv
  <2> QED BY <1>1, <1>3, <2>1 DEF FlagsInv, TodoType, RunnerInv
<1>6. DataInv'
  BY <1>1 DEF DataInv, RunnerInv, FirstFiles, Whole, WholeBut, Atomically
<1>7. Resting'
  BY <1>1, <1>2, <1>3, <1>4 DEF Resting, AtRest
<1> QED BY <1>5, <1>6, <1>7 DEF RunnerInv

LEMMA NextMigrationRunner ==
  ASSUME RunnerInv, NextMigration
  PROVE  RunnerInv'
<1>1. UNCHANGED <<db, tx, open, pinned, fk, fkOff, cancelled, faults, downgrades>>
  BY DEF NextMigration, connVars
<1>2. prog = <<>> /\ Conn("out")
  BY RestingFacts DEF NextMigration
<1>3. PICK to \in {0, 1} : AtRest(to)
  BY <1>2, RestingFacts
<1> DEFINE p == IF to = 1 THEN Len(db.rows) + 1 ELSE Len(db.rows)
<1>4. TodoType /\ p \in Int /\ db' = db
  <2>1. Len(db.rows) \in Nat
    BY StateFacts DEF RunnerInv, DataInv
  <2> QED BY <1>1, <2>1 DEF RunnerInv, FlagsInv, TodoType
<1>5. PICK q \in Int : q = p
  BY <1>4
<1>6. /\ q \in DOMAIN Files /\ prog' = Program(Files[q].name, to) /\ TodoType'
      /\ Ahead(to, IF to = 1 THEN q + 1 ELSE q - 1)'
  <2>1. Ahead(to, q)
    BY <1>3, <1>5 DEF AtRest
  <2> QED BY <1>4, <2>1, HeadAhead
<1>7. prog' # <<>> /\ Leads(q, to, prog', At("out", 0), End(q))
  BY <1>6, ProgramLeads
<1>8. At("out", 0) \in Places /\ At("out", 0).m = "out" /\ At("out", 0).k = 0
  BY AtPlace DEF Modes
<1>9. ~open' /\ Conn("out")'
  BY <1>1, <1>2 DEF Conn
<1>10. Recorded(q, to, At("out", 0))'
  <2>1. View' = db
    BY <1>1, <1>9 DEF View
  <2>2. (At("out", 0).k = Size(q) + 1) = FALSE
    BY <1>6, <1>8, FileFacts
  <2>3. Len(db.rows) = IF (to = 1) = FALSE THEN q ELSE q - 1
    <3>1. Len(db.rows) \in Nat
      BY StateFacts DEF RunnerInv, DataInv
    <3> QED BY <1>5, <3>1
  <2> QED BY <2>1, <2>2, <2>3 DEF Recorded
<1>11. Running'
  <2>1. Done(q, to, At("out", 0))'
    BY <1>9 DEF Done
  <2>2. Conn(At("out", 0).m)'
    BY <1>8, <1>9
  <2> QED BY <1>6, <1>7, <1>8, <1>10, <2>1, <2>2 DEF Running
<1>12. FlagsInv'
  BY <1>1, <1>6 DEF FlagsInv, TodoType, RunnerInv
<1>13. DataInv'
  BY <1>1 DEF DataInv, RunnerInv, FirstFiles, Whole, WholeBut, Atomically
<1> QED BY <1>11, <1>12, <1>13 DEF RunnerInv

LEMMA BeginsOff ==
  ASSUME NEW s \in Stmts, s.op = "BEGIN raw"
  PROVE  s.off \in BOOLEAN
BY DEF Stmts, Kinds

\* What the statements left to send are about to do.
LEMMA RunningFacts ==
  ASSUME RunnerInv, Running
  PROVE  \E p \in DOMAIN Files, to \in {0, 1}, a \in Places, c \in Places :
           /\ Here(p, to, a) /\ Goes(p, to, a, Head(prog), c) /\ Head(prog) \in Stmts
           /\ Leads(p, to, Tail(prog), c, End(p))
           /\ Ahead(to, IF to = 1 THEN p + 1 ELSE p - 1)
<1>1. PICK p \in DOMAIN Files, to \in {0, 1}, a \in Places :
        /\ prog # <<>> /\ Leads(p, to, prog, a, End(p)) /\ Conn(a.m)
        /\ Ahead(to, IF to = 1 THEN p + 1 ELSE p - 1)
        /\ Recorded(p, to, a)
        /\ Atomically => Done(p, to, a)
  BY DEF Running
<1>2. PICK c \in Places : /\ Head(prog) \in Stmts /\ Goes(p, to, a, Head(prog), c)
                          /\ Leads(p, to, Tail(prog), c, End(p))
  BY <1>1, LeadsTail
<1>3. Here(p, to, a)
  BY <1>1 DEF Here
<1> QED BY <1>1, <1>2, <1>3

LEMMA StepRunning ==
  ASSUME RunnerInv, Running, Step
  PROVE  RunnerInv'
<1>1. PICK p \in DOMAIN Files, to \in {0, 1}, a \in Places, c \in Places :
        /\ Here(p, to, a) /\ Goes(p, to, a, Head(prog), c) /\ Head(prog) \in Stmts
        /\ Leads(p, to, Tail(prog), c, End(p))
        /\ Ahead(to, IF to = 1 THEN p + 1 ELSE p - 1)
  BY RunningFacts
<1> DEFINE s == Head(prog)
<1>2. /\ open \in BOOLEAN /\ pinned \in BOOLEAN /\ fk \in BOOLEAN /\ fkOff \in BOOLEAN /\ DataInv
      /\ cancelled \in BOOLEAN
  BY DEF RunnerInv, FlagsInv
<1>3. Ran(s) /\ NoteOff(s) /\ UNCHANGED <<todo, cancelled, faults, downgrades>> /\ prog' = Tail(prog)
  BY DEF Step, NoteOff
<1>4. Conn(c.m)'
  <2> HIDE DEF s
  <2>1. Goes(p, to, a, s, c) /\ Conn(a.m)
    BY <1>1 DEF s, Here
  <2> QED BY <1>2, <1>3, <2>1, RanConn
<1>5. There(p, to, c)
  <2> HIDE DEF s
  <2>1. Goes(p, to, a, s, c)
    BY <1>1 DEF s
  <2> QED BY <1>1, <1>2, <1>3, <2>1, RanData
<1>6. FlagsInv'
  <2>1. open' \in BOOLEAN /\ pinned' \in BOOLEAN /\ fk' \in BOOLEAN
    <3> HIDE DEF s
    <3> QED BY <1>2, <1>3, RanFlags
  <2>2. fkOff' \in BOOLEAN
    BY <1>1, <1>2, <1>3, BeginsOff DEF NoteOff
  <2> QED BY <1>2, <1>3, <2>1, <2>2 DEF FlagsInv, RunnerInv
<1>7. Ahead(to, IF to = 1 THEN p + 1 ELSE p - 1)'
  BY <1>1, <1>3 DEF Ahead
<1>8. CASE Tail(prog) # <<>>
  <2>1. Running'
    BY <1>1, <1>3, <1>4, <1>5, <1>7, <1>8 DEF Running, There
  <2> QED BY <1>5, <1>6, <2>1 DEF RunnerInv, There
<1>9. CASE Tail(prog) = <<>>
  <2>1. c = End(p)
    <3>1. Leads(p, to, <<>>, c, End(p))
      BY <1>1, <1>9
    <3> QED BY <3>1, LeadsNowhere
  <2>2. c.m = "out" /\ c.k = Size(p) + 1 /\ Size(p) \in Nat /\ p \in Int
    BY <2>1, FileFacts DEF End, At
  <2>3. ~open' /\ Conn("out")'
    BY <1>4, <2>2 DEF Conn
  <2>4. View' = db'
    BY <2>3 DEF View
  <2>5. Len(db'.rows) = IF to = 1 THEN p ELSE p - 1
    <3>1. Recorded(p, to, c)'
      BY <1>5 DEF There
    <3>2. (c.k = Size(p) + 1) = TRUE
      BY <2>2
    <3>3. Len(View'.rows) = IF (to = 1) = TRUE THEN p ELSE p - 1
      BY <3>1, <3>2 DEF Recorded
    <3> QED BY <2>4, <3>3
  <2>6. AtRest(to)'
    <3>1. CASE to = 1
      <4>1. Len(db'.rows) + 1 = p + 1
        BY <2>5, <3>1
      <4> QED BY <1>7, <3>1, <4>1 DEF AtRest
    <3>2. CASE to # 1
      <4>1. Len(db'.rows) = p - 1
        BY <2>5, <3>2
      <4> QED BY <1>7, <3>2, <4>1 DEF AtRest
    <3> QED BY <3>1, <3>2
  <2>7. Resting'
    BY <1>3, <1>9, <2>3, <2>6 DEF Resting, AtRest
  <2> QED BY <1>5, <1>6, <2>7 DEF RunnerInv, There
<1> QED BY <1>8, <1>9

Undoes(s) == s.op \in {"ROLLBACK raw", "ON", "BEGIN raw", "ROLLBACK"}

\* The statements of the except clause and of __aexit__ touch no data.
LEMMA UndoData ==
  ASSUME DataInv, NEW s, Undoes(s), Ran(s)
  PROVE  DataInv'
<1>1. db' = db /\ (tx' = tx \/ tx' = db)
  BY DEF Ran, RunChange, RunSwap, RunPragma, RunRaw, RunEngine, Undoes
<1> QED BY <1>1 DEF DataInv, FirstFiles, Whole, WholeBut, Atomically

LEMMA StepUndoing ==
  ASSUME RunnerInv, Undoing, Step
  PROVE  RunnerInv'
<1> DEFINE U == Append(Except, Stmt("ROLLBACK"))
           s == Head(prog)
<1>1. /\ open \in BOOLEAN /\ pinned \in BOOLEAN /\ fk \in BOOLEAN /\ fkOff \in BOOLEAN /\ DataInv
      /\ cancelled \in BOOLEAN
  BY DEF RunnerInv, FlagsInv
<1>2. Ran(s) /\ NoteOff(s) /\ UNCHANGED <<todo, cancelled, faults, downgrades>> /\ prog' = Tail(prog)
  BY DEF Step, NoteOff
<1>3. todo = <<>> /\ pinned /\ ~fkOff
  BY DEF Undoing
<1>4. ASSUME Undoes(s), fkOff' = FALSE,
             Resting' \/ Undoing'
      PROVE  RunnerInv'
  <2>1. open' \in BOOLEAN /\ pinned' \in BOOLEAN /\ fk' \in BOOLEAN
    <3> HIDE DEF s
    <3> QED BY <1>1, <1>2, RanFlags
  <2>2. FlagsInv'
    BY <1>2, <1>4, <2>1 DEF FlagsInv, RunnerInv
  <2>3. DataInv'
    <3> HIDE DEF s
    <3>1. DataInv /\ Ran(s) /\ Undoes(s)
      BY <1>1, <1>2, <1>4
    <3> QED BY <3>1, UndoData
  <2> QED BY <1>4, <2>2, <2>3 DEF RunnerInv
<1>5. CASE prog = U /\ Backend = "sqlite" /\ (~cancelled => open)
  <2>1. s.op = "ROLLBACK raw"
    BY <1>5, UndoFacts
  <2>2. open' = FALSE /\ pinned' = pinned /\ fkOff' = fkOff
    BY <1>2, <2>1 DEF Ran, RunChange, RunSwap, RunPragma, RunRaw, RunEngine, NoteOff
  <2>3. Undoing'
    BY <1>2, <1>3, <1>5, <2>2 DEF Undoing
  <2> QED BY <1>1, <1>3, <1>4, <2>1, <2>2, <2>3 DEF Undoes
<1>6. CASE prog = Tail(U) /\ Backend = "sqlite" /\ ~open
  <2>1. s.op = "ON"
    BY <1>6, UndoFacts
  <2>2. open' = open /\ pinned' = pinned /\ fkOff' = fkOff /\ fk'
    BY <1>2, <1>6, <2>1 DEF Ran, RunChange, RunSwap, RunPragma, RunRaw, RunEngine, NoteOff
  <2>3. Undoing'
    BY <1>2, <1>3, <1>6, <2>2 DEF Undoing
  <2> QED BY <1>1, <1>3, <1>4, <2>1, <2>2, <2>3 DEF Undoes
<1>7. CASE prog = Tail(Tail(U)) /\ Backend = "sqlite" /\ ~open /\ (~cancelled => fk)
  <2>1. s.op = "BEGIN raw" /\ s.off = FALSE
    BY <1>7, UndoFacts
  <2>2. pinned' = pinned /\ fkOff' = FALSE /\ fk' = fk
    BY <1>2, <2>1 DEF Ran, RunChange, RunSwap, RunPragma, RunRaw, RunEngine, NoteOff
  <2>3. prog' = <<Stmt("ROLLBACK")>>
    BY <1>2, <1>7, UndoFacts
  <2>4. Undoing'
    BY <1>2, <1>3, <1>7, <2>2, <2>3 DEF Undoing
  <2> QED BY <1>4, <2>1, <2>2, <2>4 DEF Undoes
<1>8. CASE prog = <<Stmt("ROLLBACK")>> /\ (~cancelled => fk)
  <2>1. s.op = "ROLLBACK"
    BY <1>8, UndoFacts
  <2>2. open' = FALSE /\ pinned' = FALSE /\ fkOff' = fkOff /\ fk' = fk
    BY <1>2, <2>1 DEF Ran, RunChange, RunSwap, RunPragma, RunRaw, RunEngine, NoteOff
  <2>3. prog' = <<>> /\ todo' = <<>>
    BY <1>2, <1>3, <1>8, UndoFacts
  <2>4. Conn("out")'
    BY <1>2, <1>3, <1>8, <2>2 DEF Conn
  <2>5. Ahead(1, IF 1 = 1 THEN Len(db.rows) + 1 ELSE Len(db.rows))'
    <3>1. DOMAIN todo' = {}
      BY <2>3
    <3> QED BY <3>1 DEF Ahead
  <2>6. Resting'
    BY <2>3, <2>4, <2>5 DEF Resting
  <2> QED BY <1>1, <1>3, <1>4, <2>1, <2>2, <2>6 DEF Undoes
<1> QED BY <1>5, <1>6, <1>7, <1>8 DEF Undoing

\* The connection as the next statement meets it, whatever becomes of the statement.
Facing(s) ==
  /\ ~pinned => ~open /\ (~cancelled => fk) /\ s.op \in Kinds \cup {"record", "BEGIN"}
  /\ s.op = "BEGIN" => ~pinned
  /\ pinned /\ fkOff /\ s.op \notin Engine =>
       Backend = "sqlite" /\ (\/ s.op \in {"ON", "BEGIN raw"}
                              \/ (open /\ s.op \in {"copy", "drop", "swap", "COMMIT raw"}))
  /\ pinned /\ ~fkOff /\ ~cancelled =>
       fk \/ s.op \in {"ON", "BEGIN raw"} \/ (s.op = "ROLLBACK raw" /\ open)
  /\ s.op = "BEGIN raw" => ~open

LEMMA PlaceFaces ==
  ASSUME open \in BOOLEAN, pinned \in BOOLEAN, fk \in BOOLEAN, fkOff \in BOOLEAN,
         NEW p \in DOMAIN Files, NEW to \in {0, 1}, NEW a \in Places, NEW c \in Places,
         NEW s, Conn(a.m), Goes(p, to, a, s, c)
  PROVE  Facing(s)
<1>1. CASE GoesChange(p, to, a, s, c) \/ GoesRecord(p, to, a, s, c)
  <2>1. a.m \in {"in", "out"} /\ s.op \in Kinds \cup {"record"}
    BY <1>1, WorkStep
  <2>2. s.op \notin {"BEGIN", "BEGIN raw"}
    BY <2>1 DEF Kinds
  <2> QED BY <2>1, <2>2 DEF Facing, Conn
<1>2. CASE GoesEngine(p, a, s, c)
  <2>1. (a.m = "out" /\ s.op = "BEGIN") \/ (a.m = "in" /\ s.op = "COMMIT")
    BY <1>2 DEF GoesEngine, Stmt
  <2> QED BY <2>1 DEF Facing, Conn, Engine
<1>3. CASE GoesRaw(p, to, a, s, c)
  <2>1. Backend = "sqlite"
    BY <1>3 DEF GoesRaw
  <2>2. CASE a.m \in {"in", "swapped"} /\ s = Stmt("COMMIT raw")
    <3>1. s.op = "COMMIT raw"
      BY <2>2 DEF Stmt
    <3> QED BY <2>1, <2>2, <3>1 DEF Facing, Conn, Engine
  <2>3. CASE a.m = "paused" /\ s = Stmt("OFF")
    <3>1. s.op = "OFF"
      BY <2>3 DEF Stmt
    <3> QED BY <2>1, <2>3, <3>1 DEF Facing, Conn, Engine
  <2>4. CASE a.m \in {"off", "on"} /\ \E f \in BOOLEAN : s = [op |-> "BEGIN raw", off |-> f]
    <3>1. PICK f \in BOOLEAN : s = [op |-> "BEGIN raw", off |-> f]
      BY <2>4
    <3>2. s.op = "BEGIN raw"
      BY <3>1
    <3> QED BY <2>1, <2>4, <3>2 DEF Facing, Conn, Engine
  <2>5. CASE /\ a.m \in {"new", "copied", "dropped"}
             /\ \/ s = Stmt("copy") \/ s = Stmt("drop")
                \/ s = [op |-> "swap", on |-> Nth(p, to, a.k + 1).on, to |-> to]
    <3>1. s.op \in {"copy", "drop", "swap"}
      BY <2>5 DEF Stmt
    <3> QED BY <2>1, <2>5, <3>1 DEF Facing, Conn, Engine
  <2>6. CASE a.m = "done" /\ s = Stmt("ON")
    <3>1. s.op = "ON"
      BY <2>6 DEF Stmt
    <3> QED BY <2>1, <2>6, <3>1 DEF Facing, Conn, Engine
  <2> QED BY <1>3, <2>2, <2>3, <2>4, <2>5, <2>6 DEF GoesRaw
<1> QED BY <1>1, <1>2, <1>3 DEF Goes

LEMMA RunningFaces ==
  ASSUME RunnerInv, Running
  PROVE  Facing(Head(prog)) /\ (Ran(Head(prog)) => DataInv')
<1>1. DataInv /\ open \in BOOLEAN /\ pinned \in BOOLEAN /\ fk \in BOOLEAN /\ fkOff \in BOOLEAN
  BY DEF RunnerInv, FlagsInv
<1>2. PICK p \in DOMAIN Files, to \in {0, 1}, a \in Places, c \in Places :
        Here(p, to, a) /\ Goes(p, to, a, Head(prog), c)
  BY RunningFacts
<1>3. Conn(a.m)
  BY <1>2 DEF Here
<1>4. Facing(Head(prog))
  BY <1>1, <1>2, <1>3, PlaceFaces
<1>5. Ran(Head(prog)) => DataInv'
  BY <1>1, <1>2, RanData DEF There
<1> QED BY <1>4, <1>5

LEMMA UndoingFaces ==
  ASSUME RunnerInv, Undoing
  PROVE  Facing(Head(prog)) /\ (Ran(Head(prog)) => DataInv')
<1> DEFINE s == Head(prog)
<1>1. pinned /\ ~fkOff
  BY DEF Undoing
<1>2. \/ s.op = "ROLLBACK raw" /\ (~cancelled => open)
      \/ s.op = "ON"
      \/ s.op = "BEGIN raw" /\ ~open
      \/ s.op = "ROLLBACK" /\ (~cancelled => fk)
  BY UndoFacts DEF Undoing
<1>3. Facing(s)
  <2> HIDE DEF s
  <2> QED BY <1>1, <1>2 DEF Facing, Engine, Kinds
<1>4. ASSUME Ran(s) PROVE DataInv'
  <2>1. DataInv /\ Undoes(s)
    BY <1>2 DEF RunnerInv, Undoes
  <2> HIDE DEF s
  <2> QED BY <1>4, <2>1, UndoData
<1> QED BY <1>3, <1>4

LEMMA Faces ==
  ASSUME RunnerInv, prog # <<>>
  PROVE  Facing(Head(prog)) /\ (Ran(Head(prog)) => DataInv')
<1>1. Running \/ Undoing
  BY DEF RunnerInv, Resting
<1> QED BY <1>1, RunningFaces, UndoingFaces

\* A statement has raised: either the connection goes back to the pool as it should be,
\* or what is left undoes the transaction.
LEMMA RaiseRunner ==
  ASSUME RunnerInv, DataInv', NEW s, Raise(s),
         open' \in BOOLEAN, pinned' \in BOOLEAN, fk' \in BOOLEAN, cancelled' \in BOOLEAN,
         faults' \in 0 .. MaxFaults, downgrades' = downgrades,
         s.op \in Engine \/ ~pinned => ~pinned' /\ ~open' /\ (~cancelled' => fk'),
         s.op \notin Engine /\ pinned =>
           /\ pinned'
           /\ fkOff => Backend = "sqlite" /\ (~cancelled' => open')
           /\ ~fkOff => (~cancelled' => fk')
  PROVE  RunnerInv'
<1>1. todo' = <<>> /\ fkOff' = FALSE /\ prog' = Unwind(s)
  BY DEF Raise
<1>2. FlagsInv'
  <2>1. todo' \in Seq([name : Names, to : {0, 1}])
    BY <1>1
  <2> QED BY <1>1, <2>1 DEF FlagsInv, RunnerInv
<1>3. CASE s.op \in Engine \/ ~pinned
  <2>1. prog' = <<>>
    BY <1>1, <1>3 DEF Unwind, Engine
  <2>2. Conn("out")'
    BY <1>1, <1>3 DEF Conn
  <2>3. Ahead(1, IF 1 = 1 THEN Len(db.rows) + 1 ELSE Len(db.rows))'
    <3>1. DOMAIN todo' = {}
      BY <1>1
    <3> QED BY <3>1 DEF Ahead
  <2>4. Resting'
    BY <2>1, <2>2, <2>3 DEF Resting
  <2> QED BY <1>2, <2>4 DEF RunnerInv
<1>4. CASE s.op \notin Engine /\ pinned
  <2>1. prog' = IF fkOff THEN Append(Except, Stmt("ROLLBACK")) ELSE <<Stmt("ROLLBACK")>>
    BY <1>1, <1>4 DEF Unwind, Engine
  <2>2. Undoing'
    BY <1>1, <1>4, <2>1 DEF Undoing
  <2> QED BY <1>2, <2>2 DEF RunnerInv
<1> QED BY <1>3, <1>4

\* A refused statement leaves the data as they are.
LEMMA RefusedData ==
  ASSUME DataInv, open \in BOOLEAN, NEW s, Refused(s)
  PROVE  DataInv'
<1>1. CASE UNCHANGED <<db, tx>>
  BY <1>1 DEF DataInv, FirstFiles, Whole, WholeBut, Atomically
<1>2. CASE Leaves(View, TRUE)
  <2>1. Sound(View)
    BY ViewFacts DEF Sound
  <2>2. Atomically /\ ~(open /\ (TransactionalDDL \/ ~TRUE)) => Whole(View)
    BY DEF Atomically, TransactionalDDL, DataInv, View
  <2> QED BY <1>2, <2>1, <2>2, LeavesData
<1> QED BY <1>1, <1>2 DEF Refused

\* What Refused says of the connection.
LEMMA RefusedOpen ==
  ASSUME open \in BOOLEAN, NEW s, Refused(s)
  PROVE  /\ s.op \in {"COMMIT", "ROLLBACK"} => open' = FALSE /\ pinned' = FALSE /\ fk' = TRUE
         /\ s.op \notin {"COMMIT", "ROLLBACK"} =>
              /\ open' \in BOOLEAN /\ (~open => ~open') /\ UNCHANGED <<pinned, fk>>
              /\ s.op \notin Kinds => open' = open
<1>1. Leaves(View, TRUE) => open' \in BOOLEAN /\ (~open => ~open')
  BY LeavesOpen
<1> QED BY <1>1 DEF Refused, Kinds

LEMMA RefusedRunner ==
  ASSUME RunnerInv, prog # <<>>, ~Accepts(Head(prog)) \/ CanFail(Head(prog)),
         Refused(Head(prog)), Raise(Head(prog)),
         faults' \in 0 .. MaxFaults, UNCHANGED <<cancelled, downgrades>>
  PROVE  RunnerInv'
<1> DEFINE s == Head(prog)
<1>1. Facing(s) /\ (~Accepts(s) \/ CanFail(s)) /\ Refused(s) /\ Raise(s)
  BY Faces
<1>2. /\ open \in BOOLEAN /\ pinned \in BOOLEAN /\ fk \in BOOLEAN /\ fkOff \in BOOLEAN /\ DataInv
      /\ cancelled \in BOOLEAN /\ cancelled' = cancelled /\ downgrades' = downgrades
  BY DEF RunnerInv, FlagsInv
<1> HIDE DEF s
<1>3. DataInv'
  BY <1>1, <1>2, RefusedData
<1>4. /\ s.op \in {"COMMIT", "ROLLBACK"} => open' = FALSE /\ pinned' = FALSE /\ fk' = TRUE
      /\ s.op \notin {"COMMIT", "ROLLBACK"} =>
           /\ open' \in BOOLEAN /\ (~open => ~open') /\ UNCHANGED <<pinned, fk>>
           /\ s.op \notin Kinds => open' = open
  BY <1>1, <1>2, RefusedOpen
<1>5. /\ s.op \notin {"ON", "BEGIN raw"}
      /\ ~(s.op = "ROLLBACK raw" /\ open)
  <2>1. s.op = "ON" => Accepts(s) /\ ~CanFail(s)
    BY DEF Accepts, CanFail
  <2>2. s.op = "BEGIN raw" => Accepts(s) /\ ~CanFail(s)
    BY <1>1 DEF Accepts, CanFail, Facing
  <2>3. s.op = "ROLLBACK raw" /\ open => Accepts(s) /\ ~CanFail(s)
    BY DEF Accepts, CanFail
  <2> QED BY <1>1, <2>1, <2>2, <2>3
<1>6. s.op \in Engine \/ ~pinned => ~pinned' /\ ~open' /\ (~cancelled' => fk')
  <2>1. CASE s.op \in {"COMMIT", "ROLLBACK"}
    BY <1>4, <2>1
  <2>2. CASE s.op \notin {"COMMIT", "ROLLBACK"}
    <3> SUFFICES ASSUME s.op \in Engine \/ ~pinned PROVE ~pinned' /\ ~open' /\ (~cancelled' => fk')
      OBVIOUS
    <3>1. ~pinned /\ ~open /\ (~cancelled => fk)
      BY <1>1, <2>2 DEF Facing, Engine
    <3> QED BY <1>2, <1>4, <2>2, <3>1
  <2> QED BY <2>1, <2>2
<1>7. ASSUME s.op \notin Engine, pinned
      PROVE  /\ pinned'
             /\ fkOff => Backend = "sqlite" /\ (~cancelled' => open')
             /\ ~fkOff => (~cancelled' => fk')
  <2>1. /\ pinned' = pinned /\ fk' = fk
        /\ s.op \notin Kinds => open' = open
    BY <1>4, <1>7 DEF Engine
  <2>2. fkOff => Backend = "sqlite" /\ open /\ s.op \in {"copy", "drop", "swap", "COMMIT raw"}
    BY <1>1, <1>5, <1>7 DEF Facing
  <2>3. ~fkOff /\ ~cancelled => fk
    BY <1>1, <1>5, <1>7 DEF Facing
  <2>4. s.op \in {"copy", "drop", "swap", "COMMIT raw"} => s.op \notin Kinds
    BY DEF Kinds
  <2>5. pinned'
    BY <1>7, <2>1
  <2>6. ASSUME fkOff PROVE Backend = "sqlite" /\ (~cancelled' => open')
    <3>1. Backend = "sqlite" /\ open /\ s.op \in {"copy", "drop", "swap", "COMMIT raw"}
      BY <2>2, <2>6
    <3>2. open' = open
      BY <2>1, <2>4, <3>1
    <3> QED BY <3>1, <3>2
  <2>7. ~fkOff => (~cancelled' => fk')
    BY <1>2, <2>1, <2>3
  <2> QED BY <2>5, <2>6, <2>7
<1>8. open' \in BOOLEAN /\ pinned' \in BOOLEAN /\ fk' \in BOOLEAN /\ cancelled' \in BOOLEAN
  BY <1>2, <1>4
<1> QED BY <1>1, <1>2, <1>3, <1>6, <1>7, <1>8, RaiseRunner

LEMMA RefuseRunner == ASSUME RunnerInv, Refuse PROVE RunnerInv'
<1>1. faults' \in 0 .. MaxFaults
  BY DEF Refuse, RunnerInv, FlagsInv
<1> QED BY <1>1, RefusedRunner DEF Refuse

LEMMA FailRunner == ASSUME RunnerInv, Fail PROVE RunnerInv'
<1>1. faults' \in 0 .. MaxFaults
  BY BoundsAssumption DEF Fail, RunnerInv, FlagsInv
<1> QED BY <1>1, RefusedRunner DEF Fail

\* A cancelled statement that ran after all.
LEMMA RanOpen ==
  ASSUME open \in BOOLEAN, pinned \in BOOLEAN, fk \in BOOLEAN, NEW s, Facing(s), Ran(s),
         s.op # "BEGIN"
  PROVE  /\ s.op \in Engine \/ ~pinned => ~pinned' /\ ~open'
         /\ s.op \notin Engine /\ pinned => pinned'
<1>1. CASE s.op \in Engine
  BY <1>1 DEF Engine, Ran, RunChange, RunSwap, RunPragma, RunRaw, RunEngine
<1>2. CASE s.op \notin Engine
  <2>1. pinned' = pinned
    BY <1>2 DEF Engine, Ran, RunChange, RunSwap, RunPragma, RunRaw, RunEngine
  <2>2. ASSUME ~pinned PROVE ~open'
    <3>1. ~open /\ s.op \in Kinds \cup {"record"}
      BY <2>2 DEF Facing
    <3>2. RunChange(s)
      BY <3>1 DEF Ran, RunSwap, RunPragma, RunRaw, RunEngine, Kinds
    <3> QED BY <3>1, <3>2, ChangeOpen
  <2> QED BY <1>2, <2>1, <2>2
<1> QED BY <1>1, <1>2

LEMMA CancelRunner == ASSUME RunnerInv, Cancel PROVE RunnerInv'
<1> DEFINE s == Head(prog)
<1>1. /\ Facing(s) /\ Raise(s) /\ cancelled' = TRUE /\ downgrades' = downgrades
      /\ (Ran(s) /\ s.op # "BEGIN") \/ Dropped(s)
      /\ Ran(s) => DataInv'
  BY Faces DEF Cancel
<1>2. /\ open \in BOOLEAN /\ pinned \in BOOLEAN /\ fk \in BOOLEAN /\ fkOff \in BOOLEAN /\ DataInv
  BY DEF RunnerInv, FlagsInv
<1>3. faults' \in 0 .. MaxFaults
  BY BoundsAssumption DEF Cancel, RunnerInv, FlagsInv
<1> HIDE DEF s
<1>4. /\ DataInv' /\ open' \in BOOLEAN /\ pinned' \in BOOLEAN /\ fk' \in BOOLEAN
      /\ s.op \in Engine \/ ~pinned => ~pinned' /\ ~open'
      /\ s.op \notin Engine /\ pinned => pinned'
  <2>1. CASE Ran(s) /\ s.op # "BEGIN"
    <3>1. open' \in BOOLEAN /\ pinned' \in BOOLEAN /\ fk' \in BOOLEAN
      BY <1>2, <2>1, RanFlags
    <3>2. /\ s.op \in Engine \/ ~pinned => ~pinned' /\ ~open'
          /\ s.op \notin Engine /\ pinned => pinned'
      BY <1>1, <1>2, <2>1, RanOpen
    <3> QED BY <1>1, <2>1, <3>1, <3>2
  <2>2. CASE Dropped(s)
    <3>1. UNCHANGED <<db, tx, fk>>
          /\ (s.op \in Engine => open' = FALSE /\ pinned' = FALSE)
          /\ (s.op \notin Engine => open' = open /\ pinned' = pinned)
      BY <2>2 DEF Dropped, Engine
    <3>2. DataInv'
      BY <1>2, <3>1 DEF DataInv, FirstFiles, Whole, WholeBut, Atomically
    <3>3. ~pinned => ~open
      BY <1>1 DEF Facing
    <3>4. CASE s.op \in Engine
      BY <1>2, <3>1, <3>2, <3>4
    <3>5. CASE s.op \notin Engine
      <4>1. open' = open /\ pinned' = pinned /\ fk' = fk
        BY <3>1, <3>5
      <4>2. ~pinned => ~pinned' /\ ~open'
        BY <3>3, <4>1
      <4> QED BY <1>2, <3>2, <3>5, <4>1, <4>2
    <3> QED BY <3>4, <3>5
  <2> QED BY <1>1, <2>1, <2>2
<1>5. s.op \notin Engine /\ pinned /\ fkOff => Backend = "sqlite"
  BY <1>1 DEF Facing
<1> QED BY <1>1, <1>3, <1>4, <1>5, RaiseRunner

LEMMA CrashRunner == ASSUME RunnerInv, Crash PROVE RunnerInv'
<1>1. /\ open' = FALSE /\ pinned' = FALSE /\ fk' = TRUE /\ fkOff' = FALSE
      /\ prog' = <<>> /\ todo' = <<>> /\ UNCHANGED <<db, tx, cancelled, downgrades>>
  BY DEF Crash
<1>2. faults' \in 0 .. MaxFaults
  BY BoundsAssumption DEF Crash, RunnerInv, FlagsInv
<1>3. FlagsInv'
  <2>1. todo' \in Seq([name : Names, to : {0, 1}])
    BY <1>1
  <2> QED BY <1>1, <1>2, <2>1 DEF FlagsInv, RunnerInv
<1>4. DataInv'
  BY <1>1 DEF DataInv, RunnerInv, FirstFiles, Whole, WholeBut, Atomically
<1>5. Resting'
  <2>1. Conn("out")'
    BY <1>1 DEF Conn
  <2>2. Ahead(1, IF 1 = 1 THEN Len(db.rows) + 1 ELSE Len(db.rows))'
    <3>1. DOMAIN todo' = {}
      BY <1>1
    <3> QED BY <3>1 DEF Ahead
  <2> QED BY <1>1, <2>1, <2>2 DEF Resting
<1> QED BY <1>3, <1>4, <1>5 DEF RunnerInv

LEMMA StepRunner == ASSUME RunnerInv, Step PROVE RunnerInv'
<1>1. Running \/ Undoing
  BY DEF RunnerInv, Resting, Step
<1> QED BY <1>1, StepRunning, StepUndoing

LEMMA StutterRunner == ASSUME RunnerInv, UNCHANGED vars PROVE RunnerInv'
<1>1. UNCHANGED <<db, tx, open, pinned, fk, fkOff, prog, todo, cancelled, faults, downgrades>>
  BY DEF vars, connVars
<1>2. FlagsInv'
  BY <1>1 DEF FlagsInv, RunnerInv
<1>3. DataInv'
  BY <1>1 DEF DataInv, RunnerInv, FirstFiles, Whole, WholeBut, Atomically
<1>4. Resting => Resting'
  BY <1>1 DEF Resting, Conn, Ahead
<1>5. Running => Running'
  BY <1>1 DEF Running, Conn, Ahead, Recorded, Done, View, WholeBut, Partly
<1>6. Undoing => Undoing'
  BY <1>1 DEF Undoing
<1> QED BY <1>2, <1>3, <1>4, <1>5, <1>6 DEF RunnerInv

-----------------------------------------------------------------------------
(* Theorems. *)

\* Whatever migrations there are, the runner's state stays as RunnerInv says: at rest, in
\* the middle of a migration, or undoing one, with the connection and the data to match.
THEOREM Invariance == Spec => []RunnerInv
<1>1. Init => RunnerInv
  BY InitRunner
<1>2. RunnerInv /\ [Next]_vars => RunnerInv'
  <2> SUFFICES ASSUME RunnerInv, [Next]_vars PROVE RunnerInv'
    OBVIOUS
  <2>1. ASSUME NEW i \in DOMAIN Files, Upgrade(i) PROVE RunnerInv'
    BY <2>1, UpgradeRunner
  <2>2. ASSUME NEW i \in DOMAIN Files, Downgrade(i) PROVE RunnerInv'
    BY <2>2, DowngradeRunner
  <2>3. ASSUME NextMigration PROVE RunnerInv'
    BY <2>3, NextMigrationRunner
  <2>4. ASSUME Step PROVE RunnerInv'
    BY <2>4, StepRunner
  <2>5. ASSUME Refuse PROVE RunnerInv'
    BY <2>5, RefuseRunner
  <2>6. ASSUME Fail PROVE RunnerInv'
    BY <2>6, FailRunner
  <2>7. ASSUME Cancel PROVE RunnerInv'
    BY <2>7, CancelRunner
  <2>8. ASSUME Crash PROVE RunnerInv'
    BY <2>8, CrashRunner
  <2>9. ASSUME UNCHANGED vars PROVE RunnerInv'
    BY <2>9, StutterRunner
  <2> QED BY <2>1, <2>2, <2>3, <2>4, <2>5, <2>6, <2>7, <2>8, <2>9 DEF Next
<1> QED BY <1>1, <1>2, PTL DEF Spec

\* Switching foreign keys off around a rebuild harms nobody, for any migrations, on every
\* backend: a rebuild deletes no row that refers to its table, in whatever state earlier
\* failures left the connection, and unless a statement was cancelled the connection is
\* back in the pool only with its keys enforced (_run_op_sql, render_rebuild_table).
THEOREM KeysStaySafe == Spec => []KeysAreSafe
<1>1. ASSUME RunnerInv PROVE KeysAreSafe
  <2>1. ChildrenSurvive
    BY <1>1 DEF RunnerInv, DataInv, ChildrenSurvive
  <2>2. ASSUME ~pinned, ~cancelled PROVE fk
    <3>1. CASE prog = <<>>
      BY <1>1, <2>2, <3>1, RestingFacts DEF Conn
    <3>2. CASE prog # <<>>
      BY <1>1, <2>2, <3>2, Faces DEF Facing
    <3> QED BY <3>1, <3>2
  <2> QED BY <2>1, <2>2 DEF KeysAreSafe, FailureRestoresKeys
<1> QED BY <1>1, Invariance, PTL

\* The migrations recorded are the first ones on disk, in their order, on every backend:
\* no upgrade, downgrade, failure, cancellation or crash leaves a hole (_pending of
\* upgrade, the slice of downgrade).
THEOREM FirstFilesRecorded == Spec => []AppliedIsPrefix
<1>1. RunnerInv => AppliedIsPrefix
  BY DEF RunnerInv, DataInv, FirstFiles, AppliedIsPrefix
<1> QED BY <1>1, Invariance, PTL

\* orm_migrations tells the truth: an atomic file is recorded and every operation of it
\* was done exactly once, or it is not and none was, wherever a failure, a cancellation
\* or a crash stopped a run.  MySQL, which commits at every DDL statement, is excepted,
\* and so are the rebuilds of SQLite (Plain); no operation touches what another of an
\* atomic file touches.
THEOREM RecordsStayTrue ==
  ASSUME Backend # "mysql", TouchedOnce
  PROVE  Spec => []RecordsAreTrue
<1>1. ASSUME RunnerInv PROVE RecordsAreTrue
  <2>1. TypeOK
    <3>1. \A i \in DOMAIN todo : todo[i].name \in Names /\ todo[i].to \in {0, 1}
      <4> SUFFICES ASSUME NEW i \in DOMAIN todo PROVE todo[i].name \in Names /\ todo[i].to \in {0, 1}
        OBVIOUS
      <4>1. todo[i] \in [name : Names, to : {0, 1}]
        BY <1>1, Element DEF RunnerInv, FlagsInv
      <4> QED BY <4>1
    <3> QED BY <1>1, <3>1 DEF RunnerInv, FlagsInv, DataInv, TypeOK
  <2>2. AppliedIsPrefix
    BY <1>1 DEF RunnerInv, DataInv, FirstFiles, AppliedIsPrefix
  <2>3. AllOrNothing
    <3> SUFFICES ASSUME NEW i \in DOMAIN Files, Plain(i), NEW j \in DOMAIN Files[i].ops
                 PROVE  db.has[Files[i].ops[j].on] = IF Files[i].name \in Applied THEN 1 ELSE 0
      BY DEF AllOrNothing
    <3>1. FirstFiles(db.rows) /\ db \in State /\ Whole(db)
      BY <1>1 DEF RunnerInv, DataInv, Atomically
    <3>2. i # 0
      BY FileFacts
    <3>3. db.has[Files[i].ops[j].on] = IF i <= Len(db.rows) THEN 1 ELSE 0
      BY <3>1, <3>2 DEF Whole, WholeBut
    <3> QED BY <3>1, <3>3, NamesOf
  <2> QED BY <2>1, <2>2, <2>3 DEF RecordsAreTrue
<1> QED BY <1>1, Invariance, PTL

=============================================================================
