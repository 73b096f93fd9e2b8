----------------------- MODULE TransactionScope_proofs -----------------------
(***************************************************************************)
(* The invariants of TransactionScope, for any number of tasks and nested  *)
(* blocks and for every backend.                                           *)
(***************************************************************************)
EXTENDS TransactionScope, SequenceTheorems, TLAPS

-----------------------------------------------------------------------------
(* The inductive invariant. *)

\* The outermost block: begun once by Root, who alone ends it; a transaction that is not
\* over has nothing durable.
Outermost ==
  /\ status = "none" => told[0] = "none"
  /\ told[0] = "none" =>
       /\ call[Root].op = "none" => status = "none"
       /\ work = {} /\ saved = <<>> /\ acked = {}
       /\ \A t \in Tasks : ~pinned[t] /\ blocks[t] = <<>> /\ call[t].op \in {"none", "BEGIN"}
  /\ told[0] = "open" <=> pinned[Root]
  /\ told[0] \in {"committed", "rolledback"} => status = "over"
  /\ status # "over" => durable = {}
  /\ told[0] = "rolledback" => durable = {}

\* Calls are made by those who may: BEGIN by Root before everything, COMMIT and ROLLBACK
\* by Root outside its blocks, the others by tasks that hold the transaction.
MayCall(t) ==
  /\ call[t].op = "none" => call[t].ans = "none"
  /\ call[t].op \notin {"none", "BEGIN"} => pinned[t]
  /\ call[t].op = "BEGIN" =>
       /\ t = Root /\ told[0] = "none"
       /\ call[t].ans = "none" => status = "none"
       /\ call[t].ans = "err" => status = "over"
       /\ call[t].ans = "ok" => status # "none"
  /\ call[t].op \in {"COMMIT", "ROLLBACK"} =>
       /\ t = Root /\ blocks[t] = <<>>
       /\ call[t].ans = "ok" => status = "over"
       /\ call[t].op = "ROLLBACK" /\ call[t].ans = "ok" => durable = {}
  /\ call[t].op = "WRITE" => call[t].sp = Innermost(t)
  /\ call[t].op \in {"RELEASE", "ROLLBACK_TO"} =>
       blocks[t] # <<>> /\ call[t].sp = Innermost(t)
  /\ t \notin spawned \cup {Root} => ~pinned[t] /\ blocks[t] = <<>>

Callers == \A t \in Tasks : MayCall(t)

\* The blocks a task is inside have names of their own and nest.
Nesting ==
  /\ around[0] = {0} /\ \A b \in Blocks : b > seq => told[b] = "none" /\ around[b] = {0}
  /\ \A t \in Tasks : \A i \in DOMAIN blocks[t] :
       /\ blocks[t][i] \in 1 .. seq /\ told[blocks[t][i]] = "open"
       /\ around[blocks[t][i]] = {0} \cup {blocks[t][j] : j \in 1 .. i}
  /\ \A t, u \in Tasks : \A i \in DOMAIN blocks[t], j \in DOMAIN blocks[u] :
       blocks[t][i] = blocks[u][j] => t = u /\ i = j
  /\ \A t \in Tasks : call[t].op = "SAVEPOINT" =>
       /\ call[t].sp \in 1 .. seq /\ told[call[t].sp] = "none"
       /\ around[call[t].sp] = {call[t].sp} \cup around[Innermost(t)]
       /\ \A u \in Tasks : call[u].op = "SAVEPOINT" /\ call[u].sp = call[t].sp => u = t

\* Every write there is anywhere.
Writes == work \cup durable \cup acked \cup UNION {saved[i].work : i \in DOMAIN saved}

\* A write is in a block that was entered, so a name not entered yet is around no write.
Entered ==
  \A w \in Writes : w.in \in around[w.in] /\ \A b \in around[w.in] \ {0} : told[b] # "none"

\* A savepoint does not hold the writes of its own block, and no earlier one does.
SavesBefore ==
  \A i \in DOMAIN saved : \A j \in 1 .. i : \A w \in saved[j].work :
    saved[i].sp \notin around[w.in]

\* Block b was rolled back: its task knows, or is about to.
Gone(b) ==
  \/ told[b] = "rolledback"
  \/ \E t \in Tasks : call[t].op = "ROLLBACK_TO" /\ call[t].sp = b /\ call[t].ans = "ok"

GoneIsGone ==
  \A b \in Blocks \ {0} : Gone(b) =>
    /\ \A w \in work \cup durable : b \notin around[w.in]
    /\ \A i \in DOMAIN saved : \A w \in saved[i].work : b \notin around[w.in]

\* A transaction that was never shared: the blocks of Root, with the one it is entering.
Nest ==
  IF call[Root].op = "SAVEPOINT" /\ call[Root].ans = "ok"
    THEN Append(blocks[Root], call[Root].sp) ELSE blocks[Root]

Alone == spawned = {} /\ status = "open"

\* A savepoint of a name not entered yet is being set.
SavesEntered ==
  \A i \in DOMAIN saved :
    \/ told[saved[i].sp] # "none"
    \/ \E t \in Tasks :
         call[t].op = "SAVEPOINT" /\ call[t].sp = saved[i].sp /\ call[t].ans = "ok"

\* Each block of Root has its savepoint, set before those of the blocks inside it, until
\* it is released.
NestIsSaved ==
  Alone => \A k \in DOMAIN Nest :
    /\ Saves(Nest[k]) # {} \/ (k = Len(Nest) /\ call[Root].op = "RELEASE")
    /\ \A j \in 1 .. k - 1 : \A m \in Saves(Nest[k]) : \E l \in Saves(Nest[j]) : l < m

\* What Root wrote and was told, or is about to be.
Answered ==
  acked \cup (IF call[Root].op = "WRITE" /\ call[Root].ans = "ok"
              THEN {[by |-> Root, in |-> call[Root].sp]} ELSE {})

\* A block around the write failed or is being rolled back.
Doomed(w) ==
  \E b \in around[w.in] \ {0} :
    \/ told[b] \in {"failed", "rolledback"}
    \/ call[Root].op = "ROLLBACK_TO" /\ call[Root].sp = b

\* An answered write that is not doomed is in the transaction ...
InWork == Alone => \A w \in Answered : w \in work \/ Doomed(w)

\* ... and in every savepoint Root can still go back to that is not around it; ...
InSaves ==
  Alone => \A k \in DOMAIN Nest : \A m \in Saves(Nest[k]) : \A w \in Answered :
    Nest[k] \in around[w.in] \/ Doomed(w) \/ w \in saved[m].work

\* ... once committed, it is durable.
Committed ==
  /\ spawned = {} /\ ~aborted
  /\ told[0] = "committed" \/ (call[Root].op = "COMMIT" /\ call[Root].ans = "ok")

InDatabase == Committed => \A w \in acked : w \in durable \/ Doomed(w)

WorkIsKept == InWork /\ InSaves /\ InDatabase

ScopeInv ==
  /\ TypeOK /\ Outermost /\ Callers /\ Nesting /\ Entered /\ SavesBefore /\ GoneIsGone
  /\ SavesEntered /\ NestIsSaved /\ WorkIsKept

-----------------------------------------------------------------------------
(* Sequences: what appending, cutting and leaving make of one. *)

USE RootAssumption, BlocksAssumption, ScopeBackendAssumption

SavedRecord == [sp : Blocks, work : SUBSET Write]

LEMMA PrefixFacts ==
  ASSUME NEW S, NEW s \in Seq(S), NEW i \in 0 .. Len(s)
  PROVE  /\ SubSeq(s, 1, i) \in Seq(S) /\ Len(SubSeq(s, 1, i)) = i
         /\ DOMAIN SubSeq(s, 1, i) = 1 .. i
         /\ \A j \in 1 .. i : SubSeq(s, 1, i)[j] = s[j]
OBVIOUS

LEMMA AppendFacts ==
  ASSUME NEW S, NEW s \in Seq(S), NEW x \in S
  PROVE  /\ Append(s, x) \in Seq(S) /\ Len(Append(s, x)) = Len(s) + 1
         /\ DOMAIN s = 1 .. Len(s) /\ Len(s) \in Nat
         /\ DOMAIN Append(s, x) = 1 .. Len(s) + 1
         /\ Append(s, x)[Len(s) + 1] = x
         /\ \A j \in DOMAIN s : Append(s, x)[j] = s[j]
OBVIOUS

\* The innermost block of a task.
LEMMA InnermostFacts ==
  ASSUME TypeOK, NEW t \in Tasks
  PROVE  /\ Innermost(t) \in Blocks
         /\ blocks[t] \in Seq(Blocks) /\ Len(blocks[t]) \in Nat
         /\ DOMAIN blocks[t] = 1 .. Len(blocks[t])
         /\ blocks[t] = <<>> => Innermost(t) = 0
         /\ blocks[t] # <<>> => /\ Len(blocks[t]) \in DOMAIN blocks[t]
                                /\ Innermost(t) = blocks[t][Len(blocks[t])]
BY DEF TypeOK, Innermost, Blocks

\* Leaving it.
LEMMA LeaveFacts ==
  ASSUME TypeOK, NEW t \in Tasks, blocks[t] # <<>>, Leave(t)
  PROVE  /\ blocks' \in [Tasks -> Seq(Blocks)]
         /\ \A u \in Tasks \ {t} : blocks'[u] = blocks[u]
         /\ Len(blocks'[t]) = Len(blocks[t]) - 1
         /\ DOMAIN blocks'[t] = 1 .. Len(blocks[t]) - 1
         /\ \A i \in DOMAIN blocks'[t] : blocks'[t][i] = blocks[t][i]
<1>1. blocks[t] \in Seq(Blocks) /\ Len(blocks[t]) - 1 \in 0 .. Len(blocks[t])
  BY InnermostFacts
<1>2. blocks' = [blocks EXCEPT ![t] = SubSeq(blocks[t], 1, Len(blocks[t]) - 1)]
  BY DEF Leave
<1>3. /\ SubSeq(blocks[t], 1, Len(blocks[t]) - 1) \in Seq(Blocks)
      /\ Len(SubSeq(blocks[t], 1, Len(blocks[t]) - 1)) = Len(blocks[t]) - 1
      /\ DOMAIN SubSeq(blocks[t], 1, Len(blocks[t]) - 1) = 1 .. Len(blocks[t]) - 1
      /\ \A j \in 1 .. Len(blocks[t]) - 1 : SubSeq(blocks[t], 1, Len(blocks[t]) - 1)[j] = blocks[t][j]
  BY <1>1, PrefixFacts
<1> QED
  BY <1>2, <1>3 DEF TypeOK

\* A task inside a block is inside that block and those around it, all open.
LEMMA AroundFacts ==
  ASSUME TypeOK, Nesting, NEW t \in Tasks
  PROVE  /\ around[Innermost(t)] = {0} \cup {blocks[t][j] : j \in DOMAIN blocks[t]}
         /\ Innermost(t) \in around[Innermost(t)]
         /\ \A b \in around[Innermost(t)] \ {0} : told[b] = "open"
<1>1. CASE blocks[t] = <<>>
  <2>1. Innermost(t) = 0 /\ DOMAIN blocks[t] = {}
    BY <1>1 DEF Innermost
  <2> QED
    BY <2>1 DEF Nesting
<1>2. CASE blocks[t] # <<>>
  <2> DEFINE n == Len(blocks[t])
  <2>1. n \in DOMAIN blocks[t] /\ Innermost(t) = blocks[t][n] /\ DOMAIN blocks[t] = 1 .. n
    BY <1>2, InnermostFacts
  <2> HIDE DEF n
  <2>2. around[blocks[t][n]] = {0} \cup {blocks[t][j] : j \in 1 .. n}
    BY <2>1, Zenon DEF Nesting
  <2> QED
    BY <2>1, <2>2 DEF Nesting
<1> QED
  BY <1>1, <1>2

-----------------------------------------------------------------------------
(* Every variable keeps its type. *)

LEMMA CallTypes ==
  ASSUME TypeOK, NEW t \in Tasks
  PROVE  /\ call[t] \in Call
         /\ \A op \in Ops, b \in Blocks : [call EXCEPT ![t] = Awaiting(op, b)] \in [Tasks -> Call]
         /\ [call EXCEPT ![t] = Idle] \in [Tasks -> Call]
         /\ \A r \in {"ok", "err"} : [call EXCEPT ![t].ans = r] \in [Tasks -> Call]
<1>1. call[t] \in Call
  BY DEF TypeOK
<1>2. \A op \in Ops, b \in Blocks : Awaiting(op, b) \in Call
  BY DEF Awaiting, Call
<1>3. Idle \in Call
  BY DEF Idle, Call, Blocks
<1>4. \A r \in {"ok", "err"} : [call[t] EXCEPT !.ans = r] \in Call
  BY <1>1 DEF Call
<1> QED
  BY <1>1, <1>2, <1>3, <1>4 DEF TypeOK

LEMMA TypeStart ==
  ASSUME TypeOK, NEW t \in Tasks,
         Begin(t) \/ EndTask(t) \/ Execute(t) \/ Enter(t) \/ Exit(t) \/ ExitOutermost(t)
  PROVE  TypeOK'
<1>1. UNCHANGED dbVars
  BY DEF Begin, EndTask, Execute, Enter, Exit, ExitOutermost
<1>2. Innermost(t) \in Blocks /\ 0 \in Blocks
  BY InnermostFacts DEF Blocks
<1>3. CASE Begin(t)
  BY <1>1, <1>2, <1>3, CallTypes DEF Begin, Await, TypeOK, dbVars, Ops
<1>4. CASE EndTask(t)
  BY <1>1, <1>4 DEF EndTask, TypeOK, dbVars
<1>5. CASE Execute(t)
  BY <1>1, <1>2, <1>5, CallTypes DEF Execute, Await, TypeOK, dbVars, Ops
<1>6. CASE Enter(t)
  <2>1. seq' \in Blocks
    BY <1>6 DEF Enter, NewSavepoint, TypeOK, Blocks
  <2>2. around' \in [Blocks -> SUBSET Blocks]
    BY <1>2, <1>6, <2>1 DEF Enter, TypeOK
  <2> QED
    BY <1>1, <1>6, <2>1, <2>2, CallTypes DEF Enter, Await, TypeOK, dbVars, Ops
<1>7. CASE Exit(t)
  <2>1. CASE InOrder(Innermost(t))
    <3>1. PICK op \in Ops : call' = [call EXCEPT ![t] = Awaiting(op, Innermost(t))]
      BY <1>7, <2>1 DEF Exit, Await, ExitOp, Ops
    <3>2. call' \in [Tasks -> Call]
      BY <1>2, <3>1, CallTypes
    <3> QED
      BY <1>1, <1>7, <2>1, <3>2 DEF Exit, TypeOK, dbVars
  <2>2. CASE ~InOrder(Innermost(t))
    <3>1. blocks[t] # <<>> /\ Leave(t) /\ told' = [told EXCEPT ![Innermost(t)] = "failed"]
      BY <1>7, <2>2 DEF Exit
    <3>2. blocks' \in [Tasks -> Seq(Blocks)]
      BY <3>1, LeaveFacts
    <3> QED
      BY <1>1, <1>2, <1>7, <2>2, <3>1, <3>2 DEF Exit, TypeOK, dbVars
  <2> QED
    BY <2>1, <2>2
<1>8. CASE ExitOutermost(t)
  <2>1. PICK op \in {"COMMIT", "ROLLBACK"} : call' = [call EXCEPT ![t] = Awaiting(op, 0)]
    BY <1>8 DEF ExitOutermost, Await
  <2>2. call' \in [Tasks -> Call]
    BY <1>2, <2>1, CallTypes DEF Ops
  <2> QED
    BY <1>1, <1>8, <2>2 DEF ExitOutermost, TypeOK, dbVars
<1> QED
  BY <1>3, <1>4, <1>5, <1>6, <1>7, <1>8

LEMMA TypeRun ==
  ASSUME TypeOK, NEW t \in Tasks, Run(t)
  PROVE  TypeOK'
<1>1. PICK r \in {"ok", "err"} :
        /\ Answer(t, r)
        /\ \/ RunBegin(t, r) \/ RunFinished(t, r) \/ RunAborted(t, r) \/ RunWrite(t, r)
           \/ RunSavepoint(t, r) \/ RunRelease(t, r) \/ RunRollbackTo(t, r)
           \/ RunCommit(t, r) \/ RunRollback(t, r)
  BY DEF Run
<1>2. /\ call' \in [Tasks -> Call] /\ call[t].sp \in Blocks
      /\ UNCHANGED <<pinned, blocks, seq, stack, acked, told, around, spawned>>
  BY <1>1, CallTypes DEF Run, Answer, Call
<1>3. SUFFICES /\ status' \in {"none", "open", "over"} /\ saved' \in Seq(SavedRecord)
               /\ work' \subseteq Write /\ aborted' \in BOOLEAN /\ durable' \subseteq Write
  BY <1>2 DEF TypeOK, SavedRecord
<1>4. /\ status \in {"none", "open", "over"} /\ saved \in Seq(SavedRecord)
      /\ work \subseteq Write /\ aborted \in BOOLEAN /\ durable \subseteq Write
      /\ [by |-> t, in |-> call[t].sp] \in Write /\ <<>> \in Seq(SavedRecord)
  BY <1>2 DEF TypeOK, SavedRecord, Write
<1>5. \A b : \A i \in Saves(b) :
        /\ SubSeq(saved, 1, i) \in Seq(SavedRecord) /\ SubSeq(saved, 1, i - 1) \in Seq(SavedRecord)
        /\ saved[i].work \subseteq Write
  <2> SUFFICES ASSUME NEW b, NEW i \in Saves(b)
               PROVE  /\ SubSeq(saved, 1, i) \in Seq(SavedRecord)
                      /\ SubSeq(saved, 1, i - 1) \in Seq(SavedRecord)
                      /\ saved[i].work \subseteq Write
    OBVIOUS
  <2>1. i \in 0 .. Len(saved) /\ i - 1 \in 0 .. Len(saved) /\ saved[i] \in SavedRecord
    BY <1>4 DEF Saves
  <2> QED
    BY <1>4, <2>1, PrefixFacts DEF SavedRecord
<1>6. \A f \in BOOLEAN : AbortIf(f) => aborted' \in BOOLEAN
  BY <1>4 DEF AbortIf
<1>7. CASE RunBegin(t, r) \/ RunFinished(t, r) \/ RunAborted(t, r)
  BY <1>1, <1>4, <1>7 DEF RunBegin, RunFinished, RunAborted, dbVars
<1>8. CASE RunWrite(t, r)
  BY <1>1, <1>4, <1>6, <1>8 DEF RunWrite
<1>9. CASE RunSavepoint(t, r)
  <2>1. [sp |-> call[t].sp, work |-> work] \in SavedRecord
    BY <1>2, <1>4 DEF SavedRecord
  <2> QED
    BY <1>4, <1>9, <2>1 DEF RunSavepoint
<1>10. CASE RunRelease(t, r)
  BY <1>1, <1>4, <1>5, <1>6, <1>10 DEF RunRelease
<1>11. CASE RunRollbackTo(t, r)
  BY <1>1, <1>4, <1>5, <1>6, <1>11 DEF RunRollbackTo
<1>12. CASE RunCommit(t, r)
  BY <1>4, <1>12 DEF RunCommit, IsOver
<1>13. CASE RunRollback(t, r)
  BY <1>4, <1>13 DEF RunRollback, IsOver
<1> QED
  BY <1>1, <1>7, <1>8, <1>9, <1>10, <1>11, <1>12, <1>13

LEMMA TypeResumes ==
  ASSUME TypeOK, Callers, NEW t \in Tasks, NEW ok \in BOOLEAN, Resumes(t, ok),
         UNCHANGED <<status, saved, work>> \/ IsOver, UNCHANGED <<aborted, durable>>
  PROVE  TypeOK'
<1>1. /\ status' \in {"none", "open", "over"} /\ saved' \in Seq(SavedRecord) /\ work' \subseteq Write
      /\ aborted' \in BOOLEAN /\ durable' \subseteq Write
  <2>1. <<>> \in Seq(SavedRecord)
    OBVIOUS
  <2> QED
    BY <2>1 DEF IsOver, TypeOK, SavedRecord
<1>2. /\ call[t].sp \in Blocks /\ call' \in [Tasks -> Call] /\ 0 \in Blocks
      /\ UNCHANGED <<seq, around, spawned>>
  <2>1. call[t] \in Call /\ [call EXCEPT ![t] = Idle] \in [Tasks -> Call]
    BY CallTypes
  <2> QED
    BY <2>1 DEF Resumes, Call, Blocks
<1>3. SUFFICES /\ pinned' \in [Tasks -> BOOLEAN] /\ blocks' \in [Tasks -> Seq(Blocks)]
               /\ stack' \in Seq(Blocks) /\ acked' \subseteq Write
               /\ told' \in [Blocks -> {"none", "open", "released", "rolledback", "failed", "committed"}]
  BY <1>1, <1>2 DEF TypeOK, SavedRecord
<1>4. [by |-> t, in |-> call[t].sp] \in Write
  BY <1>2 DEF Write
<1>5. CASE ResumeBegin(t, ok)
  BY <1>2, <1>5 DEF ResumeBegin, Tell, TypeOK
<1>6. CASE ResumeExecute(t, ok)
  BY <1>4, <1>6 DEF ResumeExecute, TypeOK
<1>7. CASE ResumeEnter(t, ok)
  <2>1. Append(stack, call[t].sp) \in Seq(Blocks) /\ Append(blocks[t], call[t].sp) \in Seq(Blocks)
    BY <1>2, AppendFacts DEF TypeOK
  <2> QED
    BY <1>2, <1>7, <2>1 DEF ResumeEnter, Tell, TypeOK
<1>8. CASE ResumeExit(t, ok)
  <2>1. blocks[t] # <<>> /\ Leave(t)
    BY <1>8 DEF ResumeExit, Callers, MayCall
  <2>2. Pop(call[t].sp) => stack' \in Seq(Blocks)
    <3> DEFINE i == CHOOSE j \in DOMAIN stack : stack[j] = call[t].sp
    <3>1. CASE \E j \in DOMAIN stack : stack[j] = call[t].sp
      <4>1. i \in DOMAIN stack
        BY <3>1
      <4>2. i - 1 \in 0 .. Len(stack) /\ stack \in Seq(Blocks)
        BY <4>1 DEF TypeOK
      <4> HIDE DEF i
      <4>3. SubSeq(stack, 1, i - 1) \in Seq(Blocks)
        BY <4>2, PrefixFacts
      <4> QED
        BY <3>1, <4>3 DEF Pop, i
    <3>2. CASE ~\E j \in DOMAIN stack : stack[j] = call[t].sp
      BY <3>2 DEF Pop, TypeOK
    <3> QED
      BY <3>1, <3>2
  <2>3. stack' \in Seq(Blocks)
    BY <1>8, <2>2 DEF ResumeExit, TypeOK
  <2> QED
    BY <1>2, <1>8, <2>1, <2>3, LeaveFacts DEF ResumeExit, Tell, TypeOK
<1>9. CASE ResumeOutermost(t, ok)
  BY <1>2, <1>9 DEF ResumeOutermost, Tell, TypeOK
<1> QED
  BY <1>5, <1>6, <1>7, <1>8, <1>9 DEF Resumes

LEMMA TypeElse ==
  ASSUME TypeOK, Lose \/ Abandon \/ UNCHANGED vars \/ \E t, u \in Tasks : Spawn(t, u)
  PROVE  TypeOK'
<1>1. CASE Lose \/ Abandon
  <2>1. <<>> \in Seq(SavedRecord)
    OBVIOUS
  <2> QED
    BY <1>1, <2>1 DEF Lose, Abandon, IsOver, pyVars, TypeOK, SavedRecord
<1>2. CASE UNCHANGED vars
  BY <1>2 DEF vars, pyVars, dbVars, TypeOK
<1>3. CASE \E t, u \in Tasks : Spawn(t, u)
  BY <1>3 DEF Spawn, dbVars, TypeOK
<1> QED
  BY <1>1, <1>2, <1>3

LEMMA TypeStep ==
  ASSUME TypeOK, Callers, [Next]_vars
  PROVE  TypeOK'
<1>1. ASSUME NEW t \in Tasks, Resume(t) PROVE TypeOK'
  <2>1. (call[t].ans = "ok") \in BOOLEAN
    OBVIOUS
  <2> QED
    BY <1>1, <2>1, TypeResumes DEF Resume, dbVars
<1>2. ASSUME NEW t \in Tasks, Cancel(t) PROVE TypeOK'
  BY <1>2, TypeResumes DEF Cancel
<1> QED
  BY <1>1, <1>2, TypeStart, TypeRun, TypeElse DEF Next

-----------------------------------------------------------------------------
(* Who may call, the outermost block and the nesting. *)

LEMMA AwaitFacts ==
  ASSUME TypeOK, NEW t \in Tasks, NEW op, NEW b, Await(t, op, b)
  PROVE  /\ call'[t].op = op /\ call'[t].sp = b /\ call'[t].ans = "none"
         /\ \A u \in Tasks \ {t} : call'[u] = call[u]
BY DEF TypeOK, Await, Awaiting

LEMMA AnswerFacts ==
  ASSUME TypeOK, NEW t \in Tasks, NEW r, Answer(t, r)
  PROVE  /\ call'[t].op = call[t].op /\ call'[t].sp = call[t].sp /\ call'[t].ans = r
         /\ \A u \in Tasks \ {t} : call'[u] = call[u]
BY DEF TypeOK, Answer, Call

LEMMA IdleFacts ==
  ASSUME TypeOK, NEW t \in Tasks, call' = [call EXCEPT ![t] = Idle]
  PROVE  /\ call'[t].op = "none" /\ call'[t].sp = 0 /\ call'[t].ans = "none"
         /\ \A u \in Tasks \ {t} : call'[u] = call[u]
BY DEF TypeOK, Idle

\* What another task's step leaves a task.
LEMMA OthersMayCall ==
  ASSUME NEW u \in Tasks, MayCall(u), call'[u] = call[u], blocks'[u] = blocks[u],
         pinned'[u] = pinned[u], spawned \subseteq spawned',
         call[u].op = "BEGIN" /\ told[0] = "none" => told'[0] = "none",
         call[u].op = "BEGIN" /\ status = "none" => status' = "none",
         status = "over" => status' = "over" /\ durable' = durable,
         status' # "none" \/ status = "none"
  PROVE  MayCall(u)'
<1>1. Innermost(u)' = Innermost(u)
  BY DEF Innermost
<1> QED
  BY <1>1 DEF MayCall

\* Steps that enter and leave no block.
LEMMA NestingKept ==
  ASSUME TypeOK, Nesting, seq' = seq, around' = around, blocks' = blocks,
         \A b \in Blocks \ {0} : told'[b] = told[b],
         0 > seq => told'[0] = "none",
         \A u \in Tasks : call'[u].op = "SAVEPOINT" =>
           call[u].op = "SAVEPOINT" /\ call[u].sp = call'[u].sp
  PROVE  Nesting'
<1>1. \A u \in Tasks : Innermost(u)' = Innermost(u)
  BY DEF Innermost
<1>2. seq \in Nat /\ 1 .. seq \subseteq Blocks \ {0}
  BY DEF TypeOK, Blocks
<1>3. around'[0] = {0} /\ \A b \in Blocks : b > seq' => told'[b] = "none" /\ around'[b] = {0}
  BY <1>2 DEF Nesting, Blocks
<1>4. ASSUME NEW t \in Tasks, NEW i \in DOMAIN blocks'[t]
      PROVE  /\ blocks'[t][i] \in 1 .. seq' /\ told'[blocks'[t][i]] = "open"
             /\ around'[blocks'[t][i]] = {0} \cup {blocks'[t][j] : j \in 1 .. i}
  <2>1. i \in DOMAIN blocks[t]
    BY <1>4
  <2>2. \A u \in Tasks : \A k \in DOMAIN blocks[u] :
          /\ blocks[u][k] \in 1 .. seq /\ told[blocks[u][k]] = "open"
          /\ around[blocks[u][k]] = {0} \cup {blocks[u][j] : j \in 1 .. k}
    BY Zenon DEF Nesting
  <2>3. /\ blocks[t][i] \in 1 .. seq /\ told[blocks[t][i]] = "open"
        /\ around[blocks[t][i]] = {0} \cup {blocks[t][j] : j \in 1 .. i}
    BY <2>1, <2>2, Zenon
  <2>4. told'[blocks[t][i]] = told[blocks[t][i]]
    BY <1>2, <2>3
  <2> QED
    BY <2>3, <2>4
<1>5. \A t, u \in Tasks : \A i \in DOMAIN blocks'[t], j \in DOMAIN blocks'[u] :
        blocks'[t][i] = blocks'[u][j] => t = u /\ i = j
  <2>1. \A t, u \in Tasks : \A i \in DOMAIN blocks[t], j \in DOMAIN blocks[u] :
          blocks[t][i] = blocks[u][j] => t = u /\ i = j
    BY Zenon DEF Nesting
  <2> QED
    BY <2>1
<1>6. ASSUME NEW t \in Tasks, call'[t].op = "SAVEPOINT"
      PROVE  /\ call'[t].sp \in 1 .. seq' /\ told'[call'[t].sp] = "none"
             /\ around'[call'[t].sp] = {call'[t].sp} \cup around'[Innermost(t)']
             /\ \A u \in Tasks : call'[u].op = "SAVEPOINT" /\ call'[u].sp = call'[t].sp => u = t
  <2>1. call[t].op = "SAVEPOINT" /\ call[t].sp = call'[t].sp
    BY <1>6
  <2>2. /\ call[t].sp \in 1 .. seq /\ told[call[t].sp] = "none"
        /\ around[call[t].sp] = {call[t].sp} \cup around[Innermost(t)]
        /\ \A u \in Tasks : call[u].op = "SAVEPOINT" /\ call[u].sp = call[t].sp => u = t
    BY <2>1 DEF Nesting
  <2> QED
    BY <1>1, <1>2, <2>1, <2>2
<1> QED
  BY <1>3, <1>4, <1>5, <1>6 DEF Nesting

\* Leaving the innermost block.
LEMMA NestingLeft ==
  ASSUME TypeOK, Nesting, NEW t \in Tasks, blocks[t] # <<>>, Leave(t), NEW how,
         seq' = seq, around' = around, told' = [told EXCEPT ![Innermost(t)] = how],
         \A u \in Tasks : call'[u].op = "SAVEPOINT" =>
           u # t /\ call[u].op = "SAVEPOINT" /\ call[u].sp = call'[u].sp
  PROVE  Nesting'
<1> DEFINE n == Len(blocks[t])
<1>1. /\ n \in DOMAIN blocks[t] /\ Innermost(t) = blocks[t][n]
      /\ Innermost(t) \in 1 .. seq /\ told[Innermost(t)] = "open"
  BY InnermostFacts DEF Nesting
<1>2. seq \in Nat /\ 1 .. seq \subseteq Blocks \ {0} /\ n \in Nat
  BY InnermostFacts DEF TypeOK, Blocks
<1>3. /\ \A u \in Tasks \ {t} : blocks'[u] = blocks[u]
      /\ DOMAIN blocks'[t] = 1 .. n - 1 /\ DOMAIN blocks[t] = 1 .. n
      /\ \A i \in DOMAIN blocks'[t] : blocks'[t][i] = blocks[t][i]
  BY LeaveFacts, InnermostFacts
<1>4. \A u \in Tasks \ {t} : Innermost(u)' = Innermost(u)
  BY <1>3 DEF Innermost
<1>5. \A b \in Blocks : b # Innermost(t) => told'[b] = told[b]
  BY DEF TypeOK
<1> HIDE DEF n
<1>6. around'[0] = {0} /\ \A b \in Blocks : b > seq' => told'[b] = "none" /\ around'[b] = {0}
  BY <1>1, <1>2, <1>5 DEF Nesting, Blocks
<1>7. ASSUME NEW u \in Tasks, NEW i \in DOMAIN blocks'[u]
      PROVE  /\ i \in DOMAIN blocks[u] /\ blocks'[u][i] = blocks[u][i]
             /\ blocks'[u][i] \in 1 .. seq' /\ told'[blocks'[u][i]] = "open"
             /\ around'[blocks'[u][i]] = {0} \cup {blocks'[u][j] : j \in 1 .. i}
  <2>1. i \in DOMAIN blocks[u] /\ blocks'[u][i] = blocks[u][i] /\ (u = t => i \in 1 .. n - 1)
    BY <1>2, <1>3, <1>7
  <2>2. /\ blocks[u][i] \in 1 .. seq /\ told[blocks[u][i]] = "open"
        /\ around[blocks[u][i]] = {0} \cup {blocks[u][j] : j \in 1 .. i}
    BY <2>1, Zenon DEF Nesting
  <2>3. blocks[u][i] # Innermost(t)
    <3>1. u = t => i # n
      BY <1>2, <2>1
    <3> QED
      BY <1>1, <2>1, <3>1 DEF Nesting
  <2>4. \A j \in 1 .. i : blocks'[u][j] = blocks[u][j]
    BY <1>2, <1>3, <2>1
  <2> QED
    BY <1>2, <1>5, <2>1, <2>2, <2>3, <2>4
<1>8. \A v, u \in Tasks : \A i \in DOMAIN blocks'[v], j \in DOMAIN blocks'[u] :
        blocks'[v][i] = blocks'[u][j] => v = u /\ i = j
  BY <1>7 DEF Nesting
<1>9. ASSUME NEW v \in Tasks, call'[v].op = "SAVEPOINT"
      PROVE  /\ call'[v].sp \in 1 .. seq' /\ told'[call'[v].sp] = "none"
             /\ around'[call'[v].sp] = {call'[v].sp} \cup around'[Innermost(v)']
             /\ \A u \in Tasks : call'[u].op = "SAVEPOINT" /\ call'[u].sp = call'[v].sp => u = v
  <2>1. v # t /\ call[v].op = "SAVEPOINT" /\ call[v].sp = call'[v].sp
    BY <1>9
  <2>2. /\ call[v].sp \in 1 .. seq /\ told[call[v].sp] = "none"
        /\ around[call[v].sp] = {call[v].sp} \cup around[Innermost(v)]
        /\ \A u \in Tasks : call[u].op = "SAVEPOINT" /\ call[u].sp = call[v].sp => u = v
    BY <2>1 DEF Nesting
  <2> QED
    BY <1>1, <1>2, <1>4, <1>5, <2>1, <2>2
<1>10. \A u \in Tasks : \A i \in DOMAIN blocks'[u] :
         /\ blocks'[u][i] \in 1 .. seq' /\ told'[blocks'[u][i]] = "open"
         /\ around'[blocks'[u][i]] = {0} \cup {blocks'[u][j] : j \in 1 .. i}
  BY <1>7, Zenon
<1> QED
  BY <1>6, <1>8, <1>9, <1>10, Zenon DEF Nesting

Control == Outermost /\ Callers /\ Nesting

LEMMA ControlStart ==
  ASSUME TypeOK, Control, NEW t \in Tasks,
         Begin(t) \/ EndTask(t) \/ Execute(t) \/ Enter(t) \/ Exit(t) \/ ExitOutermost(t)
  PROVE  Control'
<1>1. /\ status' = status /\ saved' = saved /\ work' = work /\ aborted' = aborted
      /\ durable' = durable /\ acked' = acked /\ spawned' = spawned
  BY DEF Begin, EndTask, Execute, Enter, Exit, ExitOutermost, dbVars
<1>2. /\ Outermost /\ Callers /\ Nesting /\ \A u \in Tasks : MayCall(u)
      /\ seq \in Nat /\ 0 \in Blocks /\ Root \in Tasks /\ call[t] \in Call
  BY CallTypes DEF Control, Callers, TypeOK, Blocks
<1>3. Running(t) => told[0] # "none"
  BY <1>2 DEF Running, Outermost
<1>4. ASSUME pinned' = pinned, blocks' = blocks, told' = told, NEW op, NEW b, Await(t, op, b),
             told[0] # "none" \/ (op = "BEGIN" /\ t = Root), call[t].op = "none",
             told[0] # "none" => op # "BEGIN"
      PROVE  Outermost' /\ \A u \in Tasks \ {t} : MayCall(u)'
  <2>1. /\ call'[t].op = op /\ call'[t].sp = b /\ call'[t].ans = "none"
        /\ \A u \in Tasks \ {t} : call'[u] = call[u]
    BY <1>4, AwaitFacts
  <2>2. Outermost'
    BY <1>1, <1>2, <1>4, <2>1 DEF Outermost
  <2>3. \A u \in Tasks \ {t} : MayCall(u)'
    BY <1>1, <1>2, <1>4, <2>1, OthersMayCall
  <2> QED
    BY <2>2, <2>3
<1>5. CASE Begin(t)
  <2>1. /\ t = Root /\ told[0] = "none" /\ call[t].op = "none" /\ Await(t, "BEGIN", 0)
        /\ pinned' = pinned /\ blocks' = blocks /\ told' = told /\ seq' = seq /\ around' = around
    BY <1>5 DEF Begin, Idle
  <2>2. /\ call'[t].op = "BEGIN" /\ call'[t].sp = 0 /\ call'[t].ans = "none"
        /\ \A u \in Tasks \ {t} : call'[u] = call[u]
    BY <2>1, AwaitFacts
  <2>3. MayCall(t)'
    BY <1>1, <1>2, <2>1, <2>2 DEF MayCall, Outermost
  <2>4. Outermost' /\ \A u \in Tasks \ {t} : MayCall(u)'
    BY <1>4, <2>1
  <2>5. Nesting'
    BY <1>2, <2>1, <2>2, NestingKept
  <2> QED
    BY <2>3, <2>4, <2>5 DEF Control, Callers
<1>6. CASE EndTask(t)
  <2>1. /\ Running(t) /\ t # Root /\ pinned' = [pinned EXCEPT ![t] = FALSE] /\ call[t].op = "none"
        /\ call' = call /\ blocks' = blocks /\ told' = told /\ seq' = seq /\ around' = around
        /\ blocks[t] = <<>> /\ call[t].ans = "none"
    BY <1>6 DEF EndTask, Running, Idle
  <2>2. ~pinned'[t] /\ \A u \in Tasks \ {t} : pinned'[u] = pinned[u]
    BY <2>1 DEF TypeOK
  <2>3. Outermost'
    BY <1>1, <1>2, <1>3, <2>1, <2>2 DEF Outermost
  <2>4. MayCall(t)'
    BY <1>2, <2>1, <2>2 DEF MayCall
  <2>5. \A u \in Tasks \ {t} : MayCall(u)'
    BY <1>1, <1>2, <2>1, <2>2, OthersMayCall
  <2>6. Nesting'
    BY <1>2, <2>1, NestingKept
  <2> QED
    BY <2>3, <2>4, <2>5, <2>6 DEF Control, Callers
<1>7. CASE Execute(t)
  <2>1. /\ Running(t) /\ pinned[t] /\ call[t].op = "none" /\ Await(t, "WRITE", Innermost(t))
        /\ pinned' = pinned /\ blocks' = blocks /\ told' = told /\ seq' = seq /\ around' = around
    BY <1>7 DEF Execute, Running, Idle
  <2>2. /\ call'[t].op = "WRITE" /\ call'[t].sp = Innermost(t) /\ call'[t].ans = "none"
        /\ \A u \in Tasks \ {t} : call'[u] = call[u] /\ Innermost(t)' = Innermost(t)
    BY <2>1, AwaitFacts DEF Innermost
  <2>3. MayCall(t)'
    BY <1>1, <1>2, <2>1, <2>2 DEF MayCall, Innermost
  <2>4. Outermost' /\ \A u \in Tasks \ {t} : MayCall(u)'
    BY <1>3, <1>4, <2>1
  <2>5. Nesting'
    BY <1>2, <2>1, <2>2, NestingKept
  <2> QED
    BY <2>3, <2>4, <2>5 DEF Control, Callers
<1>8. CASE ExitOutermost(t)
  <2>1. PICK op \in {"COMMIT", "ROLLBACK"} :
        /\ Running(t) /\ pinned[t] /\ t = Root /\ blocks[t] = <<>> /\ call[t].op = "none"
        /\ Await(t, op, 0)
        /\ pinned' = pinned /\ blocks' = blocks /\ told' = told /\ seq' = seq /\ around' = around
    BY <1>8 DEF ExitOutermost, Running, Idle
  <2>2. /\ call'[t].op = op /\ call'[t].sp = 0 /\ call'[t].ans = "none"
        /\ \A u \in Tasks \ {t} : call'[u] = call[u]
    BY <2>1, AwaitFacts
  <2>3. MayCall(t)'
    BY <1>1, <1>2, <2>1, <2>2 DEF MayCall
  <2>4. Outermost' /\ \A u \in Tasks \ {t} : MayCall(u)'
    BY <1>3, <1>4, <2>1
  <2>5. Nesting'
    BY <1>2, <2>1, <2>2, NestingKept
  <2> QED
    BY <2>3, <2>4, <2>5 DEF Control, Callers
<1>9. CASE Exit(t) /\ InOrder(Innermost(t))
  <2>1. PICK op \in {"RELEASE", "ROLLBACK_TO"} :
        /\ Running(t) /\ pinned[t] /\ blocks[t] # <<>> /\ call[t].op = "none"
        /\ Await(t, op, Innermost(t))
        /\ pinned' = pinned /\ blocks' = blocks /\ told' = told /\ seq' = seq /\ around' = around
    BY <1>9 DEF Exit, ExitOp, Running, Idle
  <2>2. /\ call'[t].op = op /\ call'[t].sp = Innermost(t) /\ call'[t].ans = "none"
        /\ \A u \in Tasks \ {t} : call'[u] = call[u]
    BY <2>1, AwaitFacts
  <2>3. MayCall(t)'
    BY <1>1, <1>2, <2>1, <2>2 DEF MayCall, Innermost
  <2>4. Outermost' /\ \A u \in Tasks \ {t} : MayCall(u)'
    BY <1>3, <1>4, <2>1
  <2>5. Nesting'
    BY <1>2, <2>1, <2>2, NestingKept
  <2> QED
    BY <2>3, <2>4, <2>5 DEF Control, Callers
<1>10. CASE Exit(t) /\ ~InOrder(Innermost(t))
  <2>1. /\ Running(t) /\ pinned[t] /\ blocks[t] # <<>> /\ call[t].op = "none" /\ call[t].ans = "none"
        /\ Leave(t) /\ told' = [told EXCEPT ![Innermost(t)] = "failed"]
        /\ call' = call /\ pinned' = pinned /\ seq' = seq /\ around' = around
    BY <1>10 DEF Exit, Running, Idle
  <2>2. Innermost(t) # 0 /\ told'[0] = told[0]
    BY <1>2, <2>1, InnermostFacts DEF Nesting, TypeOK
  <2>3. \A u \in Tasks \ {t} : blocks'[u] = blocks[u]
    BY <2>1, LeaveFacts
  <2>4. Outermost'
    BY <1>1, <1>2, <1>3, <2>1, <2>2 DEF Outermost
  <2>5. MayCall(t)'
    BY <1>1, <1>2, <2>1 DEF MayCall
  <2>6. \A u \in Tasks \ {t} : MayCall(u)'
    BY <1>1, <1>2, <2>1, <2>2, <2>3, OthersMayCall
  <2>7. Nesting'
    BY <1>2, <2>1, NestingLeft
  <2> QED
    BY <2>4, <2>5, <2>6, <2>7 DEF Control, Callers
<1>11. CASE Enter(t)
  <2>1. /\ Running(t) /\ pinned[t] /\ call[t].op = "none" /\ Await(t, "SAVEPOINT", seq')
        /\ seq' = seq + 1 /\ seq < MaxBlocks
        /\ around' = [around EXCEPT ![seq'] = {seq'} \cup around[Innermost(t)]]
        /\ pinned' = pinned /\ blocks' = blocks /\ told' = told
    BY <1>11 DEF Enter, NewSavepoint, Running, Idle
  <2>2. /\ call'[t].op = "SAVEPOINT" /\ call'[t].sp = seq' /\ call'[t].ans = "none"
        /\ \A u \in Tasks \ {t} : call'[u] = call[u]
    BY <2>1, AwaitFacts
  <2>3. MayCall(t)'
    BY <1>1, <1>2, <2>1, <2>2 DEF MayCall
  <2>4. Outermost' /\ \A u \in Tasks \ {t} : MayCall(u)'
    BY <1>3, <1>4, <2>1
  <2>5. /\ seq' \in Nat /\ seq' \in Blocks \ {0} /\ 1 .. seq \subseteq 1 .. seq' /\ seq' \in 1 .. seq'
        /\ around'[seq'] = {seq'} \cup around[Innermost(t)]
        /\ \A b \in Blocks \ {seq'} : around'[b] = around[b]
        /\ \A b \in 1 .. seq : b \in Blocks \ {seq'} /\ around'[b] = around[b]
        /\ told[seq'] = "none"
    BY <1>2, <2>1 DEF TypeOK, Blocks, Nesting
  <2>6. \A u \in Tasks : Innermost(u)' = Innermost(u) /\ Innermost(u) \in Blocks \ {seq'}
    <3>1. \A u \in Tasks : \A i \in DOMAIN blocks[u] : blocks[u][i] \in 1 .. seq
      BY <1>2, Zenon DEF Nesting
    <3>2. \A u \in Tasks : Innermost(u) = 0 \/ Innermost(u) \in 1 .. seq
      BY <3>1, InnermostFacts
    <3>3. \A u \in Tasks : Innermost(u)' = Innermost(u)
      BY <2>1 DEF Innermost
    <3> QED
      BY <1>2, <2>1, <2>5, <3>2, <3>3
  <2>7. around'[0] = {0} /\ \A b \in Blocks : b > seq' => told'[b] = "none" /\ around'[b] = {0}
    BY <1>2, <2>1, <2>5 DEF Nesting, Blocks
  <2>8. \A u \in Tasks : \A i \in DOMAIN blocks'[u] :
          /\ blocks'[u][i] \in 1 .. seq' /\ told'[blocks'[u][i]] = "open"
          /\ around'[blocks'[u][i]] = {0} \cup {blocks'[u][j] : j \in 1 .. i}
    <3>1. \A u \in Tasks : \A i \in DOMAIN blocks[u] :
            /\ blocks[u][i] \in 1 .. seq /\ told[blocks[u][i]] = "open"
            /\ around[blocks[u][i]] = {0} \cup {blocks[u][j] : j \in 1 .. i}
      BY <1>2, Zenon DEF Nesting
    <3> QED
      BY <2>1, <2>5, <3>1
  <2>9. \A v, u \in Tasks : \A i \in DOMAIN blocks'[v], j \in DOMAIN blocks'[u] :
          blocks'[v][i] = blocks'[u][j] => v = u /\ i = j
    <3>1. \A v, u \in Tasks : \A i \in DOMAIN blocks[v], j \in DOMAIN blocks[u] :
            blocks[v][i] = blocks[u][j] => v = u /\ i = j
      BY <1>2, Zenon DEF Nesting
    <3> QED
      BY <2>1, <3>1
  <2>10. \A v \in Tasks \ {t} : call'[v].op = "SAVEPOINT" =>
           /\ call[v].sp \in 1 .. seq /\ told[call[v].sp] = "none"
           /\ around[call[v].sp] = {call[v].sp} \cup around[Innermost(v)]
           /\ \A u \in Tasks : call[u].op = "SAVEPOINT" /\ call[u].sp = call[v].sp => u = v
    BY <1>2, <2>2 DEF Nesting
  <2>11. ASSUME NEW v \in Tasks, call'[v].op = "SAVEPOINT"
         PROVE  /\ call'[v].sp \in 1 .. seq' /\ told'[call'[v].sp] = "none"
                /\ around'[call'[v].sp] = {call'[v].sp} \cup around'[Innermost(v)']
                /\ \A u \in Tasks : call'[u].op = "SAVEPOINT" /\ call'[u].sp = call'[v].sp => u = v
    <3>1. CASE v = t
      BY <2>1, <2>2, <2>5, <2>6, <2>10, <3>1
    <3>2. CASE v # t
      BY <2>1, <2>2, <2>5, <2>6, <2>10, <2>11, <3>2
    <3> QED
      BY <3>1, <3>2
  <2>12. Nesting'
    BY <2>7, <2>8, <2>9, <2>11, Zenon DEF Nesting
  <2> QED
    BY <2>3, <2>4, <2>12 DEF Control, Callers
<1> QED
  BY <1>5, <1>6, <1>7, <1>8, <1>9, <1>10, <1>11

LEMMA ControlRun ==
  ASSUME TypeOK, Control, NEW t \in Tasks, Run(t)
  PROVE  Control'
<1>1. PICK r \in {"ok", "err"} :
        /\ Answer(t, r)
        /\ \/ RunBegin(t, r) \/ RunFinished(t, r) \/ RunAborted(t, r) \/ RunWrite(t, r)
           \/ RunSavepoint(t, r) \/ RunRelease(t, r) \/ RunRollbackTo(t, r)
           \/ RunCommit(t, r) \/ RunRollback(t, r)
  BY DEF Run
<1>2. /\ pinned' = pinned /\ blocks' = blocks /\ seq' = seq /\ stack' = stack /\ acked' = acked
      /\ told' = told /\ around' = around /\ spawned' = spawned
      /\ call[t].op # "none" /\ call[t].ans = "none"
  BY DEF Run
<1>3. /\ Outermost /\ Callers /\ Nesting /\ \A u \in Tasks : MayCall(u)
      /\ seq \in Nat /\ Root \in Tasks
  BY DEF Control, Callers, TypeOK, Blocks
<1>4. /\ call'[t].op = call[t].op /\ call'[t].sp = call[t].sp /\ call'[t].ans = r
      /\ \A u \in Tasks \ {t} : call'[u] = call[u]
  BY <1>1, AnswerFacts
<1>5. \/ /\ call[t].op = "BEGIN" /\ status' = (IF r = "ok" THEN "open" ELSE "over")
         /\ durable' = durable /\ work' = work /\ saved' = saved
      \/ /\ call[t].op # "BEGIN" /\ status' = status /\ durable' = durable
         /\ status # "open" => r = "err"
         /\ call[t].op \in {"COMMIT", "ROLLBACK"} => status # "open"
      \/ /\ call[t].op = "COMMIT" /\ status = "open" /\ status' = "over"
      \/ /\ call[t].op = "ROLLBACK" /\ status = "open" /\ status' = "over" /\ durable' = durable
  <2>1. CASE RunBegin(t, r)
    BY <2>1 DEF RunBegin
  <2>2. CASE RunFinished(t, r) \/ RunAborted(t, r)
    BY <2>2 DEF RunFinished, RunAborted, dbVars
  <2>3. CASE RunWrite(t, r) \/ RunSavepoint(t, r)
    BY <2>3 DEF RunWrite, RunSavepoint
  <2>4. CASE RunRelease(t, r) \/ RunRollbackTo(t, r)
    BY <2>4 DEF RunRelease, RunRollbackTo
  <2>5. CASE RunCommit(t, r) \/ RunRollback(t, r)
    BY <2>5 DEF RunCommit, RunRollback, IsOver
  <2> QED
    BY <1>1, <2>1, <2>2, <2>3, <2>4, <2>5
<1>6. call[t].op = "BEGIN" => t = Root /\ told[0] = "none" /\ status = "none"
  BY <1>2, <1>3 DEF MayCall
<1>7. call[t].op # "BEGIN" => told[0] # "none"
  BY <1>2, <1>3 DEF Outermost
<1>8. Outermost'
  BY <1>2, <1>3, <1>4, <1>5, <1>6, <1>7 DEF Outermost
<1>9. MayCall(t)'
  <2>1. Innermost(t)' = Innermost(t)
    BY <1>2 DEF Innermost
  <2>2. call[t].op = "ROLLBACK" /\ r = "ok" => durable' = {}
    BY <1>3, <1>5 DEF Outermost
  <2>3. status \in {"none", "open", "over"}
    BY DEF TypeOK
  <2> QED
    BY <1>2, <1>3, <1>4, <1>5, <2>1, <2>2, <2>3 DEF MayCall
<1>10. ASSUME NEW u \in Tasks \ {t} PROVE MayCall(u)'
  <2>1. call[u].op = "BEGIN" => call[t].op # "BEGIN" /\ told[0] = "none"
    BY <1>3, <1>6 DEF MayCall
  <2>2. call[u].op # "BEGIN"
    BY <1>6, <1>7, <2>1, <1>3 DEF MayCall
  <2>3. status = "over" => status' = "over" /\ durable' = durable
    BY <1>5, <1>6
  <2>4. status' # "none" \/ status = "none"
    BY <1>5
  <2> QED
    BY <1>2, <1>3, <1>4, <2>2, <2>3, <2>4, OthersMayCall
<1>11. Nesting'
  <2>1. \A u \in Tasks : call'[u].op = call[u].op /\ call'[u].sp = call[u].sp
    BY <1>4
  <2> QED
    BY <1>2, <1>3, <2>1, NestingKept
<1> QED
  BY <1>8, <1>9, <1>10, <1>11 DEF Control, Callers

LEMMA ControlResumes ==
  ASSUME TypeOK, Control, NEW t \in Tasks, NEW ok \in BOOLEAN, Resumes(t, ok),
         UNCHANGED <<status, saved, work>> \/ IsOver, UNCHANGED <<aborted, durable>>,
         ok => call[t].ans = "ok" /\ status' = status,
         call[t].op = "BEGIN" /\ ~ok => status' = "over"
  PROVE  Control'
<1>1. /\ Outermost /\ Callers /\ Nesting /\ \A u \in Tasks : MayCall(u)
      /\ seq \in Nat /\ Root \in Tasks /\ 0 \in Blocks /\ 0 \in DOMAIN told
      /\ status \in {"none", "open", "over"}
  BY DEF Control, Callers, TypeOK, Blocks
<1>2. /\ call'[t].op = "none" /\ call'[t].sp = 0 /\ call'[t].ans = "none"
      /\ \A u \in Tasks \ {t} : call'[u] = call[u]
  BY IdleFacts DEF Resumes
<1>3. /\ seq' = seq /\ around' = around /\ spawned' = spawned /\ durable' = durable
  BY DEF Resumes
<1>4. \/ status' = status /\ saved' = saved /\ work' = work
      \/ status' = "over" /\ saved' = <<>> /\ work' = {}
  BY DEF IsOver
<1>5. \A u \in Tasks : call'[u].op = "SAVEPOINT" =>
        u # t /\ call[u].op = "SAVEPOINT" /\ call[u].sp = call'[u].sp
  BY <1>2
<1>6. call[t].op \notin {"none", "BEGIN"} => pinned[t] /\ told[0] # "none"
  BY <1>1 DEF MayCall, Outermost
<1>7. CASE ResumeBegin(t, ok)
  <2>1. /\ call[t].op = "BEGIN" /\ t = Root /\ told[0] = "none" /\ status' # "none"
        /\ pinned' = [pinned EXCEPT ![t] = ok] /\ blocks' = blocks /\ acked' = acked
        /\ told' = [told EXCEPT ![0] = IF ok THEN "open" ELSE "failed"]
    BY <1>1, <1>7 DEF ResumeBegin, MayCall, Tell
  <2>2. /\ told'[0] = (IF ok THEN "open" ELSE "failed")
        /\ \A b \in Blocks \ {0} : told'[b] = told[b]
        /\ pinned'[t] = ok /\ \A u \in Tasks \ {t} : pinned'[u] = pinned[u]
    BY <1>1, <2>1 DEF TypeOK
  <2>3. Outermost'
    BY <1>1, <1>3, <1>4, <2>1, <2>2 DEF Outermost
  <2>4. MayCall(t)'
    BY <1>1, <1>2, <2>1 DEF MayCall
  <2>5. ASSUME NEW u \in Tasks \ {t} PROVE MayCall(u)'
    <3>1. call[u].op # "BEGIN"
      BY <1>1, <2>1 DEF MayCall
    <3> QED
      BY <1>1, <1>2, <1>3, <1>4, <2>1, <2>2, <3>1, OthersMayCall
  <2>6. Nesting'
    BY <1>1, <1>3, <1>5, <2>1, <2>2, NestingKept
  <2> QED
    BY <2>3, <2>4, <2>5, <2>6 DEF Control, Callers
<1>8. CASE ResumeExecute(t, ok)
  <2>1. /\ call[t].op = "WRITE" /\ pinned' = pinned /\ blocks' = blocks /\ told' = told
    BY <1>8 DEF ResumeExecute
  <2>2. told[0] # "none" /\ status # "none"
    BY <1>1, <1>6, <2>1 DEF Outermost
  <2>3. Outermost'
    BY <1>1, <1>3, <1>4, <2>1, <2>2 DEF Outermost
  <2>4. MayCall(t)'
    BY <1>1, <1>2, <1>3, <2>1 DEF MayCall
  <2>5. ASSUME NEW u \in Tasks \ {t} PROVE MayCall(u)'
    BY <1>1, <1>2, <1>3, <1>4, <2>1, <2>2, OthersMayCall
  <2>6. Nesting'
    BY <1>1, <1>3, <1>5, <2>1, NestingKept
  <2> QED
    BY <2>3, <2>4, <2>5, <2>6 DEF Control, Callers
<1>9. CASE ResumeOutermost(t, ok)
  <2>1. /\ call[t].op \in {"COMMIT", "ROLLBACK"} /\ t = Root /\ blocks[t] = <<>>
        /\ pinned' = [pinned EXCEPT ![t] = FALSE] /\ blocks' = blocks /\ acked' = acked
        /\ told' = [told EXCEPT ![0] = IF ~ok THEN "failed"
                                       ELSE IF call[t].op = "COMMIT" THEN "committed" ELSE "rolledback"]
    BY <1>1, <1>9 DEF ResumeOutermost, MayCall, Tell
  <2>2. told[0] # "none" /\ status # "none"
    BY <1>1, <1>6, <2>1 DEF Outermost
  <2>3. /\ told'[0] = IF ~ok THEN "failed"
                      ELSE IF call[t].op = "COMMIT" THEN "committed" ELSE "rolledback"
        /\ \A b \in Blocks \ {0} : told'[b] = told[b]
        /\ ~pinned'[t] /\ \A u \in Tasks \ {t} : pinned'[u] = pinned[u]
    BY <1>1, <2>1 DEF TypeOK
  <2>4. ok => status' = "over" /\ (call[t].op = "ROLLBACK" => durable = {})
    BY <1>1, <2>1 DEF MayCall
  <2>5. Outermost'
    BY <1>1, <1>3, <1>4, <2>1, <2>2, <2>3, <2>4 DEF Outermost
  <2>6. MayCall(t)'
    BY <1>1, <1>2, <2>1 DEF MayCall
  <2>7. ASSUME NEW u \in Tasks \ {t} PROVE MayCall(u)'
    BY <1>1, <1>2, <1>3, <1>4, <2>1, <2>2, <2>3, OthersMayCall
  <2>8. Nesting'
    BY <1>1, <1>3, <1>5, <2>1, <2>3, NestingKept
  <2> QED
    BY <2>5, <2>6, <2>7, <2>8 DEF Control, Callers
<1>10. CASE ResumeExit(t, ok)
  <2>1. PICK how : /\ call[t].op \in {"RELEASE", "ROLLBACK_TO"} /\ Leave(t)
                   /\ blocks[t] # <<>> /\ told' = [told EXCEPT ![Innermost(t)] = how]
                   /\ pinned' = pinned /\ acked' = acked
    BY <1>1, <1>10 DEF ResumeExit, MayCall, Tell
  <2>2. told[0] # "none" /\ status # "none" /\ pinned[t]
    BY <1>1, <1>6, <2>1 DEF Outermost
  <2>3. Innermost(t) # 0 /\ told'[0] = told[0]
    BY <1>1, <2>1, InnermostFacts DEF Nesting, TypeOK
  <2>4. \A u \in Tasks \ {t} : blocks'[u] = blocks[u]
    BY <2>1, LeaveFacts
  <2>5. Outermost'
    BY <1>1, <1>3, <1>4, <2>1, <2>2, <2>3 DEF Outermost
  <2>6. MayCall(t)'
    BY <1>1, <1>2, <1>3, <2>1, <2>2 DEF MayCall
  <2>7. ASSUME NEW u \in Tasks \ {t} PROVE MayCall(u)'
    BY <1>1, <1>2, <1>3, <1>4, <2>1, <2>2, <2>3, <2>4, OthersMayCall
  <2>8. Nesting'
    BY <1>1, <1>3, <1>5, <2>1, NestingLeft
  <2> QED
    BY <2>5, <2>6, <2>7, <2>8 DEF Control, Callers
<1>11. CASE ResumeEnter(t, ok)
  <2> DEFINE b == call[t].sp
             n == Len(blocks[t])
  <2>1. /\ call[t].op = "SAVEPOINT" /\ pinned' = pinned /\ acked' = acked
        /\ blocks' = IF ok THEN [blocks EXCEPT ![t] = Append(@, b)] ELSE blocks
        /\ told' = [told EXCEPT ![b] = IF ok THEN "open" ELSE "failed"]
    BY <1>11 DEF ResumeEnter, Tell
  <2>2. told[0] # "none" /\ status # "none" /\ pinned[t]
    BY <1>1, <1>6, <2>1 DEF Outermost
  <2>3. /\ b \in 1 .. seq /\ told[b] = "none" /\ around[b] = {b} \cup around[Innermost(t)]
        /\ \A u \in Tasks : call[u].op = "SAVEPOINT" /\ call[u].sp = b => u = t
    BY <1>1, <2>1 DEF Nesting
  <2>4. /\ b \in Blocks /\ b # 0 /\ b <= seq /\ 1 .. seq \subseteq Blocks
        /\ told'[b] = (IF ok THEN "open" ELSE "failed")
        /\ \A c \in Blocks \ {b} : told'[c] = told[c]
        /\ blocks[t] \in Seq(Blocks) /\ n \in Nat /\ DOMAIN blocks[t] = 1 .. n
    BY <1>1, <2>1, <2>3, InnermostFacts DEF TypeOK, Blocks
  <2>5. /\ \A u \in Tasks \ {t} : blocks'[u] = blocks[u]
        /\ ~ok => blocks' = blocks
        /\ ok => /\ DOMAIN blocks'[t] = 1 .. n + 1 /\ blocks'[t][n + 1] = b
                 /\ \A i \in 1 .. n : blocks'[t][i] = blocks[t][i]
    <3>1. CASE ok
      <4>1. blocks' = [blocks EXCEPT ![t] = Append(blocks[t], b)]
        BY <2>1, <3>1
      <4>2. blocks'[t] = Append(blocks[t], b) /\ \A u \in Tasks \ {t} : blocks'[u] = blocks[u]
        BY <4>1 DEF TypeOK
      <4> QED
        BY <2>4, <3>1, <4>2, AppendFacts
    <3>2. CASE ~ok
      BY <2>1, <3>2
    <3> QED
      BY <3>1, <3>2
  <2> HIDE DEF b, n
  <2>6. Outermost'
    BY <1>1, <1>3, <1>4, <2>1, <2>2, <2>4 DEF Outermost
  <2>7. MayCall(t)'
    BY <1>1, <1>2, <1>3, <2>1, <2>2 DEF MayCall
  <2>8. ASSUME NEW u \in Tasks \ {t} PROVE MayCall(u)'
    BY <1>1, <1>2, <1>3, <1>4, <2>1, <2>2, <2>4, <2>5, OthersMayCall
  <2>9. \A u \in Tasks : \A i \in DOMAIN blocks[u] :
          /\ blocks[u][i] \in 1 .. seq /\ told[blocks[u][i]] = "open"
          /\ around[blocks[u][i]] = {0} \cup {blocks[u][j] : j \in 1 .. i}
    BY <1>1, Zenon DEF Nesting
  <2>10. \A v, u \in Tasks : \A i \in DOMAIN blocks[v], j \in DOMAIN blocks[u] :
           blocks[v][i] = blocks[u][j] => v = u /\ i = j
    BY <1>1, Zenon DEF Nesting
  <2>11. \A v \in Tasks : call[v].op = "SAVEPOINT" =>
           /\ call[v].sp \in 1 .. seq /\ told[call[v].sp] = "none"
           /\ around[call[v].sp] = {call[v].sp} \cup around[Innermost(v)]
           /\ \A u \in Tasks : call[u].op = "SAVEPOINT" /\ call[u].sp = call[v].sp => u = v
    BY <1>1, Zenon DEF Nesting
  <2>12. around'[0] = {0} /\ \A c \in Blocks : c > seq' => told'[c] = "none" /\ around'[c] = {0}
    <3>1. around[0] = {0} /\ \A c \in Blocks : c > seq => told[c] = "none" /\ around[c] = {0}
      BY <1>1, Zenon DEF Nesting
    <3> QED
      BY <1>1, <1>3, <2>3, <2>4, <3>1 DEF Blocks
  <2>13. ASSUME NEW u \in Tasks, NEW i \in DOMAIN blocks'[u]
         PROVE  /\ blocks'[u][i] \in 1 .. seq' /\ told'[blocks'[u][i]] = "open"
                /\ around'[blocks'[u][i]] = {0} \cup {blocks'[u][j] : j \in 1 .. i}
    <3>1. CASE i \in DOMAIN blocks[u] /\ \A j \in 1 .. i : blocks'[u][j] = blocks[u][j]
      <4>1. /\ blocks[u][i] \in 1 .. seq /\ told[blocks[u][i]] = "open"
            /\ around[blocks[u][i]] = {0} \cup {blocks[u][j] : j \in 1 .. i}
        BY <2>9, <3>1, Zenon
      <4>2. i \in 1 .. i /\ blocks'[u][i] = blocks[u][i]
        <5>1. blocks[u] \in Seq(Blocks)
          BY InnermostFacts
        <5> QED
          BY <3>1, <5>1
      <4>3. {blocks'[u][j] : j \in 1 .. i} = {blocks[u][j] : j \in 1 .. i}
        BY <3>1
      <4> QED
        BY <1>3, <2>3, <2>4, <4>1, <4>2, <4>3
    <3>2. CASE u = t /\ ok /\ i = n + 1
      <4>1. around[b] = {b} \cup {0} \cup {blocks[t][j] : j \in DOMAIN blocks[t]}
        BY <1>1, <2>3, AroundFacts
      <4>2. {blocks'[t][j] : j \in 1 .. n + 1} = {b} \cup {blocks[t][j] : j \in 1 .. n}
        BY <2>4, <2>5, <3>2
      <4> QED
        BY <1>3, <2>3, <2>4, <2>5, <3>2, <4>1, <4>2
    <3>3. \/ i \in DOMAIN blocks[u] /\ \A j \in 1 .. i : blocks'[u][j] = blocks[u][j]
          \/ u = t /\ ok /\ i = n + 1
      <4>1. CASE u = t /\ ok
        BY <2>4, <2>5, <2>13, <4>1
      <4>2. CASE ~(u = t /\ ok)
        BY <2>5, <2>13, <4>2
      <4> QED
        BY <4>1, <4>2
    <3> QED
      BY <3>1, <3>2, <3>3
  <2>14. \A v, u \in Tasks : \A i \in DOMAIN blocks'[v], j \in DOMAIN blocks'[u] :
           blocks'[v][i] = blocks'[u][j] => v = u /\ i = j
    <3>1. ASSUME NEW u \in Tasks, NEW i \in DOMAIN blocks'[u]
          PROVE  \/ i \in DOMAIN blocks[u] /\ blocks'[u][i] = blocks[u][i] /\ blocks'[u][i] # b
                 \/ u = t /\ i = n + 1 /\ blocks'[u][i] = b
      <4>1. CASE i \in DOMAIN blocks[u] /\ blocks'[u][i] = blocks[u][i]
        BY <2>3, <2>9, <4>1
      <4>2. CASE ~(i \in DOMAIN blocks[u] /\ blocks'[u][i] = blocks[u][i])
        BY <2>4, <2>5, <3>1, <4>2
      <4> QED
        BY <4>1, <4>2
    <3> QED
      BY <2>10, <3>1
  <2>15. ASSUME NEW v \in Tasks, call'[v].op = "SAVEPOINT"
         PROVE  /\ call'[v].sp \in 1 .. seq' /\ told'[call'[v].sp] = "none"
                /\ around'[call'[v].sp] = {call'[v].sp} \cup around'[Innermost(v)']
                /\ \A u \in Tasks : call'[u].op = "SAVEPOINT" /\ call'[u].sp = call'[v].sp => u = v
    <3>1. v # t /\ call[v].op = "SAVEPOINT" /\ call'[v].sp = call[v].sp /\ call[v].sp # b
      BY <1>5, <2>3, <2>15
    <3>2. Innermost(v)' = Innermost(v)
      BY <2>5, <3>1 DEF Innermost
    <3>3. \A u \in Tasks : call'[u].op = "SAVEPOINT" /\ call'[u].sp = call'[v].sp => u = v
      BY <1>5, <2>11, <3>1
    <3> QED
      BY <1>3, <2>4, <2>11, <3>1, <3>2, <3>3
  <2>16. Nesting'
    BY <2>12, <2>13, <2>14, <2>15, Zenon DEF Nesting
  <2> QED
    BY <2>6, <2>7, <2>8, <2>16 DEF Control, Callers
<1> QED
  BY <1>7, <1>8, <1>9, <1>10, <1>11 DEF Resumes

LEMMA ControlElse ==
  ASSUME TypeOK, Control, Lose \/ Abandon \/ UNCHANGED vars \/ \E t, u \in Tasks : Spawn(t, u)
  PROVE  Control'
<1>1. /\ Outermost /\ Callers /\ Nesting /\ \A u \in Tasks : MayCall(u) /\ Root \in Tasks
  BY DEF Control, Callers
<1>2. CASE Lose \/ Abandon \/ UNCHANGED vars
  <2>1. /\ pinned' = pinned /\ blocks' = blocks /\ call' = call /\ seq' = seq /\ acked' = acked
        /\ told' = told /\ around' = around /\ spawned' = spawned /\ durable' = durable
        /\ \/ status' = status /\ work' = work /\ saved' = saved
           \/ status = "open" /\ status' = "over" /\ work' = {} /\ saved' = <<>>
    BY <1>2 DEF Lose, Abandon, IsOver, vars, pyVars, dbVars
  <2>2. Outermost'
    BY <1>1, <2>1 DEF Outermost
  <2>3. \A u \in Tasks : MayCall(u)'
    BY <1>1, <2>1, OthersMayCall
  <2>4. Nesting'
    BY <1>1, <2>1, NestingKept DEF TypeOK, Blocks
  <2> QED
    BY <2>2, <2>3, <2>4 DEF Control, Callers
<1>3. CASE \E t, u \in Tasks : Spawn(t, u)
  <2>1. PICK t \in Tasks, u \in Tasks : Spawn(t, u)
    BY <1>3
  <2>2. /\ pinned[t] /\ u # Root /\ u \in spawned' /\ spawned \subseteq spawned'
        /\ pinned' = [pinned EXCEPT ![u] = TRUE]
        /\ blocks' = blocks /\ call' = call /\ seq' = seq /\ acked' = acked
        /\ told' = told /\ around' = around /\ durable' = durable
        /\ status' = status /\ work' = work /\ saved' = saved
    BY <2>1 DEF Spawn, Running, dbVars
  <2>3. pinned'[u] /\ \A v \in Tasks \ {u} : pinned'[v] = pinned[v]
    BY <2>2 DEF TypeOK
  <2>4. told[0] # "none"
    BY <1>1, <2>2 DEF Outermost
  <2>5. Outermost'
    BY <1>1, <2>2, <2>3, <2>4 DEF Outermost
  <2>6. MayCall(u)'
    <3>1. Innermost(u)' = Innermost(u)
      BY <2>2 DEF Innermost
    <3> QED
      BY <1>1, <2>2, <2>3, <3>1 DEF MayCall
  <2>7. \A v \in Tasks \ {u} : MayCall(v)'
    BY <1>1, <2>2, <2>3, OthersMayCall
  <2>8. Nesting'
    BY <1>1, <2>2, NestingKept DEF TypeOK, Blocks
  <2> QED
    BY <2>5, <2>6, <2>7, <2>8 DEF Control, Callers
<1> QED
  BY <1>2, <1>3

LEMMA ControlStep ==
  ASSUME TypeOK, Control, [Next]_vars
  PROVE  Control'
<1>1. ASSUME NEW t \in Tasks, Resume(t) PROVE Control'
  <2>1. PICK ok \in BOOLEAN : ok = (call[t].ans = "ok")
    OBVIOUS
  <2>2. /\ Resumes(t, ok) /\ UNCHANGED <<status, saved, work>> /\ UNCHANGED <<aborted, durable>>
        /\ call[t].ans # "none" /\ status' = status
    BY <1>1, <2>1 DEF Resume, dbVars
  <2>3. call[t].op = "BEGIN" /\ ~ok => status' = "over"
    <3>1. MayCall(t) /\ call[t] \in Call
      BY CallTypes DEF Control, Callers
    <3> QED
      BY <2>1, <2>2, <3>1 DEF MayCall, Call
  <2> QED
    BY <2>1, <2>2, <2>3, ControlResumes
<1>2. ASSUME NEW t \in Tasks, Cancel(t) PROVE Control'
  <2>1. /\ Resumes(t, FALSE) /\ UNCHANGED <<aborted, durable>>
        /\ UNCHANGED <<status, saved, work>> \/ IsOver
        /\ call[t].op = "BEGIN" => status' = "over"
    BY <1>2 DEF Cancel, IsOver
  <2> QED
    BY <2>1, ControlResumes
<1> QED
  BY <1>1, <1>2, ControlStart, ControlRun, ControlElse DEF Next

-----------------------------------------------------------------------------
(* The writes and the savepoints. *)

Contents == Entered /\ SavesBefore /\ GoneIsGone /\ SavesEntered

LEMMA WriteTypes ==
  ASSUME TypeOK
  PROVE  /\ \A w \in Writes : w.in \in Blocks /\ around[w.in] \subseteq Blocks
         /\ saved \in Seq(SavedRecord) /\ Len(saved) \in Nat /\ DOMAIN saved = 1 .. Len(saved)
         /\ \A i \in DOMAIN saved : saved[i].sp \in Blocks /\ saved[i].work \subseteq Writes
         /\ work \subseteq Writes /\ durable \subseteq Writes /\ acked \subseteq Writes
<1>1. saved \in Seq(SavedRecord) /\ work \cup durable \cup acked \subseteq Write
  BY DEF TypeOK, SavedRecord
<1>2. \A i \in DOMAIN saved : saved[i].sp \in Blocks /\ saved[i].work \subseteq Write
  <2>1. \A i \in DOMAIN saved : saved[i] \in SavedRecord
    BY <1>1
  <2> QED
    BY <2>1 DEF SavedRecord
<1>3. \A w \in Writes : w \in Write
  BY <1>1, <1>2 DEF Writes
<1>4. \A w \in Writes : w.in \in Blocks
  BY <1>3 DEF Write
<1> QED
  BY <1>1, <1>2, <1>4 DEF Writes, TypeOK

\* Steps that write nothing, set no savepoint and roll back to none.
LEMMA ContentsKept ==
  ASSUME TypeOK, Contents,
         saved' \in Seq(SavedRecord), Len(saved') <= Len(saved),
         \A i \in 1 .. Len(saved') : saved'[i] = saved[i],
         work' \subseteq work, durable' \subseteq durable \cup work, acked' = acked,
         \A w \in Writes : around'[w.in] = around[w.in],
         \A b \in Blocks : told[b] # "none" => told'[b] # "none",
         \A b \in Blocks \ {0} : Gone(b)' => Gone(b),
         \A t \in Tasks : call[t].op = "SAVEPOINT" /\ call[t].ans = "ok" =>
           call'[t] = call[t] \/ told'[call[t].sp] # "none"
  PROVE  Contents'
<1>1. /\ \A w \in Writes : w.in \in Blocks /\ around[w.in] \subseteq Blocks
      /\ Len(saved) \in Nat /\ DOMAIN saved = 1 .. Len(saved)
      /\ \A i \in DOMAIN saved : saved[i].sp \in Blocks /\ saved[i].work \subseteq Writes
      /\ work \subseteq Writes /\ durable \subseteq Writes /\ acked \subseteq Writes
  BY WriteTypes
<1>2. Len(saved') \in Nat /\ DOMAIN saved' = 1 .. Len(saved') /\ DOMAIN saved' \subseteq DOMAIN saved
  BY <1>1
<1>3. Writes' \subseteq Writes
  BY <1>1, <1>2 DEF Writes
<1>4. Entered'
  BY <1>1, <1>3 DEF Contents, Entered
<1>5. SavesBefore'
  BY <1>1, <1>2 DEF Contents, SavesBefore
<1>6. GoneIsGone'
  <2> SUFFICES ASSUME NEW b \in Blocks \ {0}, Gone(b)'
               PROVE  /\ \A w \in work' \cup durable' : b \notin around'[w.in]
                      /\ \A i \in DOMAIN saved' : \A w \in saved'[i].work : b \notin around'[w.in]
    BY DEF GoneIsGone
  <2>1. /\ \A w \in work \cup durable : b \notin around[w.in]
        /\ \A i \in DOMAIN saved : \A w \in saved[i].work : b \notin around[w.in]
    BY DEF Contents, GoneIsGone
  <2> QED
    BY <1>1, <1>2, <2>1
<1>7. SavesEntered'
  BY <1>1, <1>2 DEF Contents, SavesEntered
<1> QED
  BY <1>4, <1>5, <1>6, <1>7 DEF Contents

\* Only a new block's name gets another set of blocks around it.
LEMMA AroundKept ==
  ASSUME TypeOK, Nesting, Entered, NEW t \in Tasks,
         Begin(t) \/ EndTask(t) \/ Execute(t) \/ Enter(t) \/ Exit(t) \/ ExitOutermost(t)
  PROVE  \A w \in Writes : around'[w.in] = around[w.in]
<1>1. CASE around' = around
  BY <1>1
<1>2. CASE Enter(t)
  <2>1. seq' = seq + 1 /\ seq' \in Blocks \ {0} /\ seq' > seq
    BY <1>2 DEF Enter, NewSavepoint, TypeOK, Blocks
  <2>2. \A b \in Blocks \ {seq'} : around'[b] = around[b]
    BY <1>2 DEF Enter, TypeOK
  <2>3. told[seq'] = "none"
    BY <2>1 DEF Nesting
  <2>4. \A w \in Writes : w.in # seq'
    BY <2>1, <2>3 DEF Entered
  <2> QED
    BY <2>2, <2>4, WriteTypes
<1> QED
  BY <1>1, <1>2 DEF Begin, EndTask, Execute, Exit, ExitOutermost

LEMMA ContentsStart ==
  ASSUME TypeOK, Control, Contents, NEW t \in Tasks,
         Begin(t) \/ EndTask(t) \/ Execute(t) \/ Enter(t) \/ Exit(t) \/ ExitOutermost(t)
  PROVE  Contents'
<1>1. /\ saved' = saved /\ work' = work /\ durable' = durable /\ acked' = acked
      /\ call[t].op = "none"
  BY DEF Begin, EndTask, Execute, Enter, Exit, ExitOutermost, dbVars, Running, Idle
<1>2. Nesting /\ Entered /\ saved \in Seq(SavedRecord) /\ Len(saved) \in Nat
  BY WriteTypes DEF Control, Contents
<1>3. /\ \A u \in Tasks : call'[u] = call[u] \/ (u = t /\ call'[u].ans = "none")
  <2>1. CASE call' = call
    BY <2>1
  <2>2. CASE \E op, b : Await(t, op, b)
    BY <2>2, AwaitFacts
  <2> QED
    BY <2>1, <2>2 DEF Begin, EndTask, Execute, Enter, Exit, ExitOutermost
<1>4. /\ \A b \in Blocks : told[b] # "none" => told'[b] # "none"
      /\ \A b \in Blocks : told'[b] = "rolledback" => told[b] = "rolledback"
  <2>1. told' = told \/ told' = [told EXCEPT ![Innermost(t)] = "failed"]
    BY DEF Begin, EndTask, Execute, Enter, Exit, ExitOutermost
  <2> QED
    BY <2>1 DEF TypeOK
<1>5. \A w \in Writes : around'[w.in] = around[w.in]
  BY <1>2, AroundKept
<1>6. \A b \in Blocks \ {0} : Gone(b)' => Gone(b)
  BY <1>3, <1>4 DEF Gone
<1>7. \A u \in Tasks : call[u].op = "SAVEPOINT" /\ call[u].ans = "ok" => call'[u] = call[u]
  BY <1>1, <1>3
<1> QED
  BY <1>1, <1>2, <1>4, <1>5, <1>6, <1>7, ContentsKept

LEMMA ContentsElse ==
  ASSUME TypeOK, Control, Contents,
         Lose \/ Abandon \/ UNCHANGED vars \/ \E t, u \in Tasks : Spawn(t, u)
  PROVE  Contents'
<1>1. /\ call' = call /\ acked' = acked /\ told' = told /\ around' = around /\ durable' = durable
      /\ \/ work' = work /\ saved' = saved
         \/ work' = {} /\ saved' = <<>>
  BY DEF Lose, Abandon, IsOver, vars, pyVars, dbVars, Spawn
<1>2. saved \in Seq(SavedRecord) /\ Len(saved) \in Nat /\ <<>> \in Seq(SavedRecord)
  BY WriteTypes
<1>3. /\ saved' \in Seq(SavedRecord) /\ Len(saved') <= Len(saved)
      /\ \A i \in 1 .. Len(saved') : saved'[i] = saved[i]
  <2>1. CASE saved' = saved
    BY <1>2, <2>1
  <2>2. CASE saved' = <<>>
    <3>1. Len(saved') = 0 /\ 1 .. 0 = {}
      BY <2>2
    <3> QED
      BY <1>2, <2>2, <3>1
  <2> QED
    BY <1>1, <2>1, <2>2
<1>4. \A b \in Blocks \ {0} : Gone(b)' => Gone(b)
  BY <1>1 DEF Gone
<1> QED
  BY <1>1, <1>3, <1>4, ContentsKept

LEMMA ContentsResumes ==
  ASSUME TypeOK, Control, Contents, NEW t \in Tasks, NEW ok \in BOOLEAN, Resumes(t, ok),
         UNCHANGED <<status, saved, work>> \/ IsOver, UNCHANGED <<aborted, durable>>,
         ok => call[t].ans = "ok"
  PROVE  Contents'
<1>1. /\ \/ work' = work /\ saved' = saved
         \/ work' = {} /\ saved' = <<>>
      /\ durable' = durable /\ around' = around
  BY DEF IsOver, Resumes
<1>2. saved \in Seq(SavedRecord) /\ Len(saved) \in Nat /\ <<>> \in Seq(SavedRecord)
  BY WriteTypes
<1>3. /\ saved' \in Seq(SavedRecord) /\ Len(saved') <= Len(saved)
      /\ \A i \in 1 .. Len(saved') : saved'[i] = saved[i]
  <2>1. CASE saved' = saved
    BY <1>2, <2>1
  <2>2. CASE saved' = <<>>
    <3>1. Len(saved') = 0 /\ 1 .. 0 = {}
      BY <2>2
    <3> QED
      BY <1>2, <2>2, <3>1
  <2> QED
    BY <1>1, <2>1, <2>2
<1>4. call'[t].op = "none" /\ \A u \in Tasks \ {t} : call'[u] = call[u]
  BY IdleFacts DEF Resumes
<1>5. call[t].sp \in Blocks /\ MayCall(t) /\ Nesting /\ 0 \in Blocks
  <2>1. call[t] \in Call
    BY CallTypes
  <2> QED
    BY <2>1 DEF Control, Callers, Call, Blocks
<1>6. PICK b \in Blocks, how \in {"none", "open", "released", "rolledback", "failed", "committed"} :
        /\ told' = [told EXCEPT ![b] = how] /\ (how = "none" => told[b] = "none")
        /\ how = "rolledback" /\ b # 0 => told[b] = "rolledback" \/ Gone(b)
        /\ call[t].op = "SAVEPOINT" => how # "none" /\ b = call[t].sp
  <2>1. CASE ResumeExecute(t, ok)
    <3>1. told' = told /\ call[t].op = "WRITE"
      BY <2>1 DEF ResumeExecute
    <3>2. told' = [told EXCEPT ![0] = told[0]] /\ told[0] \in {"none", "open", "released", "rolledback", "failed", "committed"}
      BY <1>5, <3>1 DEF TypeOK
    <3> QED
      BY <1>5, <3>1, <3>2
  <2>2. CASE ResumeExit(t, ok)
    BY <1>5, <2>2 DEF ResumeExit, Tell, Gone
  <2>3. CASE ResumeEnter(t, ok)
    BY <1>5, <2>3 DEF ResumeEnter, Tell
  <2>4. CASE ResumeBegin(t, ok) \/ ResumeOutermost(t, ok)
    BY <1>5, <2>4 DEF ResumeBegin, ResumeOutermost, Tell
  <2> QED
    BY <2>1, <2>2, <2>3, <2>4 DEF Resumes
<1>7. told'[b] = how /\ \A c \in Blocks \ {b} : told'[c] = told[c]
  BY <1>6 DEF TypeOK
<1>8. \A c \in Blocks : told[c] # "none" => told'[c] # "none"
  BY <1>6, <1>7
<1>9. \A c \in Blocks \ {0} : Gone(c)' => Gone(c)
  BY <1>4, <1>6, <1>7 DEF Gone
<1>10. \A u \in Tasks : call[u].op = "SAVEPOINT" /\ call[u].ans = "ok" =>
         call'[u] = call[u] \/ told'[call[u].sp] # "none"
  BY <1>4, <1>6, <1>7
<1>11. CASE acked' = acked
  BY <1>1, <1>3, <1>8, <1>9, <1>10, <1>11, ContentsKept
<1>12. CASE acked' # acked
  <2> DEFINE w == [by |-> t, in |-> call[t].sp]
  <2>1. call[t].op = "WRITE" /\ acked' = acked \cup {w}
    BY <1>12 DEF Resumes, ResumeBegin, ResumeExecute, ResumeEnter, ResumeExit, ResumeOutermost
  <2>2. /\ w.in = Innermost(t) /\ w.in \in around[w.in]
        /\ \A c \in around[w.in] \ {0} : told[c] # "none"
    BY <1>5, <2>1, AroundFacts DEF MayCall
  <2>3. around[w.in] \subseteq Blocks
    BY <1>5, <2>2, InnermostFacts DEF TypeOK
  <2>4. Writes' \subseteq Writes \cup {w}
    BY <1>1, <1>2, <1>3, <2>1 DEF Writes
  <2> HIDE DEF w
  <2>5. Entered'
    BY <1>1, <1>8, <2>2, <2>3, <2>4, WriteTypes DEF Contents, Entered
  <2>6. SavesBefore'
    BY <1>1, <1>2, <1>3 DEF Contents, SavesBefore
  <2>7. GoneIsGone'
    <3> SUFFICES ASSUME NEW c \in Blocks \ {0}, Gone(c)'
                 PROVE  /\ \A x \in work' \cup durable' : c \notin around'[x.in]
                        /\ \A i \in DOMAIN saved' : \A x \in saved'[i].work : c \notin around'[x.in]
      BY DEF GoneIsGone
    <3>1. /\ \A x \in work \cup durable : c \notin around[x.in]
          /\ \A i \in DOMAIN saved : \A x \in saved[i].work : c \notin around[x.in]
      BY <1>9 DEF Contents, GoneIsGone
    <3> QED
      BY <1>1, <3>1
  <2>8. SavesEntered'
    BY <1>1, <1>2, <1>8, <1>10, WriteTypes DEF Contents, SavesEntered
  <2> QED
    BY <2>5, <2>6, <2>7, <2>8 DEF Contents
<1> QED
  BY <1>11, <1>12

LEMMA ContentsRun ==
  ASSUME TypeOK, Control, Contents, NEW t \in Tasks, Run(t)
  PROVE  Contents'
<1>1. PICK r \in {"ok", "err"} :
        /\ Answer(t, r)
        /\ \/ RunBegin(t, r) \/ RunFinished(t, r) \/ RunAborted(t, r) \/ RunWrite(t, r)
           \/ RunSavepoint(t, r) \/ RunRelease(t, r) \/ RunRollbackTo(t, r)
           \/ RunCommit(t, r) \/ RunRollback(t, r)
  BY DEF Run
<1>2. /\ blocks' = blocks /\ acked' = acked /\ told' = told /\ around' = around
      /\ call[t].ans = "none"
  BY DEF Run
<1>3. /\ call'[t].op = call[t].op /\ call'[t].sp = call[t].sp /\ call'[t].ans = r
      /\ \A u \in Tasks \ {t} : call'[u] = call[u]
  BY <1>1, AnswerFacts
<1>4. Outermost /\ Nesting /\ \A u \in Tasks : MayCall(u)
  BY DEF Control, Callers
<1>5. /\ saved \in Seq(SavedRecord) /\ Len(saved) \in Nat /\ <<>> \in Seq(SavedRecord)
      /\ DOMAIN saved = 1 .. Len(saved) /\ call[t].sp \in Blocks
  <2>1. call[t] \in Call
    BY CallTypes
  <2> QED
    BY <2>1, WriteTypes DEF Call
<1>6. \A n \in 0 .. Len(saved) :
        /\ SubSeq(saved, 1, n) \in Seq(SavedRecord) /\ Len(SubSeq(saved, 1, n)) = n
        /\ \A j \in 1 .. n : SubSeq(saved, 1, n)[j] = saved[j]
  BY <1>5, PrefixFacts
<1>7. \A b \in Blocks : Gone(b)' =>
        Gone(b) \/ (call[t].op = "ROLLBACK_TO" /\ call[t].sp = b /\ r = "ok")
  BY <1>2, <1>3 DEF Gone
<1>8. \A u \in Tasks : call[u].op = "SAVEPOINT" /\ call[u].ans = "ok" => call'[u] = call[u]
  BY <1>2, <1>3
<1>9. ASSUME saved' \in Seq(SavedRecord), Len(saved') <= Len(saved),
             \A i \in 1 .. Len(saved') : saved'[i] = saved[i],
             work' \subseteq work, durable' \subseteq durable \cup work,
             ~(call[t].op = "ROLLBACK_TO" /\ r = "ok")
      PROVE  Contents'
  <2>1. \A b \in Blocks \ {0} : Gone(b)' => Gone(b)
    BY <1>7, <1>9
  <2> QED
    BY <1>2, <1>8, <1>9, <2>1, ContentsKept
<1>10. CASE RunBegin(t, r) \/ RunFinished(t, r) \/ RunAborted(t, r)
  <2>1. saved' = saved /\ work' = work /\ durable' = durable /\ ~(call[t].op = "ROLLBACK_TO" /\ r = "ok")
    BY <1>10 DEF RunBegin, RunFinished, RunAborted, dbVars
  <2> QED
    BY <1>5, <1>9, <2>1
<1>11. CASE RunRelease(t, r)
  <2>1. work' = work /\ durable' = durable /\ call[t].op = "RELEASE"
    BY <1>11 DEF RunRelease
  <2>2. saved' = saved \/ \E i \in Saves(call[t].sp) : saved' = SubSeq(saved, 1, i - 1)
    BY <1>11 DEF RunRelease
  <2>3. \A i \in Saves(call[t].sp) : i - 1 \in 0 .. Len(saved)
    BY <1>5 DEF Saves
  <2>4. CASE saved' = saved
    BY <1>5, <1>9, <2>1, <2>4
  <2>5. CASE saved' # saved
    <3>1. PICK n \in 0 .. Len(saved) : saved' = SubSeq(saved, 1, n)
      BY <2>2, <2>3, <2>5
    <3>2. /\ saved' \in Seq(SavedRecord) /\ Len(saved') = n
          /\ \A i \in 1 .. n : saved'[i] = saved[i]
      BY <1>6, <3>1
    <3> QED
      BY <1>5, <1>9, <2>1, <3>2
  <2> QED
    BY <2>4, <2>5
<1>12. CASE RunCommit(t, r) \/ RunRollback(t, r)
  <2>1. /\ saved' = <<>> /\ work' = {} /\ durable' \subseteq durable \cup work
        /\ call[t].op \in {"COMMIT", "ROLLBACK"}
    BY <1>12 DEF RunCommit, RunRollback, IsOver
  <2>2. Len(saved') = 0 /\ 1 .. 0 = {}
    BY <2>1
  <2> QED
    BY <1>5, <1>9, <2>1, <2>2
<1>13. CASE RunWrite(t, r)
  <2>1. /\ call[t].op = "WRITE" /\ saved' = saved /\ durable' = durable
        /\ work' = IF r = "ok" THEN work \cup {[by |-> t, in |-> call[t].sp]} ELSE work
    BY <1>13 DEF RunWrite
  <2>2. CASE r # "ok"
    BY <1>5, <1>9, <2>1, <2>2
  <2>3. CASE r = "ok"
    <3>1. PICK w : w = [by |-> t, in |-> call[t].sp]
      OBVIOUS
    <3>2. /\ w.in = Innermost(t) /\ w.in \in around[w.in] /\ around[w.in] \subseteq Blocks
          /\ around[w.in] = {0} \cup {blocks[t][j] : j \in DOMAIN blocks[t]}
          /\ \A b \in around[w.in] \ {0} : told[b] = "open"
      BY <1>4, <2>1, <3>1, AroundFacts, InnermostFacts DEF MayCall, TypeOK
    <3>3. work' = work \cup {w}
      BY <2>1, <2>3, <3>1
    <3>4. Entered'
      <4>1. Writes' \subseteq Writes \cup {w}
        BY <1>2, <2>1, <3>3 DEF Writes
      <4> QED
        BY <1>2, <3>2, <4>1 DEF Contents, Entered
    <3>5. SavesBefore' /\ SavesEntered'
      BY <1>2, <1>8, <2>1 DEF Contents, SavesBefore, SavesEntered
    <3>6. ASSUME NEW b \in Blocks \ {0}, Gone(b) PROVE b \notin around[w.in]
      <4>1. SUFFICES ASSUME b \in around[w.in] PROVE FALSE
        OBVIOUS
      <4>2. told[b] = "open"
        BY <3>2, <4>1
      <4>3. PICK u \in Tasks : call[u].op = "ROLLBACK_TO" /\ call[u].sp = b
        BY <3>6, <4>2 DEF Gone
      <4>4. b = blocks[u][Len(blocks[u])] /\ Len(blocks[u]) \in DOMAIN blocks[u]
        BY <1>4, <4>3, InnermostFacts DEF MayCall
      <4>5. PICK j \in DOMAIN blocks[t] : b = blocks[t][j]
        BY <3>2, <4>1
      <4>6. \A v, x \in Tasks : \A i \in DOMAIN blocks[v], k \in DOMAIN blocks[x] :
              blocks[v][i] = blocks[x][k] => v = x /\ i = k
        BY <1>4, Zenon DEF Nesting
      <4>7. PICK k \in DOMAIN blocks[u] : b = blocks[u][k]
        BY <4>4
      <4>8. u = t
        BY <4>3, <4>5, <4>6, <4>7, Zenon
      <4> QED
        BY <2>1, <4>3, <4>8
    <3>7. GoneIsGone'
      <4>1. \A b \in Blocks \ {0} : Gone(b)' => Gone(b)
        BY <1>7, <2>1
      <4> QED
        BY <1>2, <2>1, <3>3, <3>6, <4>1 DEF Contents, GoneIsGone
    <3> QED
      BY <3>4, <3>5, <3>7 DEF Contents
  <2> QED
    BY <2>2, <2>3
<1>14. CASE RunSavepoint(t, r)
  <2> DEFINE b == call[t].sp
             n == Len(saved)
  <2>1. /\ call[t].op = "SAVEPOINT" /\ r = "ok" /\ work' = work /\ durable' = durable
        /\ saved' = Append(saved, [sp |-> b, work |-> work])
    BY <1>14 DEF RunSavepoint
  <2>2. /\ DOMAIN saved' = 1 .. n + 1 /\ n \in Nat
        /\ saved'[n + 1].sp = b /\ saved'[n + 1].work = work
        /\ \A i \in 1 .. n : saved'[i] = saved[i]
    <3>1. [sp |-> b, work |-> work] \in SavedRecord
      BY <1>5 DEF SavedRecord, TypeOK
    <3> QED
      BY <1>5, <2>1, <3>1, AppendFacts
  <2>3. told[b] = "none" /\ b \in Blocks \ {0}
    BY <1>4, <1>5, <2>1 DEF Nesting
  <2>4. \A w \in Writes : b \notin around[w.in]
    BY <2>3 DEF Contents, Entered
  <2> HIDE DEF b, n
  <2>5. /\ DOMAIN saved = 1 .. n
        /\ work \subseteq Writes
        /\ \A i \in DOMAIN saved : saved[i].work \subseteq Writes
    BY <1>5, WriteTypes DEF n
  <2>6. \A i \in DOMAIN saved' : \/ i \in 1 .. n /\ saved'[i] = saved[i]
                                 \/ i = n + 1 /\ saved'[i].sp = b /\ saved'[i].work = work
    BY <2>2
  <2>7. Entered'
    <3>1. Writes' \subseteq Writes
      BY <1>2, <2>1, <2>5, <2>6 DEF Writes
    <3> QED
      BY <1>2, <3>1 DEF Contents, Entered
  <2>8. SavesBefore'
    <3> SUFFICES ASSUME NEW i \in DOMAIN saved', NEW j \in 1 .. i, NEW w \in saved'[j].work
                 PROVE  saved'[i].sp \notin around[w.in]
      BY <1>2 DEF SavesBefore
    <3>1. j \in DOMAIN saved'
      BY <2>2
    <3>2. w \in Writes
      <4>1. \/ j \in DOMAIN saved /\ saved'[j] = saved[j]
            \/ saved'[j].work = work
        BY <2>5, <2>6, <3>1
      <4> QED
        BY <2>5, <4>1
    <3>3. CASE i = n + 1
      BY <2>2, <2>4, <3>2, <3>3
    <3>4. CASE i # n + 1
      <4>1. i \in DOMAIN saved /\ saved'[i] = saved[i] /\ saved'[j] = saved[j]
        BY <2>2, <2>5, <3>4
      <4> QED
        BY <4>1 DEF Contents, SavesBefore
    <3> QED
      BY <3>3, <3>4
  <2>9. GoneIsGone'
    <3> SUFFICES ASSUME NEW c \in Blocks \ {0}, Gone(c)'
                 PROVE  /\ \A x \in work' \cup durable' : c \notin around'[x.in]
                        /\ \A i \in DOMAIN saved' : \A x \in saved'[i].work : c \notin around'[x.in]
      BY DEF GoneIsGone
    <3>1. /\ \A x \in work \cup durable : c \notin around[x.in]
          /\ \A i \in DOMAIN saved : \A x \in saved[i].work : c \notin around[x.in]
      BY <1>7, <2>1 DEF Contents, GoneIsGone
    <3> QED
      BY <1>2, <2>1, <2>5, <2>6, <3>1
  <2>10. SavesEntered'
    <3> SUFFICES ASSUME NEW i \in DOMAIN saved', told[saved'[i].sp] = "none"
                 PROVE  \E u \in Tasks :
                          call'[u].op = "SAVEPOINT" /\ call'[u].sp = saved'[i].sp /\ call'[u].ans = "ok"
      BY <1>2 DEF SavesEntered
    <3>1. CASE i = n + 1
      BY <1>3, <2>1, <2>2, <3>1 DEF b
    <3>2. CASE i # n + 1
      <4>1. i \in DOMAIN saved /\ saved'[i] = saved[i]
        BY <2>5, <2>6, <3>2
      <4>2. PICK u \in Tasks : call[u].op = "SAVEPOINT" /\ call[u].sp = saved[i].sp /\ call[u].ans = "ok"
        BY <4>1 DEF Contents, SavesEntered
      <4> QED
        BY <1>8, <4>1, <4>2
    <3> QED
      BY <3>1, <3>2
  <2> QED
    BY <2>7, <2>8, <2>9, <2>10 DEF Contents
<1>15. CASE RunRollbackTo(t, r)
  <2>1. CASE r # "ok"
    <3>1. saved' = saved /\ work' = work /\ durable' = durable
      BY <1>15, <2>1 DEF RunRollbackTo
    <3> QED
      BY <1>5, <1>9, <2>1, <3>1
  <2>2. CASE r = "ok"
    <3>1. PICK n \in Saves(call[t].sp) : work' = saved[n].work /\ saved' = SubSeq(saved, 1, n)
      BY <1>15, <2>2 DEF RunRollbackTo
    <3>2. /\ durable' = {} /\ call[t].op = "ROLLBACK_TO"
      BY <1>4, <1>15 DEF RunRollbackTo, Outermost
    <3>3. n \in 1 .. Len(saved) /\ saved[n].sp = call[t].sp
      BY <1>5, <3>1 DEF Saves
    <3>4. /\ DOMAIN saved' = 1 .. n /\ \A j \in 1 .. n : saved'[j] = saved[j] /\ j \in DOMAIN saved
      BY <1>5, <1>6, <3>1, <3>3
    <3>5. Entered'
      <4>1. Writes' \subseteq Writes
        BY <1>2, <1>5, <3>1, <3>2, <3>3, <3>4 DEF Writes
      <4> QED
        BY <1>2, <4>1 DEF Contents, Entered
    <3>6. SavesBefore'
      <4> SUFFICES ASSUME NEW i \in 1 .. n, NEW j \in 1 .. i, NEW w \in saved'[j].work
                   PROVE  saved'[i].sp \notin around[w.in]
        BY <1>2, <3>4 DEF SavesBefore
      <4>1. j \in 1 .. n
        BY <3>3
      <4> QED
        BY <3>4, <4>1 DEF Contents, SavesBefore
    <3>7. GoneIsGone'
      <4> SUFFICES ASSUME NEW c \in Blocks \ {0}, Gone(c)'
                   PROVE  /\ \A x \in work' \cup durable' : c \notin around'[x.in]
                          /\ \A i \in DOMAIN saved' : \A x \in saved'[i].work : c \notin around'[x.in]
        BY DEF GoneIsGone
      <4>1. \A i \in 1 .. n : \A x \in saved[i].work : c \notin around[x.in]
        <5>1. CASE Gone(c)
          BY <3>4, <5>1 DEF Contents, GoneIsGone
        <5>2. CASE c = call[t].sp
          BY <3>3, <3>4, <5>2 DEF Contents, SavesBefore
        <5> QED
          BY <1>7, <5>1, <5>2
      <4> QED
        BY <1>2, <3>1, <3>2, <3>3, <3>4, <4>1
    <3>8. SavesEntered'
      BY <1>2, <1>8, <3>4 DEF Contents, SavesEntered
    <3> QED
      BY <3>5, <3>6, <3>7, <3>8 DEF Contents
  <2> QED
    BY <1>1, <2>1, <2>2
<1> QED
  BY <1>1, <1>10, <1>11, <1>12, <1>13, <1>14, <1>15

LEMMA ContentsStep ==
  ASSUME TypeOK, Control, Contents, [Next]_vars
  PROVE  Contents'
<1>1. ASSUME NEW t \in Tasks, Resume(t) PROVE Contents'
  <2>1. PICK ok \in BOOLEAN : ok = (call[t].ans = "ok")
    OBVIOUS
  <2>2. Resumes(t, ok) /\ UNCHANGED <<status, saved, work>> /\ UNCHANGED <<aborted, durable>>
    BY <1>1, <2>1 DEF Resume, dbVars
  <2> QED
    BY <2>1, <2>2, ContentsResumes
<1>2. ASSUME NEW t \in Tasks, Cancel(t) PROVE Contents'
  <2>1. /\ Resumes(t, FALSE) /\ UNCHANGED <<aborted, durable>>
        /\ UNCHANGED <<status, saved, work>> \/ IsOver
    BY <1>2 DEF Cancel
  <2> QED
    BY <2>1, ContentsResumes
<1> QED
  BY <1>1, <1>2, ContentsStart, ContentsRun, ContentsElse DEF Next

-----------------------------------------------------------------------------
(* A transaction that was never shared keeps its savepoints and its writes. *)

Keeps == NestIsSaved /\ WorkIsKept

\* Root's blocks and the one it is entering are a sequence.
LEMMA NestTypes ==
  ASSUME TypeOK
  PROVE  Nest \in Seq(Blocks) /\ Len(Nest) \in Nat /\ DOMAIN Nest = 1 .. Len(Nest)
<1>1. blocks[Root] \in Seq(Blocks) /\ call[Root] \in Call
  BY DEF TypeOK
<1>2. Append(blocks[Root], call[Root].sp) \in Seq(Blocks)
  BY <1>1 DEF Call
<1> QED
  BY <1>1, <1>2 DEF Nest

\* A block that failed stays failed.
LEMMA DoomedKept ==
  ASSUME NEW w, around'[w.in] = around[w.in], around[w.in] \subseteq Blocks,
         \A b \in Blocks \ {0} :
           \/ told[b] \in {"failed", "rolledback"}
           \/ call[Root].op = "ROLLBACK_TO" /\ call[Root].sp = b
           => \/ told'[b] \in {"failed", "rolledback"}
              \/ call'[Root].op = "ROLLBACK_TO" /\ call'[Root].sp = b,
         Doomed(w)
  PROVE  Doomed(w)'
<1>1. PICK b \in around[w.in] \ {0} :
        \/ told[b] \in {"failed", "rolledback"}
        \/ call[Root].op = "ROLLBACK_TO" /\ call[Root].sp = b
  BY DEF Doomed
<1>2. b \in Blocks \ {0}
  BY <1>1
<1>3. \/ told'[b] \in {"failed", "rolledback"}
      \/ call'[Root].op = "ROLLBACK_TO" /\ call'[Root].sp = b
  BY <1>1, <1>2
<1> QED
  BY <1>1, <1>3 DEF Doomed

\* Steps that cut the savepoints, leave blocks and answer no write.
LEMMA AloneCut ==
  ASSUME TypeOK, Alone, NestIsSaved, InSaves,
         DOMAIN saved' \subseteq DOMAIN saved, \A i \in DOMAIN saved' : saved'[i] = saved[i],
         \A i \in DOMAIN saved' : 1 .. i \subseteq DOMAIN saved',
         DOMAIN Nest' \subseteq DOMAIN Nest, \A k \in DOMAIN Nest' : 1 .. k \subseteq DOMAIN Nest',
         \A k \in DOMAIN Nest' : Nest'[k] = Nest[k],
         \A k \in DOMAIN Nest' :
           \/ \E i \in DOMAIN saved' : saved[i].sp = Nest[k]
           \/ k = Len(Nest') /\ call'[Root].op = "RELEASE",
         Answered' \subseteq Answered,
         \A w \in Answered : around'[w.in] = around[w.in] /\ (Doomed(w) => Doomed(w)'),
         \A w \in Answered' : w \in work' \/ Doomed(w)'
  PROVE  NestIsSaved' /\ InWork' /\ InSaves'
<1>1. \A k \in DOMAIN Nest' : Saves(Nest[k])' = Saves(Nest[k]) \cap DOMAIN saved'
  BY DEF Saves
<1>2. DOMAIN saved = 1 .. Len(saved) /\ Len(saved) \in Nat
      /\ DOMAIN Nest = 1 .. Len(Nest) /\ Len(Nest) \in Nat
  BY WriteTypes, NestTypes
<1>3. NestIsSaved'
  <2>1. ASSUME NEW k \in DOMAIN Nest'
        PROVE  Saves(Nest[k])' # {} \/ (k = Len(Nest') /\ call'[Root].op = "RELEASE")
    <3>1. CASE \E i \in DOMAIN saved' : saved[i].sp = Nest[k]
      BY <3>1 DEF Saves
    <3> QED
      BY <3>1
  <2>2. ASSUME NEW k \in DOMAIN Nest', NEW j \in 1 .. k - 1, NEW m \in Saves(Nest[k])'
        PROVE  \E l \in Saves(Nest[j])' : l < m
    <3> j \in DOMAIN Nest'
      <4>1. k \in Nat /\ j \in 1 .. k
        BY <1>2
      <4> QED
        BY <4>1
    <3>1. m \in Saves(Nest[k]) /\ m \in DOMAIN saved' /\ k \in DOMAIN Nest
      BY <1>1, <2>2
    <3>2. PICK l \in Saves(Nest[j]) : l < m
      BY <3>1 DEF NestIsSaved
    <3>3. l \in DOMAIN saved'
      <4>1. l \in 1 .. m
        BY <1>2, <3>1, <3>2 DEF Saves
      <4> QED
        BY <3>1, <4>1
    <3> QED
      BY <1>1, <2>2, <3>2, <3>3
  <2> QED
    BY <2>1, <2>2 DEF NestIsSaved
<1>4. InWork'
  BY DEF InWork
<1>5. InSaves'
  <2> SUFFICES ASSUME NEW k \in DOMAIN Nest', NEW m \in Saves(Nest[k])', NEW w \in Answered'
               PROVE  Nest'[k] \in around'[w.in] \/ Doomed(w)' \/ w \in saved'[m].work
    BY DEF InSaves
  <2>1. m \in Saves(Nest[k]) /\ m \in DOMAIN saved' /\ k \in DOMAIN Nest /\ w \in Answered
    BY <1>1
  <2>2. Nest[k] \in around[w.in] \/ Doomed(w) \/ w \in saved[m].work
    BY <2>1 DEF InSaves
  <2> QED
    BY <2>1, <2>2
<1> QED
  BY <1>3, <1>4, <1>5

\* Steps that leave the transaction alone.
LEMMA AloneKept ==
  ASSUME TypeOK, Alone, NestIsSaved, InSaves, InWork, saved' = saved, work' = work,
         DOMAIN Nest' \subseteq DOMAIN Nest, \A k \in DOMAIN Nest' : 1 .. k \subseteq DOMAIN Nest',
         \A k \in DOMAIN Nest' : Nest'[k] = Nest[k],
         call[Root].op = "RELEASE" =>
           \/ Len(Nest) \notin DOMAIN Nest'
           \/ Len(Nest') = Len(Nest) /\ call'[Root].op = "RELEASE",
         Answered' \subseteq Answered,
         \A w \in Answered : around'[w.in] = around[w.in] /\ (Doomed(w) => Doomed(w)')
  PROVE  NestIsSaved' /\ InWork' /\ InSaves'
<1>1. DOMAIN saved = 1 .. Len(saved) /\ Len(saved) \in Nat
  BY WriteTypes
<1>2. \A i \in DOMAIN saved' : 1 .. i \subseteq DOMAIN saved'
  BY <1>1
<1>3. ASSUME NEW k \in DOMAIN Nest'
      PROVE  \/ \E i \in DOMAIN saved' : saved[i].sp = Nest[k]
             \/ k = Len(Nest') /\ call'[Root].op = "RELEASE"
  <2>1. k \in DOMAIN Nest
    BY <1>3
  <2>2. Saves(Nest[k]) # {} \/ (k = Len(Nest) /\ call[Root].op = "RELEASE")
    BY <2>1 DEF NestIsSaved
  <2> QED
    BY <1>3, <2>2 DEF Saves
<1>4. \A w \in Answered' : w \in work' \/ Doomed(w)'
  BY DEF InWork
<1> QED
  BY <1>2, <1>3, <1>4, AloneCut

\* Before anybody was spawned, Root is the only task of the transaction.
LEMMA OnlyRoot ==
  ASSUME Control, spawned = {}, NEW t \in Tasks, call[t].op # "none" \/ pinned[t]
  PROVE  t = Root
BY DEF Control, Callers, MayCall

LEMMA CommittedIsOver ==
  ASSUME Control, Committed
  PROVE  status = "over" /\ call[Root].op \in {"none", "COMMIT"}
<1>1. MayCall(Root) /\ Outermost
  BY DEF Control, Callers
<1>2. CASE told[0] = "committed"
  BY <1>1, <1>2 DEF Outermost, MayCall
<1>3. CASE call[Root].op = "COMMIT" /\ call[Root].ans = "ok"
  BY <1>1, <1>3 DEF MayCall
<1> QED
  BY <1>2, <1>3 DEF Committed

\* The writes Root was told of are in blocks around it.
LEMMA AnsweredTypes ==
  ASSUME TypeOK, Control, Contents, NEW w \in Answered
  PROVE  w.in \in Blocks /\ around[w.in] \subseteq Blocks
<1>1. CASE w \in acked
  BY <1>1, WriteTypes
<1>2. CASE call[Root].op = "WRITE" /\ w = [by |-> Root, in |-> call[Root].sp]
  <2>1. w.in \in Blocks
    BY <1>2, CallTypes DEF Call
  <2> QED
    BY <2>1 DEF TypeOK
<1> QED
  BY <1>1, <1>2 DEF Answered

LEMMA KeepsStart ==
  ASSUME TypeOK, Control, Contents, Keeps, NEW t \in Tasks,
         Begin(t) \/ EndTask(t) \/ Execute(t) \/ Enter(t) \/ Exit(t) \/ ExitOutermost(t)
  PROVE  Keeps'
<1>1. /\ saved' = saved /\ work' = work /\ durable' = durable /\ acked' = acked
      /\ status' = status /\ aborted' = aborted /\ spawned' = spawned /\ call[t].op = "none"
  BY DEF Begin, EndTask, Execute, Enter, Exit, ExitOutermost, dbVars, Running, Idle
<1>2. /\ call'[t].ans = "none" /\ \A u \in Tasks \ {t} : call'[u] = call[u]
  <2>1. CASE call' = call
    <3>1. call[t].ans = "none"
      BY <1>1 DEF Control, Callers, MayCall
    <3> QED
      BY <2>1, <3>1
  <2>2. CASE \E op, b : Await(t, op, b)
    BY <2>2, AwaitFacts
  <2> QED
    BY <2>1, <2>2 DEF Begin, EndTask, Execute, Enter, Exit, ExitOutermost
<1>3. spawned = {} => t = Root
  BY OnlyRoot DEF Begin, EndTask, Execute, Enter, Exit, ExitOutermost, Running
<1>4. told' = told \/ told' = [told EXCEPT ![Innermost(t)] = "failed"]
  BY DEF Begin, EndTask, Execute, Enter, Exit, ExitOutermost
<1>5. told' = told \/ (told'[0] = told[0] /\ \A b \in Blocks : told'[b] \in {told[b], "failed"})
  <2>1. CASE Exit(t)
    <3>1. Innermost(t) \in Blocks \ {0} /\ 0 \in Blocks
      BY <2>1, InnermostFacts DEF Exit, Control, Nesting, TypeOK, Blocks
    <3> QED
      BY <1>4, <3>1 DEF TypeOK
  <2> QED
    BY <2>1 DEF Begin, EndTask, Execute, Enter, ExitOutermost
<1>6. ASSUME spawned = {} PROVE Nest = blocks[Root] /\ Nest' = blocks'[Root] /\ Answered = acked /\ Answered' = acked
  BY <1>1, <1>2, <1>3, <1>6 DEF Nest, Answered
<1>7. \A w \in Writes : around'[w.in] = around[w.in]
  BY AroundKept DEF Control, Contents
<1>8. ASSUME spawned = {}, NEW w \in acked PROVE around'[w.in] = around[w.in] /\ (Doomed(w) => Doomed(w)')
  <2>1. around'[w.in] = around[w.in] /\ around[w.in] \subseteq Blocks
    BY <1>7, WriteTypes
  <2>2. \A b \in Blocks \ {0} :
          \/ told[b] \in {"failed", "rolledback"}
          \/ call[Root].op = "ROLLBACK_TO" /\ call[Root].sp = b
          => told'[b] \in {"failed", "rolledback"}
    BY <1>1, <1>3, <1>5, <1>8
  <2> QED
    BY <2>1, <2>2, DoomedKept
<1>9. InDatabase'
  <2>1. ASSUME Committed' PROVE Committed
    <3>1. t = Root
      BY <1>1, <1>3, <2>1 DEF Committed
    <3> QED
      BY <1>1, <1>2, <1>5, <2>1, <3>1 DEF Committed
  <2>2. Committed => spawned = {}
    BY DEF Committed
  <2> QED
    BY <1>1, <1>8, <2>1, <2>2 DEF InDatabase, Keeps, WorkIsKept
<1>10. CASE ~Alone'
  BY <1>9, <1>10 DEF Keeps, NestIsSaved, WorkIsKept, InWork, InSaves
<1>11. CASE Alone'
  <2>1. spawned = {} /\ Alone /\ t = Root
    BY <1>1, <1>3, <1>11 DEF Alone
  <2>2. /\ DOMAIN blocks'[Root] \subseteq DOMAIN blocks[Root]
        /\ \A k \in DOMAIN blocks'[Root] : 1 .. k \subseteq DOMAIN blocks'[Root]
        /\ \A k \in DOMAIN blocks'[Root] : blocks'[Root][k] = blocks[Root][k]
    <3>1. DOMAIN blocks[Root] = 1 .. Len(blocks[Root]) /\ Len(blocks[Root]) \in Nat
      BY InnermostFacts
    <3>2. CASE blocks' = blocks
      BY <3>1, <3>2
    <3>3. CASE blocks[t] # <<>> /\ Leave(t)
      BY <2>1, <3>1, <3>3, LeaveFacts
    <3> QED
      BY <3>2, <3>3 DEF Begin, EndTask, Execute, Enter, Exit, ExitOutermost
  <2>3. NestIsSaved' /\ InWork' /\ InSaves'
    BY <1>1, <1>6, <1>8, <2>1, <2>2, AloneKept DEF Keeps, WorkIsKept
  <2> QED
    BY <1>9, <2>3 DEF Keeps, WorkIsKept
<1> QED
  BY <1>10, <1>11

LEMMA KeepsElse ==
  ASSUME TypeOK, Control, Contents, Keeps,
         Lose \/ Abandon \/ UNCHANGED vars \/ \E t, u \in Tasks : Spawn(t, u)
  PROVE  Keeps'
<1>1. CASE UNCHANGED vars
  <2>1. NestIsSaved' = NestIsSaved
    BY <1>1 DEF vars, pyVars, dbVars, NestIsSaved, Alone, Nest, Saves
  <2>2. /\ Alone' = Alone /\ Nest' = Nest /\ Answered' = Answered /\ \A w : Doomed(w)' = Doomed(w)
        /\ \A b : Saves(b)' = Saves(b)
    BY <1>1 DEF vars, pyVars, dbVars, Alone, Nest, Answered, Doomed, Saves
  <2>3. InWork' /\ InSaves'
    BY <1>1, <2>2 DEF vars, pyVars, dbVars, Keeps, WorkIsKept, InWork, InSaves
  <2>4. InDatabase'
    BY <1>1, <2>2 DEF vars, pyVars, dbVars, Keeps, WorkIsKept, InDatabase, Committed
  <2> QED
    BY <2>1, <2>3, <2>4 DEF Keeps, WorkIsKept
<1>2. CASE Lose \/ Abandon
  <2>1. status' = "over" /\ status = "open" /\ UNCHANGED pyVars /\ aborted' = aborted /\ durable' = durable
    BY <1>2 DEF Lose, Abandon, IsOver
  <2>2. ~Committed'
    <3>1. ~Committed
      BY <2>1, CommittedIsOver
    <3> QED
      BY <2>1, <3>1 DEF Committed, pyVars
  <2>3. ~Alone'
    BY <2>1 DEF Alone
  <2> QED
    BY <2>2, <2>3 DEF Keeps, NestIsSaved, WorkIsKept, InWork, InSaves, InDatabase
<1>3. CASE \E t, u \in Tasks : Spawn(t, u)
  <2>1. spawned' # {}
    BY <1>3 DEF Spawn
  <2> QED
    BY <2>1 DEF Keeps, NestIsSaved, WorkIsKept, InWork, InSaves, InDatabase, Alone, Committed
<1> QED
  BY <1>1, <1>2, <1>3

LEMMA KeepsResumes ==
  ASSUME TypeOK, Control, Contents, Keeps, NEW t \in Tasks, NEW ok \in BOOLEAN, Resumes(t, ok),
         call[t].op # "none",
         UNCHANGED <<status, saved, work>> \/ IsOver, UNCHANGED <<aborted, durable>>,
         ok => call[t].ans = "ok"
  PROVE  Keeps'
<1>1. /\ call'[t].op = "none" /\ call'[t].ans = "none" /\ \A u \in Tasks \ {t} : call'[u] = call[u]
      /\ around' = around /\ spawned' = spawned /\ aborted' = aborted /\ durable' = durable
  BY IdleFacts DEF Resumes
<1>2. spawned = {} => t = Root
  BY OnlyRoot
<1>3. /\ MayCall(t) /\ Nesting /\ Outermost /\ call[t].sp \in Blocks /\ 0 \in Blocks
      /\ blocks[Root] \in Seq(Blocks) /\ DOMAIN blocks[Root] = 1 .. Len(blocks[Root])
      /\ Len(blocks[Root]) \in Nat
  <2>1. call[t] \in Call
    BY CallTypes
  <2> QED
    BY <2>1, InnermostFacts DEF Control, Callers, Call, Blocks
<1>4. InDatabase'
  <2> SUFFICES ASSUME Committed', NEW w \in acked' PROVE w \in durable \/ Doomed(w)'
    BY <1>1 DEF InDatabase
  <2>1. spawned = {} /\ t = Root /\ told'[0] = "committed" /\ ~aborted
    BY <1>1, <1>2 DEF Committed
  <2>2. Committed
    <3>1. told[0] = "committed" \/ (call[t].op = "COMMIT" /\ call[t].ans = "ok")
      <4>1. CASE told'[0] = told[0]
        BY <2>1, <4>1
      <4>2. CASE ResumeBegin(t, ok) \/ ResumeOutermost(t, ok)
        BY <1>3, <2>1, <4>2 DEF ResumeBegin, ResumeOutermost, Tell, TypeOK
      <4>3. CASE ResumeExecute(t, ok)
        BY <4>1, <4>3 DEF ResumeExecute
      <4>4. CASE ResumeEnter(t, ok) \/ ResumeExit(t, ok)
        <5>1. told'[0] \in {told[0], "open", "failed", "released", "rolledback"}
          BY <1>3, <4>4 DEF ResumeEnter, ResumeExit, Tell, TypeOK
        <5> QED
          BY <2>1, <4>1, <5>1
      <4> QED
        BY <4>2, <4>3, <4>4 DEF Resumes
    <3> QED
      BY <2>1, <3>1 DEF Committed
  <2>3. call[t].op = "COMMIT"
    BY <2>1, <2>2, CommittedIsOver
  <2>4. ResumeOutermost(t, ok) /\ acked' = acked
    BY <2>3 DEF Resumes, ResumeBegin, ResumeExecute, ResumeEnter, ResumeExit, ResumeOutermost
  <2>5. \A b \in Blocks \ {0} : told'[b] = told[b]
    BY <1>3, <2>4 DEF ResumeOutermost, Tell, TypeOK
  <2>6. w \in durable \/ Doomed(w)
    BY <2>2, <2>4 DEF Keeps, WorkIsKept, InDatabase
  <2>7. around[w.in] \subseteq Blocks
    BY <2>4, WriteTypes
  <2> QED
    BY <1>1, <2>1, <2>3, <2>5, <2>6, <2>7, DoomedKept
<1>5. CASE ~Alone'
  BY <1>4, <1>5 DEF Keeps, NestIsSaved, WorkIsKept, InWork, InSaves
<1>6. CASE Alone'
  <2>1. spawned = {} /\ t = Root /\ status' = "open" /\ Nest' = blocks'[Root] /\ Answered' = acked'
    BY <1>1, <1>2, <1>6 DEF Alone, Nest, Answered
  <2>2. saved' = saved /\ work' = work /\ status' = status /\ Alone
    BY <2>1 DEF IsOver, Alone
  <2>3. SUFFICES NestIsSaved' /\ InWork' /\ InSaves'
    BY <1>4 DEF Keeps, WorkIsKept
  <2>4. ASSUME NEW w \in Answered,
               \A b \in Blocks \ {0} :
                 \/ told[b] \in {"failed", "rolledback"}
                 \/ call[Root].op = "ROLLBACK_TO" /\ call[Root].sp = b
                 => told'[b] \in {"failed", "rolledback"}
        PROVE  around'[w.in] = around[w.in] /\ (Doomed(w) => Doomed(w)')
    BY <1>1, <2>4, DoomedKept, AnsweredTypes
  <2>5. ASSUME blocks' = blocks, call[t].op \notin {"RELEASE", "SAVEPOINT"}, Answered' \subseteq Answered,
               \A b \in Blocks \ {0} :
                 \/ told[b] \in {"failed", "rolledback"}
                 \/ call[Root].op = "ROLLBACK_TO" /\ call[Root].sp = b
                 => told'[b] \in {"failed", "rolledback"}
        PROVE  NestIsSaved' /\ InWork' /\ InSaves'
    <3>1. Nest = blocks[Root] /\ Nest' = blocks[Root]
      BY <2>1, <2>5 DEF Nest
    <3>2. /\ DOMAIN Nest' \subseteq DOMAIN Nest /\ \A k \in DOMAIN Nest' : 1 .. k \subseteq DOMAIN Nest'
          /\ \A k \in DOMAIN Nest' : Nest'[k] = Nest[k]
      BY <1>3, <3>1
    <3> QED
      BY <2>1, <2>2, <2>4, <2>5, <3>2, AloneKept DEF Keeps, WorkIsKept
  <2>6. CASE ResumeBegin(t, ok)
    <3>1. /\ call[t].op = "BEGIN" /\ blocks' = blocks /\ acked' = acked
          /\ \A b \in Blocks \ {0} : told'[b] = told[b]
      BY <1>3, <2>6 DEF ResumeBegin, Tell, TypeOK
    <3>2. Answered' \subseteq Answered
      BY <2>1, <3>1 DEF Answered
    <3> QED
      BY <2>1, <2>5, <3>1, <3>2
  <2>7. CASE ResumeExecute(t, ok)
    <3>1. call[t].op = "WRITE" /\ blocks' = blocks /\ told' = told
      BY <2>7 DEF ResumeExecute
    <3>2. Answered' \subseteq Answered
      BY <2>1, <2>7 DEF ResumeExecute, Answered
    <3> QED
      BY <2>1, <2>5, <3>1, <3>2
  <2>8. CASE ResumeOutermost(t, ok)
    <3>1. /\ call[t].op \in {"COMMIT", "ROLLBACK"} /\ blocks' = blocks /\ acked' = acked
          /\ \A b \in Blocks \ {0} : told'[b] = told[b]
      BY <1>3, <2>8 DEF ResumeOutermost, Tell, TypeOK
    <3>2. Answered' \subseteq Answered
      BY <2>1, <3>1 DEF Answered
    <3> QED
      BY <2>1, <2>5, <3>1, <3>2
  <2>9. CASE ResumeEnter(t, ok)
    <3> DEFINE b == call[t].sp
               n == Len(blocks[t])
    <3>1. /\ call[t].op = "SAVEPOINT" /\ acked' = acked
          /\ \A c \in Blocks \ {b} : told'[c] = told[c]
      BY <1>3, <2>9 DEF ResumeEnter, Tell, TypeOK
    <3>2. told[b] = "none"
      BY <1>3, <3>1 DEF Nesting
    <3>3. Answered = acked /\ Answered' \subseteq Answered
      BY <2>1, <3>1 DEF Answered
    <3>4. \A w \in Answered : around'[w.in] = around[w.in] /\ (Doomed(w) => Doomed(w)')
      BY <2>1, <2>4, <3>1, <3>2
    <3>5. /\ DOMAIN Nest' \subseteq DOMAIN Nest /\ \A k \in DOMAIN Nest' : 1 .. k \subseteq DOMAIN Nest'
          /\ \A k \in DOMAIN Nest' : Nest'[k] = Nest[k]
      <4>1. CASE ok
        <5>1. /\ Nest = Append(blocks[t], b)
              /\ blocks'[t] = Append(blocks[t], b)
          BY <2>1, <2>9, <3>1, <4>1 DEF ResumeEnter, Nest, TypeOK
        <5>2. DOMAIN Append(blocks[t], b) = 1 .. n + 1 /\ n \in Nat
          BY <1>3, <2>1, AppendFacts
        <5> QED
          BY <2>1, <5>1, <5>2
      <4>2. CASE ~ok
        <5>1. blocks' = blocks
          BY <2>9, <4>2 DEF ResumeEnter
        <5>2. /\ DOMAIN Append(blocks[t], b) = 1 .. n + 1 /\ n \in Nat /\ DOMAIN blocks[t] = 1 .. n
              /\ \A j \in DOMAIN blocks[t] : Append(blocks[t], b)[j] = blocks[t][j]
          BY <1>3, <2>1, AppendFacts
        <5>3. Nest = blocks[t] \/ Nest = Append(blocks[t], b)
          BY <2>1 DEF Nest
        <5> QED
          BY <2>1, <5>1, <5>2, <5>3
      <4> QED
        BY <4>1, <4>2
    <3> QED
      BY <2>1, <2>2, <3>1, <3>3, <3>4, <3>5, AloneKept DEF Keeps, WorkIsKept
  <2>10. CASE ResumeExit(t, ok)
    <3> DEFINE b == call[t].sp
    <3>1. /\ call[t].op \in {"RELEASE", "ROLLBACK_TO"} /\ acked' = acked
          /\ blocks[t] # <<>> /\ b = Innermost(t) /\ Leave(t)
          /\ \A c \in Blocks \ {b} : told'[c] = told[c]
          /\ call[t].op = "ROLLBACK_TO" => told'[b] \in {"failed", "rolledback"}
      BY <1>3, <2>10 DEF ResumeExit, Tell, TypeOK, MayCall
    <3>2. told[b] = "open"
      <4>1. /\ Len(blocks[t]) \in DOMAIN blocks[t] /\ b = blocks[t][Len(blocks[t])]
        BY <3>1, InnermostFacts
      <4> QED
        BY <1>3, <4>1 DEF Nesting
    <3>3. Answered = acked /\ Answered' \subseteq Answered
      BY <2>1, <3>1 DEF Answered
    <3>4. \A w \in Answered : around'[w.in] = around[w.in] /\ (Doomed(w) => Doomed(w)')
      BY <2>1, <2>4, <3>1, <3>2
    <3>5. Nest = blocks[t]
      BY <2>1, <3>1 DEF Nest
    <3>6. /\ DOMAIN Nest' \subseteq DOMAIN Nest /\ \A k \in DOMAIN Nest' : 1 .. k \subseteq DOMAIN Nest'
          /\ \A k \in DOMAIN Nest' : Nest'[k] = Nest[k]
          /\ Len(Nest) \notin DOMAIN Nest'
      BY <1>3, <2>1, <3>1, <3>5, LeaveFacts
    <3> QED
      BY <2>1, <2>2, <3>3, <3>4, <3>6, AloneKept DEF Keeps, WorkIsKept
  <2> QED
    BY <2>6, <2>7, <2>8, <2>9, <2>10 DEF Resumes
<1> QED
  BY <1>5, <1>6

LEMMA KeepsRun ==
  ASSUME TypeOK, Control, Contents, Keeps, NEW t \in Tasks, Run(t)
  PROVE  Keeps'
<1>1. PICK r \in {"ok", "err"} :
        /\ Answer(t, r)
        /\ \/ RunBegin(t, r) \/ RunFinished(t, r) \/ RunAborted(t, r) \/ RunWrite(t, r)
           \/ RunSavepoint(t, r) \/ RunRelease(t, r) \/ RunRollbackTo(t, r)
           \/ RunCommit(t, r) \/ RunRollback(t, r)
  BY DEF Run
<1>2. /\ blocks' = blocks /\ acked' = acked /\ told' = told /\ around' = around
      /\ spawned' = spawned /\ call[t].op # "none" /\ call[t].ans = "none"
  BY DEF Run
<1>3. /\ call'[t].op = call[t].op /\ call'[t].sp = call[t].sp /\ call'[t].ans = r
      /\ \A u \in Tasks \ {t} : call'[u] = call[u]
  BY <1>1, AnswerFacts
<1>4. /\ MayCall(t) /\ Nesting /\ Outermost /\ SavesEntered /\ InWork /\ InSaves /\ NestIsSaved
      /\ call[t].sp \in Blocks /\ saved \in Seq(SavedRecord)
      /\ DOMAIN saved = 1 .. Len(saved) /\ Len(saved) \in Nat
      /\ blocks[t] \in Seq(Blocks) /\ DOMAIN blocks[t] = 1 .. Len(blocks[t])
      /\ Len(blocks[t]) \in Nat
  <2>1. call[t] \in Call
    BY CallTypes
  <2> QED
    BY <2>1, WriteTypes, InnermostFacts DEF Control, Callers, Contents, Keeps, WorkIsKept, Call
<1>5. spawned = {} => t = Root
  BY <1>2, OnlyRoot
<1>6. /\ \A w : Doomed(w) => Doomed(w)'
      /\ \A w \in Answered : around'[w.in] = around[w.in]
  <2>1. call'[Root].op = call[Root].op /\ call'[Root].sp = call[Root].sp
    BY <1>3
  <2> QED
    BY <1>2, <2>1 DEF Doomed
<1>7. InDatabase'
  <2> SUFFICES ASSUME Committed', NEW w \in acked PROVE w \in durable' \/ Doomed(w)'
    BY <1>2 DEF InDatabase
  <2>1. spawned = {} /\ t = Root /\ ~aborted'
    BY <1>2, <1>5 DEF Committed
  <2>2. call[t].op = "COMMIT" /\ r = "ok"
    <3>1. told[0] # "committed"
      BY <1>2, <1>4, <2>1 DEF Outermost, MayCall
    <3> QED
      BY <1>2, <1>3, <2>1, <3>1 DEF Committed
  <2>3. RunCommit(t, r)
    BY <1>1, <2>2 DEF RunBegin, RunFinished, RunAborted, RunWrite, RunSavepoint, RunRelease,
                      RunRollbackTo, RunRollback
  <2>4. status = "open" /\ durable' = work
    BY <2>1, <2>2, <2>3 DEF RunCommit
  <2>5. w \in work \/ Doomed(w)
    BY <1>4, <2>1, <2>4 DEF InWork, Alone, Answered
  <2> QED
    BY <1>6, <2>4, <2>5
<1>8. CASE ~Alone'
  BY <1>7, <1>8 DEF Keeps, NestIsSaved, WorkIsKept, InWork, InSaves
<1>9. CASE Alone'
  <2>1. spawned = {} /\ t = Root /\ status' = "open"
    BY <1>2, <1>5, <1>9 DEF Alone
  <2>2. SUFFICES NestIsSaved' /\ InWork' /\ InSaves'
    BY <1>7 DEF Keeps, WorkIsKept
  <2>3. Nest = blocks[t]
    BY <1>2, <2>1 DEF Nest
  <2>4. ~(call[t].op = "SAVEPOINT" /\ r = "ok") => Nest' = blocks[t]
    BY <1>2, <1>3, <2>1 DEF Nest
  <2>5. ~(call[t].op = "WRITE" /\ r = "ok") => Answered' = acked /\ Answered = acked
    BY <1>2, <1>3, <2>1 DEF Answered
  <2>6. \A k \in DOMAIN blocks[t] : 1 .. k \subseteq DOMAIN blocks[t]
    BY <1>4
  <2>7. ASSUME saved' = saved, work' = work, Alone,
               ~(call[t].op = "SAVEPOINT" /\ r = "ok"), ~(call[t].op = "WRITE" /\ r = "ok")
        PROVE  NestIsSaved' /\ InWork' /\ InSaves'
    BY <1>3, <1>4, <1>6, <2>1, <2>3, <2>4, <2>5, <2>6, <2>7, AloneKept
  <2>8. CASE RunBegin(t, r)
    <3>1. call[t].op = "BEGIN" /\ told[0] = "none"
      BY <1>4, <2>8 DEF RunBegin, MayCall
    <3>2. DOMAIN Nest' = {} /\ Answered' = {}
      BY <1>4, <2>1, <2>4, <2>5, <3>1 DEF Outermost
    <3> QED
      BY <3>2 DEF NestIsSaved, InWork, InSaves
  <2>9. CASE RunFinished(t, r)
    BY <2>1, <2>9 DEF RunFinished, dbVars
  <2>10. CASE RunAborted(t, r)
    BY <2>1, <2>7, <2>10 DEF RunAborted, dbVars, Alone
  <2>11. CASE RunCommit(t, r) \/ RunRollback(t, r)
    BY <2>1, <2>11 DEF RunCommit, RunRollback, IsOver
  <2>12. CASE RunWrite(t, r) /\ r = "err"
    BY <2>1, <2>7, <2>12 DEF RunWrite, Alone
  <2>13. CASE RunWrite(t, r) /\ r = "ok"
    <3>1. PICK w : w = [by |-> t, in |-> call[t].sp]
      OBVIOUS
    <3>2. /\ call[t].op = "WRITE" /\ saved' = saved /\ work' = work \cup {w} /\ Alone
      BY <2>1, <2>13, <3>1 DEF RunWrite, Alone
    <3>3. /\ Answered = acked /\ Answered' = acked \cup {w}
          /\ Nest' = Nest
      BY <1>2, <1>3, <2>1, <2>3, <2>4, <2>13, <3>1, <3>2 DEF Answered
    <3>4. \A k \in DOMAIN Nest : Nest[k] \in around[w.in]
      BY <1>4, <2>3, <3>1, <3>2, AroundFacts DEF MayCall
    <3>5. \A b : Saves(b)' = Saves(b)
      BY <3>2 DEF Saves
    <3>6. NestIsSaved'
      BY <1>3, <1>4, <2>1, <3>2, <3>3, <3>5 DEF NestIsSaved
    <3>7. InWork'
      BY <1>4, <1>6, <3>2, <3>3 DEF InWork
    <3>8. InSaves'
      <4> SUFFICES ASSUME NEW k \in DOMAIN Nest, NEW m \in Saves(Nest[k]), NEW x \in Answered'
                   PROVE  Nest[k] \in around[x.in] \/ Doomed(x)' \/ x \in saved[m].work
        BY <1>2, <3>2, <3>3, <3>5 DEF InSaves
      <4>1. CASE x = w
        BY <3>4, <4>1
      <4>2. CASE x \in Answered
        BY <1>4, <1>6, <3>2, <4>2 DEF InSaves
      <4> QED
        BY <3>3, <4>1, <4>2
    <3> QED
      BY <3>6, <3>7, <3>8

  <2>14. CASE RunSavepoint(t, r)
    <3> DEFINE b == call[t].sp
               n == Len(saved)
               q == Len(blocks[t])
    <3>1. /\ call[t].op = "SAVEPOINT" /\ r = "ok" /\ work' = work /\ Alone
          /\ saved' = Append(saved, [sp |-> b, work |-> work])
      BY <2>1, <2>14 DEF RunSavepoint, Alone
    <3>2. /\ DOMAIN saved' = 1 .. n + 1 /\ n \in Nat
          /\ saved'[n + 1].sp = b /\ saved'[n + 1].work = work
          /\ \A i \in 1 .. n : saved'[i] = saved[i]
      <4>1. [sp |-> b, work |-> work] \in SavedRecord
        BY <1>4 DEF SavedRecord, TypeOK
      <4> QED
        BY <1>4, <3>1, <4>1, AppendFacts
    <3>3. /\ DOMAIN Nest' = 1 .. q + 1 /\ DOMAIN Nest = 1 .. q /\ q \in Nat
          /\ Nest'[q + 1] = b /\ \A k \in 1 .. q : Nest'[k] = Nest[k]
      <4>1. Nest' = Append(blocks[t], b)
        BY <1>2, <1>3, <2>1, <3>1 DEF Nest
      <4> QED
        BY <1>4, <2>3, <4>1, AppendFacts
    <3>4. told[b] = "none"
      BY <1>4, <3>1 DEF Nesting
    <3>5. \A k \in 1 .. q : Nest[k] # b
      <4>1. \A k \in DOMAIN blocks[t] : told[blocks[t][k]] = "open"
        BY <1>4 DEF Nesting
      <4> QED
        BY <2>3, <3>3, <3>4, <4>1
    <3>6. Saves(b) = {}
      <4> SUFFICES ASSUME NEW i \in Saves(b) PROVE FALSE
        OBVIOUS
      <4>1. i \in DOMAIN saved /\ saved[i].sp = b
        BY DEF Saves
      <4>2. PICK u \in Tasks : call[u].op = "SAVEPOINT" /\ call[u].sp = b /\ call[u].ans = "ok"
        BY <1>4, <3>4, <4>1 DEF SavesEntered
      <4>3. u = t
        BY <1>4, <3>1, <4>2 DEF Nesting
      <4> QED
        BY <1>2, <4>2, <4>3
    <3>7. Answered' = Answered /\ call'[Root].op # "RELEASE" /\ call[Root].op # "RELEASE"
      BY <1>3, <2>1, <2>5, <3>1
    <3>8. \A k \in 1 .. q : Saves(Nest[k])' = Saves(Nest[k]) /\ Saves(Nest[k]) # {}
      <4> SUFFICES ASSUME NEW k \in 1 .. q
                   PROVE  Saves(Nest[k])' = Saves(Nest[k]) /\ Saves(Nest[k]) # {}
        OBVIOUS
      <4>1. Saves(Nest[k])' = {i \in 1 .. n + 1 : saved'[i].sp = Nest[k]}
        BY <3>2, <3>3 DEF Saves
      <4>2. Saves(Nest[k]) = {i \in 1 .. n : saved[i].sp = Nest[k]}
        BY <1>4 DEF Saves
      <4>3. Saves(Nest[k]) # {}
        BY <1>4, <3>1, <3>3, <3>7 DEF NestIsSaved
      <4> QED
        BY <3>2, <3>5, <4>1, <4>2, <4>3
    <3>9. ASSUME NEW k \in DOMAIN Nest', k = q + 1
          PROVE  Saves(Nest[k])' = {n + 1}
      <4>1. Saves(Nest[k])' = {i \in 1 .. n + 1 : saved'[i].sp = b}
        BY <3>2, <3>3, <3>9 DEF Saves
      <4>2. \A i \in 1 .. n : saved[i].sp # b
        BY <1>4, <3>6 DEF Saves
      <4> QED
        BY <3>2, <4>1, <4>2
    <3>10. \A k \in DOMAIN Nest' : k \in 1 .. q \/ k = q + 1
      BY <3>3
    <3> HIDE DEF b, n, q
    <3>11. \A k \in DOMAIN Nest' : \A j \in 1 .. k - 1 :
             \A m \in Saves(Nest[k])' : \E l \in Saves(Nest[j])' : l < m
      <4> SUFFICES ASSUME NEW k \in DOMAIN Nest', NEW j \in 1 .. k - 1, NEW m \in Saves(Nest[k])'
                   PROVE  \E l \in Saves(Nest[j])' : l < m
        OBVIOUS
      <4>1. j \in 1 .. q
        BY <3>3, <3>10
      <4>2. CASE k \in 1 .. q
        <5>1. m \in Saves(Nest[k]) /\ k \in DOMAIN Nest
          BY <3>3, <3>8, <4>2
        <5>2. \E l \in Saves(Nest[j]) : l < m
          BY <1>4, <3>1, <5>1 DEF NestIsSaved
        <5> QED
          BY <3>8, <4>1, <5>2
      <4>3. CASE k = q + 1
        <5>1. m = n + 1
          BY <3>9, <4>3
        <5>2. PICK l : l \in Saves(Nest[j])
          BY <3>8, <4>1
        <5>3. l \in 1 .. n
          BY <1>4, <5>2 DEF Saves, n
        <5> QED
          BY <3>2, <3>8, <4>1, <5>1, <5>2, <5>3
      <4> QED
        BY <3>10, <4>2, <4>3
    <3>12. NestIsSaved'
      <4>1. \A k \in DOMAIN Nest' : Saves(Nest[k])' # {}
        BY <3>8, <3>9, <3>10
      <4> QED
        BY <3>11, <4>1 DEF NestIsSaved
    <3>13. InWork'
      BY <1>4, <1>6, <3>1, <3>7 DEF InWork
    <3>14. InSaves'
      <4> SUFFICES ASSUME NEW k \in DOMAIN Nest', NEW m \in Saves(Nest[k])', NEW w \in Answered
                   PROVE  Nest'[k] \in around[w.in] \/ Doomed(w)' \/ w \in saved'[m].work
        BY <1>2, <3>7 DEF InSaves
      <4>1. CASE k \in 1 .. q
        <5>1. m \in Saves(Nest[k]) /\ k \in DOMAIN Nest /\ Nest'[k] = Nest[k]
          BY <3>3, <3>8, <4>1
        <5>2. Nest[k] \in around[w.in] \/ Doomed(w) \/ w \in saved[m].work
          BY <1>4, <3>1, <5>1 DEF InSaves
        <5>3. saved'[m] = saved[m]
          BY <1>4, <3>2, <5>1 DEF Saves, n
        <5> QED
          BY <1>6, <5>1, <5>2, <5>3
      <4>2. CASE k = q + 1
        <5>1. saved'[m].work = work
          BY <3>2, <3>9, <4>2
        <5> QED
          BY <1>4, <1>6, <3>1, <5>1 DEF InWork
      <4> QED
        BY <3>10, <4>1, <4>2
    <3> QED
      BY <3>12, <3>13, <3>14
  <2>15. ASSUME NEW n \in 0 .. Len(saved), saved' = SubSeq(saved, 1, n), blocks[t] # <<>>,
                call[t].op \in {"RELEASE", "ROLLBACK_TO"}, Alone,
                NEW c \in 1 .. n + 1, c \in Saves(call[t].sp),
                call[t].op = "RELEASE" \/ c = n,
                \A w \in acked : w \in work' \/ Doomed(w)'
         PROVE  NestIsSaved' /\ InWork' /\ InSaves'
    <3> DEFINE q == Len(blocks[t])
    <3>1. /\ DOMAIN saved' = 1 .. n /\ \A i \in 1 .. n : saved'[i] = saved[i]
          /\ 1 .. n \subseteq DOMAIN saved
      BY <1>4, <2>15, PrefixFacts
    <3>2. /\ Nest' = Nest /\ Answered' = acked /\ Answered = acked
          /\ call'[Root].op = call[t].op
      BY <1>3, <2>1, <2>3, <2>4, <2>5, <2>15
    <3>3. q \in DOMAIN Nest /\ Nest[q] = call[t].sp /\ DOMAIN Nest = 1 .. q /\ q = Len(Nest')
      BY <1>4, <2>3, <2>15, <3>2, InnermostFacts DEF MayCall
    <3>4. ASSUME NEW k \in DOMAIN Nest'
          PROVE  \/ \E i \in DOMAIN saved' : saved[i].sp = Nest[k]
                 \/ k = Len(Nest') /\ call'[Root].op = "RELEASE"
      <4>1. CASE k = q
        BY <2>15, <3>1, <3>2, <3>3, <4>1 DEF Saves
      <4>2. CASE k # q
        <5>1. k \in 1 .. q - 1 /\ q \in Nat
          BY <1>4, <3>2, <3>3, <4>2
        <5>2. PICK l \in Saves(Nest[k]) : l < c
          BY <1>4, <2>15, <3>3, <5>1 DEF NestIsSaved
        <5>3. l \in 1 .. n /\ saved[l].sp = Nest[k]
          BY <1>4, <2>15, <5>2 DEF Saves
        <5> QED
          BY <3>1, <5>3
      <4> QED
        BY <4>1, <4>2
    <3>5. \A i \in DOMAIN saved' : 1 .. i \subseteq DOMAIN saved'
      BY <2>15, <3>1
    <3>6. \A k \in DOMAIN Nest' : 1 .. k \subseteq DOMAIN Nest'
      BY <2>3, <2>6, <3>2
    <3> QED
      BY <1>4, <1>6, <2>15, <3>1, <3>2, <3>4, <3>5, <3>6, AloneCut
  <2>16. CASE RunRelease(t, r)
    <3>1. work' = work /\ call[t].op = "RELEASE" /\ Alone /\ blocks[t] # <<>>
      BY <1>4, <2>1, <2>16 DEF RunRelease, Alone, MayCall
    <3>2. CASE saved' = saved
      BY <2>7, <3>1, <3>2
    <3>3. CASE saved' # saved
      <4>1. PICK i \in Saves(call[t].sp) : saved' = SubSeq(saved, 1, i - 1)
        BY <2>16, <3>3 DEF RunRelease
      <4>2. i - 1 \in 0 .. Len(saved) /\ i \in 1 .. (i - 1) + 1
        BY <1>4 DEF Saves
      <4>3. \A w \in acked : w \in work' \/ Doomed(w)'
        BY <1>4, <1>6, <2>5, <3>1 DEF InWork
      <4> QED
        BY <2>15, <3>1, <4>1, <4>2, <4>3
    <3> QED
      BY <3>2, <3>3
  <2>17. CASE RunRollbackTo(t, r)
    <3>1. call[t].op = "ROLLBACK_TO" /\ Alone /\ blocks[t] # <<>>
      BY <1>4, <2>1, <2>17 DEF RunRollbackTo, Alone, MayCall
    <3>2. CASE r # "ok"
      BY <2>7, <2>17, <3>1, <3>2 DEF RunRollbackTo
    <3>3. CASE r = "ok"
      <4>1. PICK i \in Saves(call[t].sp) : work' = saved[i].work /\ saved' = SubSeq(saved, 1, i)
        BY <2>17, <3>3 DEF RunRollbackTo
      <4>2. i \in 0 .. Len(saved) /\ i \in 1 .. i + 1
        BY <1>4 DEF Saves
      <4>3. \A w \in acked : w \in work' \/ Doomed(w)'
        <5> SUFFICES ASSUME NEW w \in acked, ~Doomed(w)' PROVE w \in work'
          OBVIOUS
        <5>1. /\ Len(blocks[t]) \in DOMAIN Nest /\ Nest[Len(blocks[t])] = call[t].sp
              /\ call[t].sp # 0
          BY <1>4, <2>3, <3>1, InnermostFacts DEF MayCall, Nesting
        <5>2. call[t].sp \in around[w.in] \/ Doomed(w) \/ w \in saved[i].work
          BY <1>4, <2>5, <3>1, <5>1 DEF InSaves
        <5>3. call[t].sp \notin around[w.in]
          BY <1>2, <1>3, <2>1, <3>1, <5>1 DEF Doomed
        <5> QED
          BY <1>6, <4>1, <5>2, <5>3
      <4> QED
        BY <2>15, <3>1, <4>1, <4>2, <4>3
    <3> QED
      BY <3>2, <3>3
  <2> QED
    BY <1>1, <2>8, <2>9, <2>10, <2>11, <2>12, <2>13, <2>14, <2>16, <2>17
<1> QED
  BY <1>8, <1>9

LEMMA KeepsStep ==
  ASSUME TypeOK, Control, Contents, Keeps, [Next]_vars
  PROVE  Keeps'
<1>1. ASSUME NEW t \in Tasks, Resume(t) PROVE Keeps'
  <2>1. PICK ok \in BOOLEAN : ok = (call[t].ans = "ok")
    OBVIOUS
  <2>2. /\ Resumes(t, ok) /\ UNCHANGED <<status, saved, work>> /\ UNCHANGED <<aborted, durable>>
        /\ call[t].op # "none"
    BY <1>1, <2>1 DEF Resume, dbVars, Control, Callers, MayCall
  <2> QED
    BY <2>1, <2>2, KeepsResumes
<1>2. ASSUME NEW t \in Tasks, Cancel(t) PROVE Keeps'
  <2>1. /\ Resumes(t, FALSE) /\ UNCHANGED <<aborted, durable>> /\ call[t].op # "none"
        /\ UNCHANGED <<status, saved, work>> \/ IsOver
    BY <1>2 DEF Cancel
  <2> QED
    BY <2>1, KeepsResumes
<1> QED
  BY <1>1, <1>2, KeepsStart, KeepsRun, KeepsElse DEF Next

-----------------------------------------------------------------------------
(* The theorems. *)

LEMMA InitInv ==
  ASSUME Init
  PROVE  ScopeInv
<1>1. TypeOK
  <2>1. <<>> \in Seq(Blocks) /\ <<>> \in Seq(SavedRecord) /\ Idle \in Call
    BY DEF Idle, Call, Blocks
  <2> QED
    BY <2>1 DEF Init, TypeOK, Blocks, SavedRecord
<1>2. /\ \A t \in Tasks : ~pinned[t] /\ blocks[t] = <<>> /\ call[t].op = "none" /\ call[t].ans = "none"
      /\ seq = 0 /\ status = "none" /\ saved = <<>> /\ work = {} /\ durable = {} /\ acked = {}
      /\ 0 \in Blocks /\ \A b \in Blocks : told[b] = "none" /\ around[b] = {0}
      /\ DOMAIN <<>> = {}
  BY DEF Init, Idle, Blocks
<1>3. Outermost /\ Callers
  BY <1>2 DEF Outermost, Callers, MayCall
<1>4. Nesting
  BY <1>2 DEF Nesting
<1>5. Entered /\ SavesBefore /\ GoneIsGone /\ SavesEntered
  BY <1>2 DEF Entered, Writes, SavesBefore, GoneIsGone, SavesEntered
<1>6. NestIsSaved /\ WorkIsKept
  BY <1>2 DEF NestIsSaved, WorkIsKept, InWork, InSaves, InDatabase, Alone, Committed
<1> QED
  BY <1>1, <1>3, <1>4, <1>5, <1>6 DEF ScopeInv

LEMMA StepInv ==
  ASSUME ScopeInv, [Next]_vars
  PROVE  ScopeInv'
<1>1. TypeOK /\ Control /\ Contents /\ Keeps /\ Callers
  BY DEF ScopeInv, Control, Contents, Keeps
<1>2. TypeOK'
  BY <1>1, TypeStep
<1>3. Control'
  BY <1>1, ControlStep
<1>4. Contents'
  BY <1>1, ContentsStep
<1>5. Keeps'
  BY <1>1, KeepsStep
<1> QED
  BY <1>2, <1>3, <1>4, <1>5 DEF ScopeInv, Control, Contents, Keeps

\* Every state of every run satisfies the inductive invariant: whatever the tasks do inside
\* in_transaction() blocks of one transaction, and whichever calls fail or are cancelled.
THEOREM Invariance == Spec => []ScopeInv
<1>1. Init => ScopeInv
  BY InitInv
<1>2. ScopeInv /\ [Next]_vars => ScopeInv'
  BY StepInv
<1> QED
  BY <1>1, <1>2, PTL DEF Spec

LEMMA TruthFromInv ==
  ASSUME ScopeInv
  PROVE  BlocksTellTrue
<1>1. TypeOK /\ Outermost /\ GoneIsGone /\ WorkIsKept /\ MayCall(Root) /\ Control /\ Entered /\ Nesting
  BY DEF ScopeInv, Callers, Control
<1>2. RolledBackIsGone
  <2> SUFFICES ASSUME NEW w \in durable, NEW b \in around[w.in], told[b] = "rolledback"
               PROVE  FALSE
    BY DEF RolledBackIsGone
  <2>1. b \in Blocks
    BY <1>1, WriteTypes DEF Writes
  <2>2. CASE b = 0
    BY <1>1, <2>2 DEF Outermost
  <2>3. CASE b # 0
    BY <1>1, <2>1, <2>3 DEF GoneIsGone, Gone
  <2> QED
    BY <2>2, <2>3
<1>3. ReleasedSurvives
  <2> SUFFICES ASSUME NEW w \in acked, spawned = {}, told[0] = "committed", ~aborted,
                      \A b \in around[w.in] \ {0} : told[b] = "released"
               PROVE  w \in durable
    BY DEF ReleasedSurvives
  <2>1. Committed
    BY DEF Committed
  <2>2. w \in durable \/ Doomed(w)
    BY <1>1, <2>1 DEF WorkIsKept, InDatabase
  <2>3. call[Root].op # "ROLLBACK_TO"
    BY <1>1, <2>1, CommittedIsOver
  <2> QED
    BY <2>2, <2>3 DEF Doomed
<1> QED
  BY <1>1, <1>2, <1>3 DEF BlocksTellTrue

\* in_transaction.__aexit__ tells the truth, for any number of tasks and nested blocks: no
\* write of a block that ended with ROLLBACK TO is ever durable, and in a transaction that
\* was never shared every acknowledged write of released blocks is durable once committed.
THEOREM TellsTheTruth == Spec => []BlocksTellTrue
<1>1. ScopeInv => BlocksTellTrue
  BY TruthFromInv
<1> QED
  BY <1>1, Invariance, PTL

LEMMA SavepointFromInv ==
  ASSUME ScopeInv
  PROVE  OpenBlockHasSavepoint
<1> SUFFICES ASSUME NEW t \in Tasks, NEW i \in DOMAIN blocks[t], spawned = {}, status = "open",
                    call[t].op \notin {"RELEASE", "ROLLBACK_TO"}
             PROVE  Saves(blocks[t][i]) # {}
  BY DEF OpenBlockHasSavepoint
<1>1. TypeOK /\ MayCall(t) /\ NestIsSaved /\ Alone
  BY DEF ScopeInv, Callers, Alone
<1>2. t = Root
  <2>1. blocks[t] # <<>>
    OBVIOUS
  <2> QED
    BY <1>1, <2>1 DEF MayCall
<1>3. i \in DOMAIN Nest /\ Nest[i] = blocks[t][i]
  <2>1. blocks[t] \in Seq(Blocks) /\ call[t].sp \in Blocks
    BY <1>1, CallTypes, InnermostFacts DEF Call
  <2>2. DOMAIN blocks[t] \subseteq DOMAIN Append(blocks[t], call[t].sp)
        /\ \A j \in DOMAIN blocks[t] : Append(blocks[t], call[t].sp)[j] = blocks[t][j]
    BY <2>1, AppendFacts
  <2> QED
    BY <1>2, <2>2 DEF Nest
<1> QED
  BY <1>1, <1>2, <1>3 DEF NestIsSaved

\* A task alone in its transaction can always roll back to each of its open blocks: their
\* savepoints are there as long as the transaction is, after any failures and cancels.
THEOREM SavepointsStay == Spec => []OpenBlockHasSavepoint
<1>1. ScopeInv => OpenBlockHasSavepoint
  BY SavepointFromInv
<1> QED
  BY <1>1, Invariance, PTL

\* After the outermost block committed or rolled back nothing more becomes durable: a task
\* that still holds the pin (_active_tx of a copied context) gets tx_finished.
THEOREM NothingAfterTheEnd == Spec => OverIsOver
<1>1. ASSUME ScopeInv, [Next]_vars
      PROVE  [told[0] \in {"committed", "rolledback"} => UNCHANGED durable]_vars
  <2>1. CASE UNCHANGED vars
    BY <2>1
  <2>2. CASE durable' = durable
    BY <2>2
  <2>3. CASE \E t \in Tasks : Run(t)
    <3>1. PICK t \in Tasks, r \in {"ok", "err"} :
            \/ RunBegin(t, r) \/ RunFinished(t, r) \/ RunAborted(t, r) \/ RunWrite(t, r)
            \/ RunSavepoint(t, r) \/ RunRelease(t, r) \/ RunRollbackTo(t, r)
            \/ RunCommit(t, r) \/ RunRollback(t, r)
      BY <2>3 DEF Run
    <3>2. durable' = durable \/ status = "open"
      BY <3>1 DEF RunBegin, RunFinished, RunAborted, RunWrite, RunSavepoint, RunRelease,
                  RunRollbackTo, RunCommit, RunRollback, dbVars
    <3>3. told[0] \in {"committed", "rolledback"} => status = "over"
      BY <1>1 DEF ScopeInv, Outermost
    <3> QED
      BY <3>2, <3>3
  <2>4. CASE Next /\ ~\E t \in Tasks : Run(t)
    <3>1. durable' = durable
      BY <2>4 DEF Next, Begin, EndTask, Execute, Enter, Exit, ExitOutermost, Resume, Cancel, Spawn,
                  Lose, Abandon, dbVars
    <3> QED
      BY <3>1
  <2> QED
    BY <1>1, <2>1, <2>3, <2>4
<1> QED
  BY <1>1, Invariance, PTL DEF Spec, OverIsOver

=============================================================================
