------------------------ MODULE CompiledPlan_proofs ------------------------
(***************************************************************************)
(* Theorems about CompiledPlan, for any tasks, models and dialects and any  *)
(* number of changes of the fields.                                         *)
(*                                                                          *)
(* IInv is inductive.  An operation up to its first await changes meta and  *)
(* starts an op (StartStep), what follows an await changes one op only      *)
(* (ResumeStep); the other lemmas say what compile() and the dicts of       *)
(* column subsets do to one MetaInfo.                                       *)
(***************************************************************************)
EXTENDS CompiledPlan, TLAPS

-----------------------------------------------------------------------------
(* Stamps and plans *)

LEMMA StampType ==
  ASSUME NEW d \in Dialects, NEW v \in Versions
  PROVE  /\ Of(d, v) \in Stamp
         /\ Of(d, v).dialect = d
         /\ Of(d, v).fields = v
         /\ Built(Of(d, v)) \in [Attrs -> Stamp]
         /\ \A a \in Attrs : Built(Of(d, v))[a] = Of(d, v)
         /\ Built(Of(d, v)) # NoPlan
<1>1. Of(d, v) \in Stamp /\ Of(d, v).dialect = d /\ Of(d, v).fields = v
  BY DEF Of, Stamp
<1>2. Built(Of(d, v)) \in [Attrs -> Stamp] /\ \A a \in Attrs : Built(Of(d, v))[a] = Of(d, v)
  BY <1>1 DEF Built
<1>3. Built(Of(d, v)) # NoPlan
  <2>1. "decode" \in Attrs
    BY DEF Attrs
  <2>2. NoPlan["decode"].dialect = Neutral
    BY <2>1 DEF NoPlan, Built, NoStamp
  <2> QED
    BY <1>1, <1>2, <2>1, <2>2, DialectAssumption
<1> QED
  BY <1>1, <1>2, <1>3

LEMMA NoStampType == NoStamp \in Stamp /\ NoPlan \in [Attrs -> Stamp] /\ Unset \in Stamps
<1>1. 0 \in Versions
  BY DialectAssumption DEF Versions
<1>2. NoStamp \in Stamp
  BY <1>1 DEF NoStamp, Stamp
<1> QED
  BY <1>2 DEF NoPlan, Built, Unset, Stamps

-----------------------------------------------------------------------------
(* One MetaInfo *)

\* compile() leaves the plan of the dialect it was asked for in use, and every plan it
\* keeps is whole and of the current fields.
LEMMA CompileIsOwn ==
  ASSUME NEW x \in MetaInfo, OwnPlans(x), NEW d \in Dialects
  PROVE  /\ Compile(x, d) \in MetaInfo
         /\ OwnPlans(Compile(x, d))
         /\ Compile(x, d).attr = Built(Of(d, x.fields))
         /\ Compile(x, d).fields = x.fields
<1> DEFINE plan == Built(Of(d, x.fields))
<1>1. x.fields \in Versions /\ x.compiledFor \in Dialects \cup {Neutral}
  BY DEF MetaInfo
<1>2. plan \in [Attrs -> Stamp] /\ plan # NoPlan
  BY <1>1, StampType
<1>3. d # Neutral
  BY DialectAssumption
<1>4. NoPlans \in [Dialects -> [Attrs -> Stamp]]
  BY NoStampType DEF NoPlans
<1>5. ASSUME NEW kept \in [Dialects -> [Attrs -> Stamp]],
             \A e \in Dialects : kept[e] \in {NoPlan, Built(Of(e, x.fields))}
      PROVE  /\ Build(x, kept, d) \in MetaInfo
             /\ OwnPlans(Build(x, kept, d))
             /\ Build(x, kept, d).attr = plan
             /\ Build(x, kept, d).fields = x.fields
  <2> DEFINE y == Build(x, kept, d)
  <2>1. /\ y.compiledFor = d
        /\ y.attr = plan
        /\ y.plans = [kept EXCEPT ![d] = plan]
        /\ y.fields = x.fields
        /\ y.partials = x.partials
    BY DEF Build, MetaInfo
  <2>2. y \in MetaInfo
    BY <1>2, <1>5 DEF Build, MetaInfo
  <2>3. \A e \in Dialects : y.plans[e] \in {NoPlan, Built(Of(e, x.fields))}
    BY <1>5, <2>1
  <2>4. OwnPlans(y)
    BY <2>1, <2>3 DEF OwnPlans
  <2> QED
    BY <2>1, <2>2, <2>4
<1>6. CASE x.compiledFor = d
  BY <1>3, <1>6 DEF Compile, OwnPlans
<1>7. CASE x.compiledFor = Neutral
  <2>1. Compile(x, d) = Build(x, NoPlans, d)
    BY <1>3, <1>7, DialectAssumption DEF Compile
  <2> QED
    BY <1>4, <1>5, <2>1 DEF NoPlans
<1>8. CASE x.compiledFor \in Dialects \ {d} /\ x.plans[d] # NoPlan
  <2>1. Compile(x, d) = Restore(x, d)
    BY <1>8, DialectAssumption DEF Compile
  <2>2. x.plans[d] = plan
    BY <1>8, DialectAssumption DEF OwnPlans
  <2> DEFINE y == Restore(x, d)
  <2>3. y.attr = plan
    <3>1. y.attr = [a \in Attrs |-> x.plans[d][a]]
      BY DEF Restore, CompiledPlanAttrs, MetaInfo
    <3> QED
      BY <1>2, <2>2, <3>1
  <2>4. /\ y.compiledFor = d
        /\ y.plans = x.plans
        /\ y.fields = x.fields
        /\ y.partials = x.partials
    BY DEF Restore, MetaInfo
  <2>5. y \in MetaInfo
    <3>1. y = [x EXCEPT !.compiledFor = d, !.attr = plan]
      BY <2>3, <2>4 DEF Restore, MetaInfo
    <3> QED
      BY <1>2, <3>1 DEF MetaInfo
  <2>6. OwnPlans(y)
    BY <1>8, <2>3, <2>4, DialectAssumption DEF OwnPlans
  <2> QED
    BY <2>1, <2>3, <2>4, <2>5, <2>6
<1>9. CASE x.compiledFor \in Dialects \ {d} /\ x.plans[d] = NoPlan
  <2>1. Compile(x, d) = Build(x, x.plans, d)
    BY <1>9, DialectAssumption DEF Compile
  <2>2. x.plans \in [Dialects -> [Attrs -> Stamp]]
    BY DEF MetaInfo
  <2>3. \A e \in Dialects : x.plans[e] \in {NoPlan, Built(Of(e, x.fields))}
    BY <1>9, DialectAssumption DEF OwnPlans
  <2> QED
    BY <1>5, <2>1, <2>2, <2>3
<1> QED
  BY <1>1, <1>6, <1>7, <1>8, <1>9

\* Under a plan built whole, the decoders of a column subset are of that plan, and so is
\* the entry that keeps them.
LEMMA PartialIsOwn ==
  ASSUME NEW x \in MetaInfo, OwnPlans(x), NEW d \in Dialects, NEW v \in Versions,
         x.attr = Built(Of(d, v))
  PROVE  /\ PartialPlan(x) = Of(d, v)
         /\ Remember(x) \in MetaInfo
         /\ OwnPlans(Remember(x))
         /\ Remember(x).attr = x.attr
<1>1. Of(d, v) \in Stamp /\ \A a \in Attrs : x.attr[a] = Of(d, v)
  BY StampType
<1>2. x.attr["decode"] = Of(d, v) /\ x.attr["partial"] = Of(d, v)
  BY <1>1 DEF Attrs
<1>3. PartialPlan(x) = Of(d, v)
  <2> DEFINE known == {e \in Stamp : <<x.attr["partial"], e>> \in x.partials}
  <2>1. \A e \in known : e = Of(d, v)
    BY <1>2 DEF OwnPlans
  <2> QED
    BY <1>2, <2>1 DEF PartialPlan
<1>4. Remember(x) = [x EXCEPT !.partials = @ \cup {<<Of(d, v), Of(d, v)>>}]
  BY <1>2, <1>3 DEF Remember
<1>5. <<Of(d, v), Of(d, v)>> \in Stamp \X Stamp
  BY <1>1
<1>6. Remember(x) \in MetaInfo
  BY <1>4, <1>5 DEF MetaInfo
<1>7. /\ Remember(x).attr = x.attr
      /\ Remember(x).compiledFor = x.compiledFor
      /\ Remember(x).fields = x.fields
      /\ Remember(x).plans = x.plans
      /\ Remember(x).partials = x.partials \cup {<<Of(d, v), Of(d, v)>>}
  BY <1>4 DEF MetaInfo
<1>8. OwnPlans(Remember(x))
  BY <1>7 DEF OwnPlans
<1> QED
  BY <1>3, <1>6, <1>7, <1>8

\* The same for the models an operation compiles.
LEMMA CompileAllIsOwn ==
  ASSUME TypeOK, PlansAreOwn, NEW ms \in SUBSET Models, NEW d \in Dialects
  PROVE  /\ CompileAll(ms, d) \in [Models -> MetaInfo]
         /\ \A m \in Models : OwnPlans(CompileAll(ms, d)[m])
         /\ \A m \in ms : CompileAll(ms, d)[m].attr = Built(Of(d, meta[m].fields))
         /\ \A m \in Models : CompileAll(ms, d)[m].fields = meta[m].fields
<1>1. \A m \in Models : meta[m] \in MetaInfo /\ OwnPlans(meta[m])
  BY DEF TypeOK, PlansAreOwn
<1>2. \A m \in Models :
        /\ Compile(meta[m], d) \in MetaInfo
        /\ OwnPlans(Compile(meta[m], d))
        /\ Compile(meta[m], d).attr = Built(Of(d, meta[m].fields))
        /\ Compile(meta[m], d).fields = meta[m].fields
  BY <1>1, CompileIsOwn
<1> QED
  BY <1>1, <1>2 DEF CompileAll

LEMMA FieldsType ==
  ASSUME TypeOK, NEW m \in Models
  PROVE  meta[m].fields \in Versions
BY DEF TypeOK, MetaInfo

-----------------------------------------------------------------------------
(* Steps *)

\* What NewestFields says of a step.
Newest ==
  \A t \in Tasks :
    op[t].at = "idle" /\ op'[t].at = "sent" /\ op'[t].kind \notin {"raw", "m2m"} =>
      \A m \in op'[t].of : op'[t].sent[m].fields = meta[m].fields

\* What an operation may leave at its first await, when the MetaInfos are now.
Sound(new, now) ==
  /\ new \in Op
  /\ new.used = Unset
  /\ new.at \in {"begun", "sent"}
  /\ new.at = "begun" => new.kind = "delete"
  /\ new.kind \in {"query", "insert"} => \A m \in new.of : new.held[m] = new.sent[m]
  /\ new.kind \notin {"raw", "m2m"} =>
       \A m \in new.of :
         /\ now[m].attr = Built(Of(new.on, meta[m].fields))
         /\ new.at = "sent" => new.sent[m] = Of(new.on, meta[m].fields)

LEMMA SoundStart ==
  ASSUME TypeOK, NEW now \in [Models -> MetaInfo], NEW new, Sound(new, now)
  PROVE  /\ OwnSnapshot(new)
         /\ OwnUnlessStirred(new)
<1>1. /\ new.of \subseteq Models
      /\ new.on \in Dialects
      /\ \A m \in Models : new.used[m] = NoStamp
  BY DEF Sound, Op, Unset
<1>2. \A m \in new.of :
        new.kind \notin {"raw", "m2m"} /\ new.at = "sent" => new.sent[m].dialect = new.on
  BY <1>1, FieldsType, StampType DEF Sound
<1> QED
  BY <1>1, <1>2 DEF Sound, OwnSnapshot, OwnUnlessStirred

LEMMA StartStep ==
  ASSUME IInv, NEW t \in Tasks, NEW now \in [Models -> MetaInfo],
         \A m \in Models : OwnPlans(now[m]),
         NEW new, Sound(new, now), Start(t, now, new),
         m2mSql' \in [Models -> [Dialects -> Stamp]]
  PROVE  IInv' /\ Newest
<1> USE DEF IInv
<1>1. /\ meta' = now
      /\ op'[t] = new
      /\ \A u \in Tasks \ {t} : op'[u] = Stir(op[u], now)
  BY DEF Start
<1>2. \A u \in Tasks :
        LET o == op[u] IN
        LET p == Stir(o, now) IN
        /\ o \in Op
        /\ p \in Op
        /\ p.kind = o.kind /\ p.on = o.on /\ p.of = o.of /\ p.at = o.at
        /\ p.sent = o.sent /\ p.held = o.held /\ p.used = o.used
        /\ ~p.stirred => ~o.stirred
        /\ ~p.stirred /\ o.at # "idle" => \A m \in o.of : now[m].attr = meta[m].attr
  <2> TAKE u \in Tasks
  <2>1. op[u] \in Op
    BY DEF TypeOK
  <2> DEFINE b == op[u].stirred \/ (op[u].at # "idle" /\ \E m \in op[u].of : now[m].attr # meta[m].attr)
  <2>2. Stir(op[u], now) = [op[u] EXCEPT !.stirred = b] /\ b \in BOOLEAN
    BY <2>1 DEF Stir, Op
  <2> QED
    BY <2>1, <2>2 DEF Op
<1>3. TypeOK'
  <2>1. op' \in [Tasks -> Op]
    BY <1>1, <1>2 DEF Start, Sound
  <2> QED
    BY <1>1, <2>1 DEF TypeOK
<1>4. PlansAreOwn'
  BY <1>1 DEF PlansAreOwn
<1>5. OwnSnapshot(new) /\ OwnUnlessStirred(new)
  BY SoundStart
<1>6. SnapshotsAreOwn'
  <2>1. \A u \in Tasks : OwnSnapshot(Stir(op[u], now))
    BY <1>2 DEF SnapshotsAreOwn, OwnSnapshot
  <2> QED
    BY <1>1, <1>5, <2>1 DEF SnapshotsAreOwn
<1>7. UnstirredIsOwn'
  <2>1. \A u \in Tasks : OwnUnlessStirred(Stir(op[u], now))
    BY <1>2 DEF UnstirredIsOwn, OwnUnlessStirred
  <2> QED
    BY <1>1, <1>5, <2>1 DEF UnstirredIsOwn
<1>8. ASSUME NEW u \in Tasks
      PROVE  UnderWay(op[u])'
  <2>1. CASE u = t
    <3>1. \A m \in new.of : meta[m].fields \in Versions
      BY FieldsType DEF Sound, Op
    <3> QED
      BY <1>1, <2>1, <3>1 DEF UnderWay, Sound
  <2>2. CASE u # t
    BY <1>1, <1>2, <2>2 DEF UnderWay
  <2> QED
    BY <2>1, <2>2
<1>9. Newest
  <2>1. ASSUME new.at = "sent", new.kind \notin {"raw", "m2m"}, NEW m \in new.of
        PROVE  new.sent[m].fields = meta[m].fields
    BY <2>1, FieldsType, StampType DEF Sound, Op
  <2> QED
    BY <1>1, <1>2, <2>1 DEF Newest
<1> QED
  BY <1>3, <1>4, <1>6, <1>7, <1>8, <1>9

LEMMA ResumeStep ==
  ASSUME IInv, NEW t \in Tasks, NEW at, NEW to \in Op, at # "idle", Resume(t, at, to),
         OwnSnapshot(to), OwnUnlessStirred(to), UnderWay(to)
  PROVE  IInv' /\ Newest
<1>1. /\ op'[t] = to
      /\ \A u \in Tasks \ {t} : op'[u] = op[u]
      /\ op' \in [Tasks -> Op]
      /\ op[t].at # "idle"
      /\ meta' = meta /\ m2mSql' = m2mSql
  BY DEF Resume, IInv, TypeOK
<1>2. TypeOK' /\ PlansAreOwn'
  BY <1>1 DEF IInv, TypeOK, PlansAreOwn
<1>3. SnapshotsAreOwn' /\ UnstirredIsOwn'
  BY <1>1 DEF IInv, SnapshotsAreOwn, UnstirredIsOwn
<1>4. \A u \in Tasks : UnderWay(op[u])'
  BY <1>1 DEF IInv, UnderWay
<1>5. Newest
  BY <1>1 DEF Newest
<1> QED
  BY <1>2, <1>3, <1>4, <1>5 DEF IInv

-----------------------------------------------------------------------------
(* Up to the first await *)

\* An operation that sends at once, after it compiled the models ms for d.
LEMMA AwaitingIsSound ==
  ASSUME NEW kind \in Kinds, NEW d \in Dialects, NEW ms \in SUBSET Models,
         NEW sent \in Stamps, NEW held \in Stamps, NEW now,
         kind \in {"query", "insert"} => \A m \in ms : held[m] = sent[m],
         kind \notin {"raw", "m2m"} =>
           \A m \in ms : /\ now[m].attr = Built(Of(d, meta[m].fields))
                        /\ sent[m] = Of(d, meta[m].fields)
  PROVE  Sound(Awaiting(kind, d, ms, sent, held), now)
BY NoStampType DEF Sound, Awaiting, Op

\* The stamps an operation on ms takes from the plans it compiled or renders for d.
LEMMA StampsOfCompiled ==
  ASSUME TypeOK, NEW ms \in SUBSET Models, NEW d \in Dialects,
         NEW now \in [Models -> MetaInfo],
         \A m \in ms : now[m].attr = Built(Of(d, meta[m].fields)),
         \A m \in Models : now[m].fields = meta[m].fields,
         NEW a \in Attrs
  PROVE  /\ Attr(now, ms, a) \in Stamps
         /\ Rendered(now, ms, d) \in Stamps
         /\ \A m \in ms : Attr(now, ms, a)[m] = Of(d, meta[m].fields)
         /\ \A m \in ms : Rendered(now, ms, d)[m] = Of(d, meta[m].fields)
<1>1. \A m \in Models : meta[m].fields \in Versions
  BY FieldsType
<1>2. \A m \in ms : now[m].attr[a] = Of(d, meta[m].fields)
  BY <1>1, StampType
<1>3. \A m \in ms : now[m].attr[a] \in Stamp /\ Of(d, meta[m].fields) \in Stamp
  BY <1>1, <1>2, StampType
<1> QED
  BY <1>2, <1>3, NoStampType DEF Attr, Rendered, Stamps

LEMMA HomeType == Home \in Dialects
BY DialectAssumption

\* One model compiled for d: its plan is d's, and so is every stamp taken from it.
LEMMA OneCompiled ==
  ASSUME IInv, NEW m \in Models, NEW d \in Dialects
  PROVE  LET now == CompileAll({m}, d) IN
         /\ now \in [Models -> MetaInfo]
         /\ \A n \in Models : OwnPlans(now[n])
         /\ now[m].attr = Built(Of(d, meta[m].fields))
         /\ now[m].fields = meta[m].fields
         /\ Rendered(now, {m}, d) \in Stamps
         /\ Rendered(now, {m}, d)[m] = Of(d, meta[m].fields)
         /\ \A a \in Attrs : /\ Attr(now, {m}, a) \in Stamps
                             /\ Attr(now, {m}, a)[m] = Of(d, meta[m].fields)
<1> DEFINE now == CompileAll({m}, d)
           ms  == {m}
<1>1. ms \in SUBSET Models /\ TypeOK /\ PlansAreOwn /\ m \in ms
  BY DEF IInv
<1>2. /\ now \in [Models -> MetaInfo]
      /\ \A n \in Models : OwnPlans(now[n])
      /\ \A n \in ms : now[n].attr = Built(Of(d, meta[n].fields))
      /\ \A n \in Models : now[n].fields = meta[n].fields
  BY <1>1, CompileAllIsOwn
<1> HIDE DEF now, ms
<1>3. \A a \in Attrs :
        /\ Attr(now, ms, a) \in Stamps
        /\ Rendered(now, ms, d) \in Stamps
        /\ \A n \in ms : Attr(now, ms, a)[n] = Of(d, meta[n].fields)
        /\ \A n \in ms : Rendered(now, ms, d)[n] = Of(d, meta[n].fields)
  BY <1>1, <1>2, StampsOfCompiled
<1>4. "decode" \in Attrs
  BY DEF Attrs
<1>5. Rendered(now, ms, d) \in Stamps /\ Rendered(now, ms, d)[m] = Of(d, meta[m].fields)
  BY <1>1, <1>3, <1>4
<1>6. \A a \in Attrs : Attr(now, ms, a) \in Stamps /\ Attr(now, ms, a)[m] = Of(d, meta[m].fields)
  BY <1>1, <1>3
<1>7. now[m].attr = Built(Of(d, meta[m].fields)) /\ now[m].fields = meta[m].fields
  BY <1>1, <1>2
<1> QED
  BY <1>2, <1>5, <1>6, <1>7 DEF now, ms

\* An operation on one model that compiles it and sends at once.
LEMMA OneStep ==
  ASSUME IInv, NEW t \in Tasks, NEW m \in Models, NEW d \in Dialects,
         NEW kind \in Kinds, NEW sent \in Stamps, NEW held \in Stamps,
         sent[m] = Of(d, meta[m].fields),
         kind \in {"query", "insert"} => held[m] = sent[m],
         Start(t, CompileAll({m}, d), Awaiting(kind, d, {m}, sent, held)),
         m2mSql' = m2mSql
  PROVE  IInv' /\ Newest
<1> DEFINE now == CompileAll({m}, d)
           new == Awaiting(kind, d, {m}, sent, held)
<1>1. /\ now \in [Models -> MetaInfo]
      /\ \A n \in Models : OwnPlans(now[n])
      /\ now[m].attr = Built(Of(d, meta[m].fields))
  BY OneCompiled
<1>2. Start(t, now, new)
  OBVIOUS
<1> HIDE DEF now
<1>3. Sound(new, now)
  BY <1>1, AwaitingIsSound
<1> HIDE DEF new
<1> QED
  BY <1>1, <1>2, <1>3, StartStep DEF IInv, TypeOK

LEMMA FetchStep ==
  ASSUME IInv, NEW t \in Tasks, NEW m \in Models, NEW d \in Dialects, Fetch(t, m, d)
  PROVE  IInv' /\ Newest
<1>1. "select" \in Attrs /\ "decode" \in Attrs /\ "query" \in Kinds
  BY DEF Attrs, Kinds, Reads
<1> DEFINE now  == CompileAll({m}, d)
           sent == Attr(now, {m}, "select")
           held == Attr(now, {m}, "decode")
<1>2. Start(t, CompileAll({m}, d), Awaiting("query", d, {m}, sent, held)) /\ m2mSql' = m2mSql
  BY DEF Fetch
<1>3. /\ sent \in Stamps /\ sent[m] = Of(d, meta[m].fields)
      /\ held \in Stamps /\ held[m] = sent[m]
  BY <1>1, OneCompiled
<1> HIDE DEF sent, held
<1> QED
  BY <1>1, <1>2, <1>3, OneStep

LEMMA ProjectStep ==
  ASSUME IInv, NEW t \in Tasks, NEW ms \in SUBSET Models, NEW some, NEW d \in Dialects,
         Project(t, ms, some, d)
  PROVE  IInv' /\ Newest
<1> DEFINE now == CompileAll(ms, d)
           then == [m \in Models |-> IF m \in some THEN Remember(now[m]) ELSE now[m]]
           held == [m \in Models |-> IF m \in some THEN PartialPlan(now[m])
                                     ELSE Attr(now, ms, "decode")[m]]
           new == Awaiting("query", d, ms, Rendered(now, ms, d), held)
<1>1. Start(t, then, new) /\ m2mSql' = m2mSql /\ some \subseteq ms
  BY DEF Project
<1>2. /\ now \in [Models -> MetaInfo] /\ \A m \in Models : OwnPlans(now[m])
      /\ \A m \in ms : now[m].attr = Built(Of(d, meta[m].fields))
      /\ \A m \in Models : now[m].fields = meta[m].fields
  BY CompileAllIsOwn DEF IInv
<1>3. "decode" \in Attrs /\ "query" \in Kinds
  BY DEF Attrs, Kinds, Reads
<1>4. /\ Attr(now, ms, "decode") \in Stamps
      /\ Rendered(now, ms, d) \in Stamps
      /\ \A m \in ms : Attr(now, ms, "decode")[m] = Of(d, meta[m].fields)
      /\ \A m \in ms : Rendered(now, ms, d)[m] = Of(d, meta[m].fields)
  BY <1>2, <1>3, StampsOfCompiled DEF IInv
<1> HIDE DEF now
<1>5. \A m \in some :
        /\ PartialPlan(now[m]) = Of(d, meta[m].fields)
        /\ Remember(now[m]) \in MetaInfo
        /\ OwnPlans(Remember(now[m]))
        /\ Remember(now[m]).attr = now[m].attr
  BY <1>1, <1>2, FieldsType, PartialIsOwn DEF IInv
<1>6. \A m \in ms : Of(d, meta[m].fields) \in Stamp
  BY FieldsType, StampType DEF IInv
<1>7. held \in Stamps /\ \A m \in ms : held[m] = Of(d, meta[m].fields)
  BY <1>1, <1>4, <1>5, <1>6 DEF Stamps
<1>8. then \in [Models -> MetaInfo] /\ \A m \in Models : OwnPlans(then[m])
  BY <1>2, <1>5
<1>9. \A m \in ms : then[m].attr = Built(Of(d, meta[m].fields))
  BY <1>2, <1>5
<1> HIDE DEF then, held
<1>10. Sound(new, then)
  BY <1>3, <1>4, <1>7, <1>9, AwaitingIsSound
<1> QED
  BY <1>1, <1>8, <1>10, StartStep DEF IInv, TypeOK

LEMMA GetStep ==
  ASSUME IInv, NEW t \in Tasks, NEW m \in Models, Get(t, m)
  PROVE  IInv' /\ Newest
<1>1. "select" \in Attrs /\ "get" \in Kinds
  BY DEF Attrs, Kinds, Reads
<1> QED
  BY <1>1, OneCompiled, OneStep, NoStampType, HomeType DEF Get

LEMMA RawStep ==
  ASSUME IInv, NEW t \in Tasks, NEW m \in Models, Raw(t, m)
  PROVE  IInv' /\ Newest
<1> DEFINE new == Awaiting("raw", Home, {m}, Rendered(meta, {m}, Home), Unset)
<1>1. Start(t, meta, new) /\ m2mSql' = m2mSql
  BY DEF Raw
<1>2. Rendered(meta, {m}, Home) \in Stamps
  BY FieldsType, StampType, NoStampType, HomeType DEF IInv, Rendered, Stamps
<1>3. Sound(new, meta)
  BY <1>2, AwaitingIsSound, NoStampType, HomeType DEF Kinds, Reads
<1>4. meta \in [Models -> MetaInfo] /\ \A n \in Models : OwnPlans(meta[n])
  BY DEF IInv, TypeOK, PlansAreOwn
<1> QED
  BY <1>1, <1>3, <1>4, StartStep DEF IInv, TypeOK

LEMMA FetchM2MStep ==
  ASSUME IInv, NEW t \in Tasks, NEW m \in Models, FetchM2M(t, m)
  PROVE  IInv' /\ Newest
<1> DEFINE known == m2mSql[m][Home] # NoStamp
           now  == IF known THEN meta ELSE CompileAll({m}, Home)
           text == IF known THEN m2mSql[m][Home] ELSE Of(Home, now[m].fields)
           sent == [Unset EXCEPT ![m] = text]
           new  == Awaiting("m2m", Home, {m}, sent, Unset)
<1>1. Start(t, now, new) /\ m2mSql' = [m2mSql EXCEPT ![m][Home] = text]
  BY DEF FetchM2M
<1>2. /\ now \in [Models -> MetaInfo] /\ \A n \in Models : OwnPlans(now[n])
      /\ now[m].fields = meta[m].fields
  <2>1. meta \in [Models -> MetaInfo] /\ \A n \in Models : OwnPlans(meta[n])
    BY DEF IInv, TypeOK, PlansAreOwn
  <2>2. CASE known
    BY <2>1, <2>2
  <2>3. CASE ~known
    BY <2>3, OneCompiled, HomeType
  <2> QED
    BY <2>2, <2>3
<1> HIDE DEF now
<1>3. text \in Stamp
  <2>1. m2mSql[m][Home] \in Stamp /\ Of(Home, now[m].fields) \in Stamp
    BY <1>2, FieldsType, StampType, HomeType DEF IInv, TypeOK
  <2> QED
    BY <2>1
<1> HIDE DEF text
<1>4. m2mSql' \in [Models -> [Dialects -> Stamp]]
  BY <1>1, <1>3, HomeType DEF IInv, TypeOK
<1>5. sent \in Stamps
  BY <1>3, NoStampType DEF Stamps
<1> HIDE DEF sent
<1>6. "m2m" \in Kinds
  BY DEF Kinds, Reads
<1>7. Sound(new, now)
  BY <1>5, <1>6, AwaitingIsSound, NoStampType, HomeType
<1> HIDE DEF new
<1> QED
  BY <1>1, <1>2, <1>4, <1>7, StartStep

LEMMA PrefetchM2MStep ==
  ASSUME IInv, NEW t \in Tasks, NEW m \in Models, PrefetchM2M(t, m)
  PROVE  IInv' /\ Newest
<1>1. "prefetch" \in Kinds
  BY DEF Kinds, Reads
<1> QED
  BY <1>1, OneCompiled, OneStep, NoStampType, HomeType DEF PrefetchM2M

LEMMA InsertStep ==
  ASSUME IInv, NEW t \in Tasks, NEW m \in Models, NEW d \in Dialects, Insert(t, m, d)
  PROVE  IInv' /\ Newest
<1>1. "insert" \in Attrs /\ "decode" \in Attrs /\ "insert" \in Kinds
  BY DEF Attrs, Kinds, Writes
<1> DEFINE now  == CompileAll({m}, d)
           sent == Attr(now, {m}, "insert")
           held == Attr(now, {m}, "decode")
<1>2. Start(t, CompileAll({m}, d), Awaiting("insert", d, {m}, sent, held)) /\ m2mSql' = m2mSql
  BY DEF Insert
<1>3. /\ sent \in Stamps /\ sent[m] = Of(d, meta[m].fields)
      /\ held \in Stamps /\ held[m] = sent[m]
  BY <1>1, OneCompiled
<1> HIDE DEF sent, held
<1> QED
  BY <1>1, <1>2, <1>3, OneStep

LEMMA UpdateStep ==
  ASSUME IInv, NEW t \in Tasks, NEW m \in Models, NEW d \in Dialects, Update(t, m, d)
  PROVE  IInv' /\ Newest
<1>1. "update" \in Attrs /\ "update" \in Kinds
  BY DEF Attrs, Kinds, Writes
<1>2. PICK sent \in {Attr(CompileAll({m}, d), {m}, "update"), Rendered(CompileAll({m}, d), {m}, d)} :
        Start(t, CompileAll({m}, d), Awaiting("update", d, {m}, sent, Unset))
  BY DEF Update
<1>3. sent \in Stamps /\ sent[m] = Of(d, meta[m].fields)
  BY <1>1, OneCompiled
<1>4. m2mSql' = m2mSql
  BY DEF Update
<1> QED
  BY <1>1, <1>2, <1>3, <1>4, OneStep, NoStampType

LEMMA DeleteStep ==
  ASSUME IInv, NEW t \in Tasks, NEW m \in Models, NEW d \in Dialects, Delete(t, m, d)
  PROVE  IInv' /\ Newest
<1> DEFINE now  == CompileAll({m}, d)
           sent == Attr(now, {m}, "delete")
           one  == Awaiting("delete", d, {m}, sent, Unset)
           two  == [one EXCEPT !.at = "begun", !.sent = Unset]
           new  == IF d \in Cascading THEN one ELSE two
<1>1. Start(t, now, new) /\ m2mSql' = m2mSql
  BY DEF Delete
<1>2. "delete" \in Attrs /\ "delete" \in Kinds
  BY DEF Attrs, Kinds, Writes
<1>3. /\ now \in [Models -> MetaInfo]
      /\ \A n \in Models : OwnPlans(now[n])
      /\ now[m].attr = Built(Of(d, meta[m].fields))
      /\ sent \in Stamps
      /\ sent[m] = Of(d, meta[m].fields)
  BY <1>2, OneCompiled
<1> HIDE DEF now, sent
<1>4. Sound(one, now)
  BY <1>2, <1>3, AwaitingIsSound, NoStampType
<1>5. Sound(two, now)
  BY <1>4, NoStampType DEF Sound, Awaiting, Op
<1> HIDE DEF one, two
<1>6. Sound(new, now)
  BY <1>4, <1>5
<1> HIDE DEF new
<1> QED
  BY <1>1, <1>3, <1>6, StartStep DEF IInv, TypeOK

-----------------------------------------------------------------------------
(* After an await *)

LEMMA OpType ==
  ASSUME IInv, NEW t \in Tasks
  PROVE  /\ op[t] \in Op
         /\ op[t].of \subseteq Models
         /\ OwnSnapshot(op[t])
         /\ OwnUnlessStirred(op[t])
         /\ UnderWay(op[t])
BY DEF IInv, TypeOK, Op, SnapshotsAreOwn, UnstirredIsOwn

\* Stamps read from the plans the models have now.
LEMMA AttrType ==
  ASSUME TypeOK, NEW ms \in SUBSET Models, NEW a \in Attrs
  PROVE  Attr(meta, ms, a) \in Stamps /\ \A m \in ms : Attr(meta, ms, a)[m] = meta[m].attr[a]
BY NoStampType DEF TypeOK, MetaInfo, Attr, Stamps

LEMMA SendDeleteStep ==
  ASSUME IInv, NEW t \in Tasks, SendDelete(t)
  PROVE  IInv' /\ Newest
<1> DEFINE o    == op[t]
           sent == Attr(meta, o.of, "delete")
           to   == [o EXCEPT !.at = "sent", !.sent = sent]
<1>1. Resume(t, "begun", to) /\ o.at = "begun"
  BY DEF SendDelete, Resume
<1>2. /\ o \in Op /\ o.of \subseteq Models
      /\ OwnUnlessStirred(o) /\ UnderWay(o)
  BY OpType
<1>3. "delete" \in Attrs
  BY DEF Attrs
<1>4. sent \in Stamps /\ \A m \in o.of : sent[m] = meta[m].attr["delete"]
  BY <1>2, <1>3, AttrType DEF IInv
<1>5. o.kind = "delete" /\ o.used = Unset /\ o.on \in Dialects
  BY <1>1, <1>2 DEF UnderWay, Op
<1>6. ~o.stirred => \A m \in o.of : \E v \in Versions :
        meta[m].attr = Built(Of(o.on, v)) /\ sent[m] = Of(o.on, v)
  <2>1. \A v \in Versions : Built(Of(o.on, v))["delete"] = Of(o.on, v)
    BY <1>3, <1>5, StampType
  <2> QED
    BY <1>1, <1>2, <1>4, <1>5, <2>1 DEF UnderWay
<1> HIDE DEF sent
<1>7. /\ to \in Op /\ to.kind = "delete" /\ to.at = "sent" /\ to.sent = sent
      /\ to.used = Unset /\ to.on = o.on /\ to.of = o.of /\ to.stirred = o.stirred
  BY <1>2, <1>4, <1>5 DEF Op
<1> HIDE DEF o, to
<1>8. OwnSnapshot(to)
  BY <1>7 DEF OwnSnapshot
<1>9. OwnUnlessStirred(to)
  <2>1. \A m \in o.of : Unset[m] = NoStamp
    BY <1>2 DEF Unset
  <2>2. ~o.stirred => \A m \in o.of : sent[m].dialect = o.on
    BY <1>5, <1>6, StampType
  <2> QED
    BY <1>7, <2>1, <2>2 DEF OwnUnlessStirred
<1>10. UnderWay(to)
  BY <1>6, <1>7 DEF UnderWay
<1> QED
  BY <1>1, <1>7, <1>8, <1>9, <1>10, ResumeStep

LEMMA HydrateHeldStep ==
  ASSUME IInv, NEW t \in Tasks, HydrateHeld(t)
  PROVE  IInv' /\ Newest
<1> DEFINE o == op[t]
<1>1. PICK at \in {"idle", "refresh"} : Resume(t, "sent", [o EXCEPT !.at = at, !.used = o.held])
  BY DEF HydrateHeld
<1> DEFINE to == [o EXCEPT !.at = at, !.used = o.held]
<1>2. o \in Op /\ OwnSnapshot(o) /\ OwnUnlessStirred(o) /\ o.kind \in {"query", "insert"}
  BY OpType DEF HydrateHeld
<1>3. /\ to \in Op /\ to.kind = o.kind /\ to.at = at /\ to.sent = o.sent /\ to.held = o.held
      /\ to.used = o.held /\ to.on = o.on /\ to.of = o.of /\ to.stirred = o.stirred
  BY <1>2 DEF Op
<1>4. Resume(t, "sent", to)
  BY <1>1
<1> HIDE DEF o, to
<1>5. OwnSnapshot(to) /\ OwnUnlessStirred(to) /\ UnderWay(to)
  BY <1>1, <1>2, <1>3 DEF OwnSnapshot, OwnUnlessStirred, UnderWay
<1> QED
  BY <1>3, <1>4, <1>5, ResumeStep

LEMMA HydrateNowStep ==
  ASSUME IInv, NEW t \in Tasks, HydrateNow(t)
  PROVE  IInv' /\ Newest
<1> DEFINE o    == op[t]
           used == Attr(meta, o.of, "decode")
           to   == [o EXCEPT !.at = "idle", !.used = used]
<1>1. Resume(t, "sent", to) /\ o.at = "sent" /\ o.kind \in {"get", "raw", "m2m", "prefetch"}
  BY DEF HydrateNow, Resume
<1>2. o \in Op /\ o.of \subseteq Models /\ OwnUnlessStirred(o) /\ UnderWay(o)
  BY OpType
<1>3. "decode" \in Attrs
  BY DEF Attrs
<1>4. used \in Stamps /\ \A m \in o.of : used[m] = meta[m].attr["decode"]
  BY <1>2, <1>3, AttrType DEF IInv
<1>5. ~o.stirred /\ o.kind \notin {"raw", "m2m"} => \A m \in o.of : used[m] = o.sent[m]
  <2>1. \A v \in Versions : Built(Of(o.on, v))["decode"] = Of(o.on, v)
    BY <1>2, <1>3, StampType DEF Op
  <2> QED
    BY <1>1, <1>2, <1>4, <2>1 DEF UnderWay
<1> HIDE DEF used
<1>6. /\ to \in Op /\ to.kind = o.kind /\ to.at = "idle" /\ to.sent = o.sent
      /\ to.used = used /\ to.on = o.on /\ to.of = o.of /\ to.stirred = o.stirred
  BY <1>2, <1>4 DEF Op
<1> HIDE DEF o, to
<1>7. OwnSnapshot(to) /\ OwnUnlessStirred(to) /\ UnderWay(to)
  BY <1>1, <1>2, <1>5, <1>6 DEF OwnSnapshot, OwnUnlessStirred, UnderWay
<1> QED
  BY <1>1, <1>6, <1>7, ResumeStep

\* The operation is over, and nothing else changes.
LEMMA OverStep ==
  ASSUME IInv, NEW t \in Tasks, Acknowledge(t) \/ Refreshed(t)
  PROVE  IInv' /\ Newest
<1> DEFINE o  == op[t]
           to == [o EXCEPT !.at = "idle"]
<1>1. PICK at \in {"sent", "refresh"} : Resume(t, at, to) /\ o.at = at
  BY DEF Acknowledge, Refreshed, Resume
<1>2. o \in Op /\ OwnSnapshot(o) /\ OwnUnlessStirred(o)
  BY OpType
<1>3. /\ to \in Op /\ to.kind = o.kind /\ to.at = "idle" /\ to.sent = o.sent /\ to.held = o.held
      /\ to.used = o.used /\ to.on = o.on /\ to.of = o.of /\ to.stirred = o.stirred
  BY <1>2 DEF Op
<1> HIDE DEF o, to
<1>4. OwnSnapshot(to) /\ OwnUnlessStirred(to) /\ UnderWay(to)
  BY <1>1, <1>2, <1>3 DEF OwnSnapshot, OwnUnlessStirred, UnderWay
<1> QED
  BY <1>1, <1>3, <1>4, ResumeStep

LEMMA IdleIsOwn == Idle \in Op /\ OwnSnapshot(Idle) /\ OwnUnlessStirred(Idle) /\ UnderWay(Idle)
<1>1. Idle \in Op
  BY NoStampType, HomeType DEF Idle, Op, Kinds
<1> QED
  BY <1>1 DEF Idle, OwnSnapshot, OwnUnlessStirred, UnderWay

LEMMA AbortStep ==
  ASSUME IInv, NEW t \in Tasks, Abort(t)
  PROVE  IInv' /\ Newest
BY IdleIsOwn, ResumeStep DEF Abort

LEMMA ChangeFieldsStep ==
  ASSUME IInv, NEW m \in Models, ChangeFields(m)
  PROVE  IInv' /\ Newest
<1> DEFINE x == meta[m]
           y == [x EXCEPT !.fields = x.fields + 1, !.compiledFor = Neutral]
<1>1. /\ meta' = [meta EXCEPT ![m] = y]
      /\ m2mSql' = m2mSql /\ op' = op
      /\ x.fields < MaxResets
  BY DEF ChangeFields
<1>2. x \in MetaInfo /\ meta \in [Models -> MetaInfo]
  BY DEF IInv, TypeOK
<1>3. x.fields + 1 \in Versions
  BY <1>1, <1>2, DialectAssumption DEF MetaInfo, Versions
<1>4. /\ y \in MetaInfo
      /\ y.attr = x.attr
      /\ y.compiledFor = Neutral
      /\ y.partials = x.partials
  BY <1>2, <1>3 DEF MetaInfo
<1> HIDE DEF y
<1>5. /\ meta' \in [Models -> MetaInfo]
      /\ \A n \in Models : meta'[n].attr = meta[n].attr
      /\ \A n \in Models \ {m} : meta'[n] = meta[n]
      /\ meta'[m].compiledFor = Neutral
      /\ meta'[m].partials = meta[m].partials
  BY <1>1, <1>2, <1>4
<1>6. TypeOK' /\ PlansAreOwn'
  BY <1>1, <1>5 DEF IInv, TypeOK, PlansAreOwn, OwnPlans
<1>7. SnapshotsAreOwn' /\ UnstirredIsOwn'
  BY <1>1 DEF IInv, SnapshotsAreOwn, UnstirredIsOwn
<1>8. \A t \in Tasks : UnderWay(op[t])'
  BY <1>1, <1>5, OpType DEF UnderWay
<1>9. Newest
  BY <1>1 DEF Newest
<1> QED
  BY <1>6, <1>7, <1>8, <1>9 DEF IInv

-----------------------------------------------------------------------------
(* Theorems *)

LEMMA InitIsOwn ==
  ASSUME Init
  PROVE  IInv
<1>1. Fresh \in MetaInfo /\ OwnPlans(Fresh)
  BY NoStampType, DialectAssumption DEF Fresh, MetaInfo, OwnPlans, NoPlans, Versions
<1>2. \A t \in Tasks : op[t] = Idle
  BY DEF Init
<1>3. TypeOK
  BY <1>1, IdleIsOwn, NoStampType DEF Init, TypeOK
<1>4. PlansAreOwn
  BY <1>1 DEF Init, PlansAreOwn
<1> QED
  BY <1>2, <1>3, <1>4, IdleIsOwn DEF IInv, SnapshotsAreOwn, UnstirredIsOwn

LEMMA NextIsOwn ==
  ASSUME IInv, [Next]_vars
  PROVE  IInv' /\ [Newest]_vars
<1>1. ASSUME NEW t \in Tasks, NEW m \in Models, NEW d \in Dialects,
             \/ Fetch(t, m, d)
             \/ FetchOnly(t, m, d)
             \/ \E some \in SUBSET Models :
                  FetchAnnotated(t, m, some, d) \/ \E n \in Models : FetchRelated(t, m, n, some, d)
             \/ Insert(t, m, d)
             \/ Update(t, m, d)
             \/ Delete(t, m, d)
      PROVE  IInv' /\ Newest
  <2>1. CASE \E ms \in SUBSET Models, some \in SUBSET Models : Project(t, ms, some, d)
    BY <2>1, ProjectStep
  <2> QED
    BY <1>1, <2>1, FetchStep, InsertStep, UpdateStep, DeleteStep
       DEF FetchOnly, FetchAnnotated, FetchRelated
<1>2. ASSUME NEW t \in Tasks, NEW m \in Models,
             Get(t, m) \/ Raw(t, m) \/ FetchM2M(t, m) \/ PrefetchM2M(t, m)
      PROVE  IInv' /\ Newest
  BY <1>2, GetStep, RawStep, FetchM2MStep, PrefetchM2MStep
<1>3. ASSUME NEW t \in Tasks,
             \/ SendDelete(t) \/ HydrateHeld(t) \/ HydrateNow(t)
             \/ Acknowledge(t) \/ Refreshed(t) \/ Abort(t)
      PROVE  IInv' /\ Newest
  BY <1>3, SendDeleteStep, HydrateHeldStep, HydrateNowStep, OverStep, AbortStep
<1>4. ASSUME NEW m \in Models, ChangeFields(m)
      PROVE  IInv' /\ Newest
  BY <1>4, ChangeFieldsStep
<1>5. CASE UNCHANGED vars
  BY <1>5 DEF vars, IInv, TypeOK, PlansAreOwn, SnapshotsAreOwn, UnstirredIsOwn, UnderWay
<1> QED
  BY <1>1, <1>2, <1>3, <1>4, <1>5 DEF Next

\* IInv: what a model's MetaInfo holds and what every operation keeps of it fit together
\* in every reachable state (MetaInfo.compile and the operations that call it).
THEOREM Invariance == Spec => []IInv
<1>1. Init => IInv
  BY InitIsOwn
<1>2. IInv /\ [Next]_vars => IInv'
  BY NextIsOwn
<1> QED
  BY <1>1, <1>2, PTL DEF Spec

\* Every variable keeps its type.
THEOREM TypeCorrect == Spec => []TypeOK
<1>1. IInv => TypeOK
  BY DEF IInv
<1> QED
  BY <1>1, Invariance, PTL

\* A switch of dialects restores the whole plan of that dialect and of the current fields,
\* however often and by whomever the model is compiled (MetaInfo.compile).
THEOREM PlansOwn == Spec => []PlansAreOwn
<1>1. IInv => PlansAreOwn
  BY DEF IInv
<1> QED
  BY <1>1, Invariance, PTL

\* Query sets and INSERTs decode the rows of their statement with that statement's
\* decoders, whatever other tasks compile meanwhile (QuerySet._fetch, Model._insert).
THEOREM SnapshotsOwn == Spec => []SnapshotsAreOwn
<1>1. IInv => SnapshotsAreOwn
  BY DEF IInv
<1> QED
  BY <1>1, Invariance, PTL

\* The operations that read the plan after an await are right while nobody else compiles
\* their model for another dialect (Model.get, delete, _prefetch_m2m).
THEOREM UnstirredOwn == Spec => []UnstirredIsOwn
<1>1. IInv => UnstirredIsOwn
  BY DEF IInv
<1> QED
  BY <1>1, Invariance, PTL

\* No operation that compiles sends a statement of fields the model no longer has: clearing
\* _compiled_for drops the plans of every dialect (MetaInfo.compile).
THEOREM FieldsNewest == Spec => NewestFields
<1>1. IInv /\ [Next]_vars => [Newest]_vars
  BY NextIsOwn
<1> QED
  BY <1>1, Invariance, PTL DEF Spec, NewestFields, Newest
=============================================================================
