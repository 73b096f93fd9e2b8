---------------------- MODULE ConnectionRegistry_proofs ----------------------
(***************************************************************************)
(* The invariants of ConnectionRegistry, for any tasks, names, routers and *)
(* dialects.  While calls do not overlap there is one job at most; what is *)
(* registered, and what that job still has to close, account for every     *)
(* open engine.  The order of the tables follows from the rounds of        *)
(* TopoSortModels, whose defining function is first shown to exist.        *)
(***************************************************************************)
EXTENDS ConnectionRegistry, SequenceTheorems, FiniteSetTheorems, WellFoundedInduction, TLAPS

EngineRecord == [dialect : Dialects, open : BOOLEAN, zone : Zones \cup {None}]

JobFields ==
  {"do", "of", "name", "previous", "router", "zone", "rest", "tables", "created"}
HasFields(j) == j = [f \in JobFields |-> j[f]]

\* What a job still has to do fits the phase it is in.
IsJob(j) ==
  /\ HasFields(j)
  /\ j.do \in {"idle", "connect", "close previous", "next", "close all", "generate"}
  /\ j.name \in AllNames
  /\ j.router \in Routers \cup {None} /\ j.zone \in Zones \cup {None}
  /\ j.previous \in DOMAIN engines \cup {None}
  /\ j.do \in {"connect", "close previous", "next"} => j.rest \subseteq Names
  /\ j.do = "close all" => j.rest \subseteq DOMAIN engines
  /\ j.do = "close previous" => j.previous # None

JobShape ==
  /\ engines \in Seq(EngineRecord)
  /\ job = [t \in Callers |-> job[t]] /\ \A t \in Callers : IsJob(job[t])
  /\ overlapped \in BOOLEAN /\ failed \in BOOLEAN

\* Calls that never overlapped: one of them at most is under way.
Solo ==
  ~overlapped => \A t, u \in Callers : job[t].do # "idle" /\ job[u].do # "idle" => t = u

\* No engine has two names.
OneName ==
  \A m, n \in AllNames : connections[m] = connections[n] /\ connections[m] # None => m = n

\* The engine a connecting call remembers is the one it replaces, and once it is
\* replaced no name leads to it.
Replacing ==
  ~overlapped => \A t \in Callers :
    /\ job[t].do = "connect" => job[t].previous = connections[job[t].name]
    /\ job[t].do = "close previous" => \A n \in AllNames : connections[n] # job[t].previous

\* An open engine is registered, or about to be closed.
Accounted ==
  ~overlapped => \A e \in DOMAIN engines : engines[e].open =>
    \/ \E n \in AllNames : connections[n] = e
    \/ \E t \in Callers : job[t].do = "close previous" /\ job[t].previous = e

\* close() still has every registered engine before it that is open.
ClosingAll ==
  ~overlapped => \A t \in Callers : job[t].do = "close all" =>
    \A n \in AllNames :
      connections[n] # None /\ engines[connections[n]].open => connections[n] \in job[t].rest

\* A job that is an init on its way to its default connection.
IsInit(j) == j.do = "connect" /\ j.of = "init" /\ j.name = "default"

\* The zone is the one the init under way asked for.
Asked == ~overlapped => \A t \in Callers : IsInit(job[t]) => zone = job[t].zone

\* A job of a config that has yet to register n.
Waits(j, n) ==
  /\ j.of = "init" /\ ~IsInit(j)
  /\ \/ j.do \in {"connect", "close previous", "next"} /\ n \in j.rest
     \/ j.do = "connect" /\ n = j.name

\* n leads to an engine connected after the default one.
Later(n) == connections[n] # None /\ connections[n] > default

\* Each name of the config is registered, or the init that reads it is still at work.
Configuring ==
  /\ config # {} => default # None
  /\ ~overlapped => \A n \in config : Later(n) \/ \E t \in Callers : Waits(job[t], n)

RegistryInv ==
  /\ TypeOK /\ JobShape /\ Solo /\ OneName /\ Replacing /\ Accounted /\ ClosingAll
  /\ RegisteredIsOpen /\ OneDefault /\ ZoneOfDefault /\ Asked /\ Configuring

-----------------------------------------------------------------------------
(* What the operators of the module do. *)

USE RegistryAssumption DEF Engines

\* A connected engine is the next one; those before it keep their places.
LEMMA OpenedFacts ==
  ASSUME engines \in Seq(EngineRecord), NEW z \in Zones \cup {None},
         NEW d \in Dialects, engines' = Opened(d, z)
  PROVE  /\ engines' \in Seq(EngineRecord)
         /\ Len(engines) \in Nat /\ Len(engines') = Len(engines) + 1
         /\ DOMAIN engines = 1 .. Len(engines) /\ DOMAIN engines' = 1 .. Len(engines')
         /\ \A e \in DOMAIN engines : engines'[e] = engines[e]
         /\ engines'[Len(engines) + 1] = [dialect |-> d, open |-> TRUE, zone |-> z]
<1>1. [dialect |-> d, open |-> TRUE, zone |-> z] \in EngineRecord
  BY DEF EngineRecord
<1>2. QED
  BY <1>1 DEF Opened

\* Closing an engine changes nothing but that it is open.
LEMMA ClosedFacts ==
  ASSUME engines \in Seq(EngineRecord), NEW x \in DOMAIN engines, engines' = Closed(x)
  PROVE  /\ engines' \in Seq(EngineRecord)
         /\ Len(engines') = Len(engines) /\ DOMAIN engines' = DOMAIN engines
         /\ ~engines'[x].open
         /\ \A e \in DOMAIN engines :
              /\ engines'[e].dialect = engines[e].dialect /\ engines'[e].zone = engines[e].zone
              /\ e # x => engines'[e] = engines[e]
<1>1. engines[x] \in EngineRecord
  OBVIOUS
<1>2. [engines[x] EXCEPT !.open = FALSE] \in EngineRecord
  BY <1>1 DEF EngineRecord
<1>3. engines' = [engines EXCEPT ![x] = [engines[x] EXCEPT !.open = FALSE]]
  BY DEF Closed
<1>4. QED
  BY <1>1, <1>2, <1>3 DEF EngineRecord

\* The records of the engines are of the type of TypeOK.
LEMMA EngineSet ==
  ASSUME NEW es \in Seq(EngineRecord)
  PROVE  ToSet(es) \subseteq [dialect : Dialects, open : BOOLEAN, zone : Zones \cup {None}]
<1>1. \A e \in DOMAIN es : es[e] \in EngineRecord
  OBVIOUS
<1>2. QED
  BY <1>1 DEF ToSet, EngineRecord

\* A call that goes on changes only its own job.
LEMMA GoFacts ==
  ASSUME JobShape, NEW t \in Callers, NEW w, job' = [job EXCEPT ![t] = w]
  PROVE  /\ job' = [u \in Callers |-> job'[u]]
         /\ job'[t] = w /\ \A u \in Callers \ {t} : job'[u] = job[u]
<1>1. job = [u \in Callers |-> job[u]]
  BY DEF JobShape
<1>2. QED
  BY <1>1

\* The jobs that calls begin with and go on to.
LEMMA IdleFacts ==
  /\ HasFields(Idle) /\ Idle.do = "idle" /\ Idle.name = "default" /\ Idle.previous = None
  /\ Idle.router = None /\ Idle.rest = {} /\ Idle.of = "add" /\ Idle.zone = None
BY DEF Idle, HasFields, JobFields

LEMMA ConnectingFacts ==
  ASSUME NEW of, NEW n, NEW r, NEW z, NEW rest, NEW j, j = Connecting(of, n, r, z, rest)
  PROVE  /\ HasFields(j) /\ j.do = "connect" /\ j.name = n /\ j.previous = connections[n]
         /\ j.router = r /\ j.rest = rest /\ j.of = of /\ j.zone = z
<1>1. HasFields(j)
  BY IdleFacts DEF HasFields, JobFields, Connecting
<1> QED
  BY <1>1, IdleFacts DEF HasFields, JobFields, Connecting

LEMMA PhaseFacts ==
  ASSUME NEW i, HasFields(i), NEW v, NEW j, j = [i EXCEPT !.do = v]
  PROVE  /\ HasFields(j) /\ j.do = v /\ j.name = i.name /\ j.previous = i.previous
         /\ j.router = i.router /\ j.rest = i.rest /\ j.of = i.of /\ j.zone = i.zone
BY DEF HasFields, JobFields

LEMMA CloseAllFacts ==
  ASSUME NEW v, NEW j, j = [Idle EXCEPT !.do = "close all", !.rest = v]
  PROVE  /\ HasFields(j) /\ j.do = "close all" /\ j.name = "default" /\ j.previous = None
         /\ j.router = None /\ j.rest = v /\ j.of = "add" /\ j.zone = None
BY IdleFacts DEF HasFields, JobFields

LEMMA GenerateFacts ==
  ASSUME NEW v, NEW j, j = [Idle EXCEPT !.do = "generate", !.tables = v]
  PROVE  /\ HasFields(j) /\ j.do = "generate" /\ j.name = "default" /\ j.previous = None
         /\ j.router = None /\ j.rest = {} /\ j.of = "add" /\ j.zone = None
BY IdleFacts DEF HasFields, JobFields

-----------------------------------------------------------------------------
(* One lemma per action: it keeps every conjunct of RegistryInv. *)

LEMMA ConnectedStep ==
  ASSUME RegistryInv, NEW t \in Callers, Connected(t)
  PROVE  RegistryInv'
<1> DEFINE n == job[t].name
           x == Len(engines) + 1
<1>1. /\ job[t].do = "connect" /\ Len(engines) < MaxEngines
      /\ UNCHANGED <<zone, pinned, calls, overlapped>>
      /\ connections' = [connections EXCEPT ![n] = x]
      /\ IsInit(job[t]) => /\ default' = x /\ router' = job[t].router /\ failed' = FALSE
                           /\ added' = FALSE /\ config' = job[t].rest
      /\ ~IsInit(job[t]) => /\ default' = default /\ router' = router /\ failed' = failed
                            /\ added' = (added \/ n = "default") /\ config' = config
  BY DEF Connected, Register, Go, Initialising, IsInit
<1>2. /\ TypeOK /\ JobShape /\ IsJob(job[t]) /\ HasFields(job[t])
      /\ n \in AllNames /\ job[t].zone \in Zones \cup {None}
      /\ (IsInit(job[t]) => n = "default") /\ added \in BOOLEAN
  BY DEF IsInit, RegistryInv, TypeOK, JobShape, IsJob
<1>3. PICK d \in Dialects : engines' = Opened(d, job[t].zone)
  BY DEF Connected
<1> HIDE DEF n, x
<1>4. /\ engines' \in Seq(EngineRecord) /\ Len(engines) \in Nat
      /\ DOMAIN engines = 1 .. Len(engines) /\ DOMAIN engines' = 1 .. x
      /\ Len(engines') = x
      /\ \A e \in DOMAIN engines : engines'[e] = engines[e]
      /\ engines'[x].open /\ engines'[x].zone = job[t].zone
  <2>1. engines \in Seq(EngineRecord)
    BY <1>2 DEF JobShape
  <2>2. /\ engines' \in Seq(EngineRecord) /\ Len(engines) \in Nat /\ Len(engines') = x
        /\ DOMAIN engines = 1 .. Len(engines) /\ DOMAIN engines' = 1 .. Len(engines')
        /\ \A e \in DOMAIN engines : engines'[e] = engines[e]
        /\ engines'[x] = [dialect |-> d, open |-> TRUE, zone |-> job[t].zone]
    BY <1>2, <1>3, <2>1, OpenedFacts DEF x
  <2> QED
    BY <2>2
<1>5. x \in DOMAIN engines' /\ x \notin DOMAIN engines /\ DOMAIN engines \subseteq DOMAIN engines'
      /\ x # None /\ None \notin DOMAIN engines'
  BY <1>1, <1>4 DEF x
<1>6. /\ HasFields(job'[t]) /\ job'[t].name = n /\ job'[t].previous = job[t].previous
      /\ job'[t].router = job[t].router /\ job'[t].rest = job[t].rest
      /\ job'[t].of = job[t].of /\ job'[t].zone = job[t].zone
      /\ job'[t].do = IF job[t].previous # None THEN "close previous" ELSE "next"
      /\ job' = [u \in Callers |-> job'[u]] /\ \A u \in Callers \ {t} : job'[u] = job[u]
  <2> DEFINE p == IF job[t].previous # None THEN "close previous" ELSE "next"
             w == [job[t] EXCEPT !.do = p]
  <2>1. job' = [job EXCEPT ![t] = w]
    BY DEF Connected, Go
  <2> HIDE DEF p
  <2>2. /\ HasFields(w) /\ w.do = p /\ w.name = n /\ w.previous = job[t].previous
        /\ w.router = job[t].router /\ w.rest = job[t].rest
        /\ w.of = job[t].of /\ w.zone = job[t].zone
    BY <1>2, PhaseFacts DEF n
  <2> HIDE DEF w
  <2> QED
    BY <1>2, <2>1, <2>2, GoFacts DEF p
<1>7. /\ connections' \in [AllNames -> DOMAIN engines' \cup {None}]
      /\ connections'[n] = x /\ \A m \in AllNames \ {n} : connections'[m] = connections[m]
      /\ \A m \in AllNames : connections[m] \in DOMAIN engines \cup {None}
  BY <1>1, <1>2, <1>5 DEF TypeOK
<1>8. TypeOK'
  <2>1. default' \in DOMAIN engines' \cup {None} /\ router' \in Routers \cup {None}
    BY <1>1, <1>2, <1>5 DEF TypeOK, IsJob
  <2>2. \A u \in Callers : job'[u].previous \in DOMAIN engines' \cup {None}
    BY <1>2, <1>5, <1>6 DEF TypeOK
  <2>3. pinned' \in [Tasks -> [AllNames -> DOMAIN engines' \cup {None}]]
    BY <1>1, <1>2, <1>5 DEF TypeOK
  <2>4. ToSet(engines') \subseteq EngineRecord
    BY <1>4, EngineSet DEF EngineRecord
  <2>5. Len(engines') <= MaxEngines
    BY <1>1, <1>4 DEF x
  <2>6. added' \in BOOLEAN /\ config' \subseteq Names
    BY <1>1, <1>2 DEF TypeOK, IsJob
  <2> QED
    BY <1>1, <1>2, <1>7, <2>1, <2>2, <2>3, <2>4, <2>5, <2>6 DEF TypeOK, EngineRecord
<1>9. JobShape'
  <2>1. \A u \in Callers : IsJob(job[u])'
    <3> SUFFICES ASSUME NEW u \in Callers
                 PROVE  IsJob(job[u])'
      OBVIOUS
    <3>1. CASE u = t
      BY <1>1, <1>2, <1>5, <1>6, <3>1 DEF IsJob, HasFields, n
    <3>2. CASE u # t
      <4>1. IsJob(job[u]) /\ job'[u] = job[u]
        BY <1>2, <1>6, <3>2 DEF JobShape
      <4> QED
        BY <1>5, <4>1 DEF IsJob, HasFields
    <3> QED
      BY <3>1, <3>2
  <2> QED
    BY <1>1, <1>2, <1>4, <1>6, <2>1 DEF JobShape
<1>10. Solo'
  BY <1>1, <1>6 DEF RegistryInv, Solo
<1>11. OneName'
  BY <1>2, <1>5, <1>7 DEF RegistryInv, OneName
<1>12. ~overlapped => \A u \in Callers : u # t => job'[u].do = "idle"
  BY <1>1, <1>6 DEF RegistryInv, Solo
<1>13. ~overlapped => job[t].previous = connections[n]
  BY <1>1 DEF RegistryInv, Replacing, n
<1>14. Replacing'
  <2>1. ~overlapped /\ connections[n] # None => \A m \in AllNames : connections'[m] # connections[n]
    BY <1>2, <1>5, <1>7 DEF RegistryInv, OneName
  <2> QED
    BY <1>1, <1>6, <1>12, <1>13, <2>1 DEF Replacing
<1>15. Accounted'
  <2> SUFFICES ASSUME ~overlapped, NEW e \in DOMAIN engines', engines'[e].open,
                      \A m \in AllNames : connections'[m] # e
               PROVE  job'[t].do = "close previous" /\ job'[t].previous = e
    BY <1>1 DEF Accounted
  <2>1. e # x /\ e \in DOMAIN engines /\ engines[e].open
    BY <1>2, <1>4, <1>7 DEF x
  <2>2. PICK m \in AllNames : connections[m] = e
    BY <1>1, <1>12, <1>6, <2>1 DEF RegistryInv, Accounted
  <2>3. m = n
    BY <1>7, <2>2
  <2> QED
    BY <1>5, <1>6, <1>13, <2>1, <2>2, <2>3
<1>16. ClosingAll'
  BY <1>1, <1>6, <1>12 DEF ClosingAll
<1>17. RegisteredIsOpen'
  <2> SUFFICES ASSUME ~overlapped, NEW m \in AllNames, connections'[m] # None
               PROVE  engines'[connections'[m]].open
    BY <1>1 DEF RegisteredIsOpen
  <2>1. \A u \in Callers : job[u].do # "close all"
    BY <1>1, <1>6, <1>12
  <2> QED
    BY <1>4, <1>7, <2>1 DEF RegistryInv, RegisteredIsOpen
<1>18. OneDefault'
  <2>1. "default" \in AllNames
    BY DEF AllNames
  <2>2. CASE IsInit(job[t])
    BY <1>1, <1>2, <1>7, <2>2 DEF OneDefault
  <2>3. CASE ~IsInit(job[t])
    BY <1>1, <1>2, <1>7, <2>1, <2>3 DEF RegistryInv, OneDefault
  <2> QED
    BY <2>2, <2>3
<1>19. \A u \in Callers : ~overlapped => ~IsInit(job'[u])
  BY <1>6, <1>12 DEF IsInit
<1>20. ZoneOfDefault'
  <2> SUFFICES ASSUME ~failed', ~overlapped
               PROVE  zone = IF default' = None THEN "UTC" ELSE engines'[default'].zone
    BY <1>1 DEF ZoneOfDefault
  <2>1. CASE IsInit(job[t])
    BY <1>1, <1>4, <1>5, <2>1 DEF RegistryInv, Asked
  <2>2. CASE ~IsInit(job[t])
    <3>1. ~failed /\ default' = default
      BY <1>1, <2>2
    <3>2. \A u \in Callers : ~IsInit(job[u])
      BY <1>6, <1>12, <2>2 DEF IsInit
    <3>3. zone = IF default = None THEN "UTC" ELSE engines[default].zone
      BY <3>1, <3>2 DEF RegistryInv, ZoneOfDefault, Initialising, IsInit
    <3>4. default \in DOMAIN engines \cup {None}
      BY <1>2 DEF TypeOK
    <3> QED
      BY <1>4, <3>1, <3>3, <3>4
  <2> QED
    BY <2>1, <2>2
<1>21. Asked'
  BY <1>1, <1>19 DEF Asked
<1>22. Configuring'
  <2>1. CASE IsInit(job[t])
    <3>1. config' = job[t].rest /\ default' # None /\ ~IsInit(job'[t])
      BY <1>1, <1>5, <1>6, <2>1 DEF IsInit
    <3>2. \A m \in config' : Waits(job'[t], m)
      BY <1>6, <2>1, <3>1 DEF Waits, IsInit
    <3> QED
      BY <3>1, <3>2 DEF Configuring
  <2>2. CASE ~IsInit(job[t])
    <3>1. config' = config /\ default' = default
      BY <1>1, <2>2
    <3>2. config # {} => default # None
      BY DEF RegistryInv, Configuring
    <3> SUFFICES ASSUME ~overlapped, NEW m \in config'
                 PROVE  Later(m)' \/ \E u \in Callers : Waits(job'[u], m)
      BY <1>1, <3>1, <3>2 DEF Configuring
    <3>3. m \in AllNames /\ default \in 1 .. Len(engines)
      BY <1>2, <1>4, <3>1, <3>2 DEF TypeOK, AllNames
    <3>4. CASE m = n
      <4>1. connections'[m] = x /\ x > default
        BY <1>4, <1>7, <3>3, <3>4 DEF x
      <4> QED
        BY <1>5, <3>1, <4>1 DEF Later
    <3>5. CASE m # n /\ Later(m)
      BY <1>7, <3>1, <3>3, <3>5 DEF Later
    <3>6. CASE m # n /\ ~Later(m)
      <4>1. PICK u \in Callers : Waits(job[u], m)
        BY <3>1, <3>6 DEF RegistryInv, Configuring
      <4>2. u = t
        BY <1>6, <1>12, <4>1 DEF Waits
      <4>3. Waits(job'[t], m)
        BY <1>1, <1>6, <2>2, <3>6, <4>1, <4>2 DEF Waits, IsInit, n
      <4> QED
        BY <4>3
    <3> QED
      BY <3>4, <3>5, <3>6
  <2> QED
    BY <2>1, <2>2
<1> QED
  BY <1>8, <1>9, <1>10, <1>11, <1>14, <1>15, <1>16, <1>17, <1>18, <1>20, <1>21, <1>22
     DEF RegistryInv

\* A call that begins: only its own job changes, and with init the zone.
LEMMA BeginStep ==
  ASSUME RegistryInv, NEW t \in Callers, NEW w, Begin(t, w), IsJob(w),
         w.do \in {"connect", "close all", "generate"},
         w.do = "connect" => w.previous = connections[w.name],
         w.do = "close all" => w.rest = {connections[n] : n \in AllNames} \ {None},
         zone' \in Zones \cup {"UTC"}, zone' = IF IsInit(w) THEN w.zone ELSE zone,
         UNCHANGED <<connections, default, router, engines, pinned, history>>
  PROVE  RegistryInv'
<1>1. /\ job[t].do = "idle" /\ job' = [job EXCEPT ![t] = w]
      /\ overlapped' = (overlapped \/ \E u \in Callers : job[u].do # "idle")
  BY DEF Begin
<1>0. failed' = failed /\ added' = added /\ config' = config
  BY DEF history
<1>2. TypeOK /\ JobShape
  BY DEF RegistryInv
<1>3. /\ job' = [u \in Callers |-> job'[u]]
      /\ job'[t] = w /\ \A u \in Callers \ {t} : job'[u] = job[u]
  BY <1>1, <1>2, GoFacts
<1>4. ~overlapped' => ~overlapped /\ \A u \in Callers : job[u].do = "idle"
  BY <1>1, <1>2 DEF JobShape
<1>5. TypeOK'
  BY <1>0, <1>2, <1>3 DEF TypeOK, IsJob
<1>6. JobShape'
  <2>1. overlapped' \in BOOLEAN
    BY <1>1, <1>2 DEF JobShape
  <2>2. \A u \in Callers : IsJob(job[u])'
    <3> SUFFICES ASSUME NEW u \in Callers
                 PROVE  IsJob(job[u])'
      OBVIOUS
    <3>1. IsJob(job'[u])
      BY <1>2, <1>3 DEF JobShape
    <3> QED
      BY <3>1 DEF IsJob, HasFields
  <2> QED
    BY <1>0, <1>2, <1>3, <2>1, <2>2 DEF JobShape
<1>7. Solo'
  <2>1. ~overlapped' => \A u \in Callers : job[u].do = "idle"
    BY <1>4
  <2>2. ~overlapped' => \A u \in Callers \ {t} : job'[u].do = "idle"
    <3>1. \A u \in Callers \ {t} : job'[u].do = job[u].do
      BY <1>3
    <3>2. \A u \in Callers \ {t} : job[u].do = "idle" => job'[u].do = "idle"
      BY <3>1
    <3>3. CASE overlapped'
      BY <3>3
    <3>4. CASE ~overlapped'
      <4>1. \A u \in Callers  : job[u].do = "idle"
        BY <2>1, <3>4
      <4> QED BY <3>2, <4>1
    <3> QED BY <3>3, <3>4
  <2>3. ~overlapped' => \A u \in Callers : job'[u].do # "idle" => u = t
    BY <2>2
  <2> QED
    BY <2>3 DEF Solo
<1>12. Replacing'
  BY <1>3, <1>4 DEF Replacing
<1>13. ClosingAll'
  BY <1>3, <1>4 DEF ClosingAll
<1>8. OneName' /\ OneDefault'
  BY <1>0 DEF RegistryInv, OneName, OneDefault
<1>9. Accounted'
  BY <1>1, <1>3, <1>4 DEF RegistryInv, Accounted
<1>10. RegisteredIsOpen'
  BY <1>3, <1>4 DEF RegistryInv, RegisteredIsOpen
<1>11. ZoneOfDefault'
  <2> SUFFICES ASSUME ~overlapped', ~failed, ~IsInit(w)
               PROVE  zone = IF default = None THEN "UTC" ELSE engines[default].zone
    BY <1>0, <1>3 DEF ZoneOfDefault, Initialising, IsInit
  <2>1. ~overlapped /\ \A u \in Callers : ~Initialising(u)
    BY <1>4 DEF Initialising
  <2> QED
    BY <2>1 DEF RegistryInv, ZoneOfDefault
<1>14. Asked'
  <2>1. ~overlapped' => \A u \in Callers \ {t} : ~IsInit(job'[u])
    BY <1>3, <1>4 DEF IsInit
  <2> QED
    BY <1>3, <2>1 DEF Asked
<1>15. Configuring'
  <2>1. ~overlapped' => \A n \in config : Later(n)
    BY <1>4 DEF RegistryInv, Configuring, Waits
  <2> QED
    BY <1>0, <2>1 DEF RegistryInv, Configuring, Later
<1> QED
  BY <1>5, <1>6, <1>7, <1>8, <1>9, <1>10, <1>11, <1>12, <1>13, <1>14, <1>15 DEF RegistryInv

LEMMA BeginSteps ==
  ASSUME RegistryInv, NEW t \in Callers,
         InitOrm(t) \/ AddConnection(t) \/ CloseOrm(t) \/ GenerateSchemas(t)
  PROVE  RegistryInv'
<1>1. TypeOK /\ JobShape /\ "default" \in AllNames /\ Names \subseteq AllNames
  BY DEF RegistryInv, AllNames
<1>2. ASSUME NEW of \in {"init", "add"}, NEW n \in AllNames, NEW r \in Routers \cup {None},
             NEW z \in Zones \cup {None}, NEW rest \in SUBSET Names,
             NEW w, w = Connecting(of, n, r, z, rest)
      PROVE  /\ IsJob(w) /\ w.do = "connect" /\ w.name = n /\ w.previous = connections[n]
             /\ w.of = of /\ w.zone = z
  <2>1. /\ HasFields(w) /\ w.do = "connect" /\ w.name = n /\ w.previous = connections[n]
        /\ w.router = r /\ w.rest = rest /\ w.of = of /\ w.zone = z
    BY <1>2, ConnectingFacts
  <2>2. connections[n] \in DOMAIN engines \cup {None}
    BY <1>1 DEF TypeOK
  <2> QED
    BY <2>1, <2>2 DEF IsJob
<1>3. CASE InitOrm(t)
  <2>1. PICK r \in Routers \cup {None}, z \in Zones, rest \in {{}, Names} :
          zone' = z /\ Begin(t, Connecting("init", "default", r, z, rest))
    BY <1>3 DEF InitOrm
  <2>2. rest \in SUBSET Names
    OBVIOUS
  <2>3. PICK w : w = Connecting("init", "default", r, z, rest)
    OBVIOUS
  <2>4. /\ IsJob(w) /\ w.do = "connect" /\ w.name = "default"
        /\ w.previous = connections["default"] /\ w.of = "init" /\ w.zone = z
    BY <1>1, <1>2, <2>2, <2>3
  <2>5. IsInit(w) /\ zone' = w.zone /\ zone' \in Zones \cup {"UTC"}
    BY <2>1, <2>4 DEF IsInit
  <2> QED
    BY <1>3, <2>1, <2>3, <2>4, <2>5, BeginStep DEF InitOrm
<1>4. CASE AddConnection(t)
  <2>0. PICK n \in AllNames : Begin(t, Connecting("add", n, None, None, {}))
    BY <1>4 DEF AddConnection
  <2>1. PICK w : Begin(t, w) /\ w = Connecting("add", n, None, None, {})
    BY <2>0
  <2>2. /\ IsJob(w) /\ w.do = "connect" /\ w.name = n /\ w.previous = connections[n]
        /\ w.of = "add"
    BY <1>1, <1>2, <2>1
  <2>3. ~IsInit(w)
    BY <2>2 DEF IsInit
  <2> QED
    BY <1>1, <1>4, <2>1, <2>2, <2>3, BeginStep DEF AddConnection, registry, TypeOK
<1>5. CASE CloseOrm(t)
  <2> DEFINE all == {connections[n] : n \in AllNames} \ {None}
  <2>1. PICK w : Begin(t, w) /\ w = [Idle EXCEPT !.do = "close all", !.rest = all]
    BY <1>5 DEF CloseOrm
  <2>2. all \subseteq DOMAIN engines
    BY <1>1 DEF TypeOK
  <2> HIDE DEF all
  <2>0. w = [Idle EXCEPT !.do = "close all", !.rest = all]
    BY <2>1
  <2>3. /\ HasFields(w) /\ w.do = "close all" /\ w.name = "default" /\ w.previous = None
        /\ w.router = None /\ w.rest = all /\ w.of = "add" /\ w.zone = None
    BY ONLY <2>0, IdleFacts DEF HasFields, JobFields
  <2>4. IsJob(w) /\ ~IsInit(w)
    BY <1>1, <2>2, <2>3 DEF IsJob, IsInit
  <2> QED
    BY <1>1, <1>5, <2>1, <2>3, <2>4, BeginStep DEF CloseOrm, registry, TypeOK, all
<1>6. CASE GenerateSchemas(t)
  <2> DEFINE w == [Idle EXCEPT !.do = "generate", !.tables = Tables]
  <2>1. Begin(t, w) /\ UNCHANGED <<registry, engines, pinned, history>>
    BY <1>6 DEF GenerateSchemas
  <2>2. IsJob(w) /\ w.do = "generate" /\ ~IsInit(w)
    BY <1>1, GenerateFacts DEF IsJob, IsInit
  <2> HIDE DEF w
  <2> QED
    BY <1>1, <2>1, <2>2, BeginStep DEF registry, TypeOK
<1> QED
  BY <1>3, <1>4, <1>5, <1>6

\* A call that goes on or ends, and registers nothing.
LEMMA GoStep ==
  ASSUME RegistryInv, NEW t \in Callers, NEW w, Go(t, w), IsJob(w),
         job[t].do \in {"connect", "next", "generate"},
         w.do \in {"idle", "connect", "generate"},
         w.do = "connect" => w.previous = connections[w.name] /\ w.name # "default",
         failed' \in BOOLEAN, failed => failed', IsInit(job[t]) => failed',
         config' \in {config, {}}, \A n \in config' : Waits(job[t], n) => Waits(w, n),
         UNCHANGED <<registry, engines, pinned, added>>
  PROVE  RegistryInv'
<1>1. job' = [job EXCEPT ![t] = w] /\ overlapped' = overlapped
  BY DEF Go
<1>2. TypeOK /\ JobShape
  BY DEF RegistryInv
<1>3. /\ job' = [u \in Callers |-> job'[u]]
      /\ job'[t] = w /\ \A u \in Callers \ {t} : job'[u] = job[u]
  BY <1>1, <1>2, GoFacts
<1>4. /\ connections' = connections /\ default' = default /\ router' = router
      /\ zone' = zone /\ engines' = engines /\ pinned' = pinned
  BY DEF registry
<1>5. ~overlapped => \A u \in Callers : u # t => job'[u].do = "idle" /\ job[u].do = "idle"
  BY <1>3 DEF RegistryInv, Solo
<1>6. TypeOK'
  BY <1>2, <1>3, <1>4 DEF TypeOK, IsJob
<1>7. JobShape'
  <2>1. \A u \in Callers : IsJob(job[u])'
    <3> SUFFICES ASSUME NEW u \in Callers
                 PROVE  IsJob(job[u])'
      OBVIOUS
    <3>1. IsJob(job'[u])
      BY <1>2, <1>3 DEF JobShape
    <3> QED
      BY <1>4, <3>1 DEF IsJob, HasFields
  <2>2. job' = [u \in Callers |-> job'[u]] /\ overlapped' \in BOOLEAN
    BY <1>1, <1>2, <1>3 DEF JobShape
  <2> QED
    BY <1>2, <1>4, <2>1, <2>2 DEF JobShape
<1>8. Solo'
  BY <1>1, <1>5 DEF Solo
<1>9. OneName' /\ OneDefault'
  BY <1>4 DEF RegistryInv, OneName, OneDefault
<1>10. Replacing'
  BY <1>1, <1>3, <1>4, <1>5 DEF Replacing
<1>11. Accounted'
  <2> SUFFICES ASSUME ~overlapped, NEW e \in DOMAIN engines, engines[e].open,
                      \A n \in AllNames : connections[n] # e
               PROVE  \E u \in Callers : job'[u].do = "close previous" /\ job'[u].previous = e
    BY <1>1, <1>4 DEF Accounted
  <2>1. PICK u \in Callers : job[u].do = "close previous" /\ job[u].previous = e
    BY DEF RegistryInv, Accounted
  <2>2. u # t
    BY <2>1
  <2> QED
    BY <1>3, <2>1, <2>2
<1>12. ClosingAll'
  BY <1>1, <1>3, <1>4, <1>5 DEF ClosingAll
<1>13. RegisteredIsOpen'
  <2>1. (~overlapped /\ \A u \in Callers : job'[u].do # "close all")
          => \A u \in Callers : job[u].do # "close all"
    BY <1>3
  <2> QED
    BY <1>1, <1>4, <2>1 DEF RegistryInv, RegisteredIsOpen
<1>14. ~overlapped => \A u \in Callers : ~IsInit(job'[u])
  BY <1>3, <1>5 DEF IsInit
<1>15. ZoneOfDefault'
  <2> SUFFICES ASSUME ~failed', ~overlapped
               PROVE  zone = IF default = None THEN "UTC" ELSE engines[default].zone
    BY <1>1, <1>4 DEF ZoneOfDefault
  <2>1. ~failed /\ \A u \in Callers : ~Initialising(u)
    BY <1>5 DEF Initialising, IsInit
  <2> QED
    BY <2>1 DEF RegistryInv, ZoneOfDefault
<1>16. Asked'
  BY <1>1, <1>14 DEF Asked
<1>17. Configuring'
  <2>1. config' # {} => config # {}
    OBVIOUS
  <2> SUFFICES ASSUME ~overlapped, NEW n \in config', ~Later(n)
               PROVE  \E u \in Callers : Waits(job'[u], n)
    BY <1>1, <1>4, <2>1 DEF RegistryInv, Configuring, Later
  <2>2. PICK u \in Callers : Waits(job[u], n)
    BY DEF RegistryInv, Configuring
  <2> QED
    BY <1>3, <2>2
<1> QED
  BY <1>6, <1>7, <1>8, <1>9, <1>10, <1>11, <1>12, <1>13, <1>15, <1>16, <1>17 DEF RegistryInv

LEMMA IdleIsJob == IsJob(Idle)
BY IdleFacts DEF IsJob, AllNames

LEMMA GoSteps ==
  ASSUME RegistryInv, NEW t \in Callers, ConnectFailed(t) \/ NextOfConfig(t) \/ CreateTable(t)
  PROVE  RegistryInv'
<1>1. TypeOK /\ JobShape /\ IsJob(job[t]) /\ HasFields(job[t]) /\ failed \in BOOLEAN
  BY DEF RegistryInv, JobShape, IsJob
<1>2. CASE ConnectFailed(t)
  <2>1. /\ Go(t, Idle) /\ job[t].do = "connect"
        /\ failed' = (failed \/ IsInit(job[t]))
        /\ config' = IF job[t].of = "init" /\ ~IsInit(job[t]) THEN {} ELSE config
        /\ UNCHANGED <<registry, engines, pinned, added>>
    BY <1>2 DEF ConnectFailed, Initialising, IsInit
  <2>2. \A n \in config' : ~Waits(job[t], n)
    BY <2>1 DEF Waits
  <2>3. failed' \in BOOLEAN
    BY <1>1, <2>1 DEF IsInit
  <2> QED
    BY <1>1, <2>1, <2>2, <2>3, IdleIsJob, IdleFacts, GoStep
<1>3. CASE NextOfConfig(t)
  <2>1. /\ Go(t, AfterConnect(job[t].rest)) /\ job[t].do = "next"
        /\ failed' = failed /\ config' = config
        /\ UNCHANGED <<registry, engines, pinned, added>>
    BY <1>3 DEF NextOfConfig, history
  <2>0. ~IsInit(job[t])
    BY <2>1 DEF IsInit
  <2>2. job[t].rest \subseteq Names
    BY <1>1, <2>1 DEF IsJob
  <2>3. PICK w : w = AfterConnect(job[t].rest)
    OBVIOUS
  <2>4. CASE job[t].rest = {}
    <3>1. w = Idle /\ \A n \in config' : ~Waits(job[t], n)
      BY <2>1, <2>3, <2>4 DEF AfterConnect, Waits
    <3> QED
      BY <1>1, <2>0, <2>1, <2>3, <3>1, IdleIsJob, IdleFacts, GoStep
  <2>5. CASE job[t].rest # {}
    <3>1. PICK n \in job[t].rest : w = Connecting("init", n, None, None, job[t].rest \ {n})
      BY <2>3, <2>5 DEF AfterConnect
    <3>2. /\ HasFields(w) /\ w.do = "connect" /\ w.name = n /\ w.previous = connections[n]
          /\ w.router = None /\ w.rest = job[t].rest \ {n} /\ w.of = "init" /\ w.zone = None
      BY <3>1, ConnectingFacts
    <3>3. n \in AllNames /\ n # "default"
      BY <2>2 DEF AllNames
    <3>4. connections[n] \in DOMAIN engines \cup {None}
      BY <1>1, <3>3 DEF TypeOK
    <3>5. IsJob(w)
      BY <2>2, <3>2, <3>3, <3>4 DEF IsJob
    <3>6. \A m \in config' : Waits(job[t], m) => Waits(w, m)
      BY <2>1, <3>2, <3>3 DEF Waits, IsInit
    <3> QED
      BY <1>1, <2>0, <2>1, <2>3, <3>2, <3>3, <3>5, <3>6, GoStep
  <2> QED
    BY <2>4, <2>5
<1>4. CASE CreateTable(t)
  <2>1. /\ job[t].do = "generate" /\ failed' = failed /\ config' = config
        /\ UNCHANGED <<registry, engines, pinned, added>>
    BY <1>4 DEF CreateTable, history
  <2>0. ~IsInit(job[t]) /\ \A n \in config' : ~Waits(job[t], n)
    BY <2>1 DEF IsInit, Waits
  <2>2. CASE Go(t, Idle)
    BY <1>1, <2>0, <2>1, <2>2, IdleIsJob, IdleFacts, GoStep
  <2>3. CASE ~Go(t, Idle)
    <3>1. PICK v, x, w : w = [job[t] EXCEPT !.tables = v, !.created = x] /\ Go(t, w)
      BY <1>4, <2>3 DEF CreateTable
    <3>2. /\ HasFields(w) /\ w.do = job[t].do /\ w.name = job[t].name
          /\ w.previous = job[t].previous /\ w.router = job[t].router /\ w.rest = job[t].rest
          /\ w.of = job[t].of /\ w.zone = job[t].zone
      BY <1>1, <3>1 DEF HasFields, JobFields
    <3>3. IsJob(w)
      BY <1>1, <2>1, <3>2 DEF IsJob
    <3> QED
      BY <1>1, <2>0, <2>1, <3>1, <3>2, <3>3, GoStep
  <2> QED
    BY <2>2, <2>3
<1> QED
  BY <1>2, <1>3, <1>4

LEMMA ClosePreviousStep ==
  ASSUME RegistryInv, NEW t \in Callers, ClosePrevious(t)
  PROVE  RegistryInv'
<1> DEFINE x == job[t].previous
           w == [job[t] EXCEPT !.do = "next"]
<1>1. /\ job[t].do = "close previous" /\ engines' = Closed(x)
      /\ job' = [job EXCEPT ![t] = w] /\ overlapped' = overlapped
      /\ connections' = connections /\ default' = default /\ router' = router
      /\ zone' = zone /\ pinned' = pinned
      /\ failed' = failed /\ added' = added /\ config' = config
  BY DEF ClosePrevious, Go, registry, history
<1>2. TypeOK /\ JobShape /\ IsJob(job[t]) /\ HasFields(job[t])
  BY DEF RegistryInv, JobShape, IsJob
<1>3. x \in DOMAIN engines
  BY <1>1, <1>2 DEF IsJob
<1>4. /\ HasFields(w) /\ w.do = "next" /\ w.name = job[t].name /\ w.previous = x
      /\ w.router = job[t].router /\ w.rest = job[t].rest
      /\ w.of = job[t].of /\ w.zone = job[t].zone
  BY <1>2, PhaseFacts
<1>5. /\ engines' \in Seq(EngineRecord)
      /\ Len(engines') = Len(engines) /\ DOMAIN engines' = DOMAIN engines
      /\ ~engines'[x].open
      /\ \A e \in DOMAIN engines : engines'[e].zone = engines[e].zone
      /\ \A e \in DOMAIN engines : e # x => engines'[e] = engines[e]
  BY <1>1, <1>2, <1>3, ClosedFacts DEF JobShape
<1> HIDE DEF w, x
<1>6. /\ job' = [u \in Callers |-> job'[u]]
      /\ job'[t] = w /\ \A u \in Callers \ {t} : job'[u] = job[u]
  BY <1>1, <1>2, GoFacts
<1>7. ~overlapped => \A u \in Callers : u # t => job'[u].do = "idle" /\ job[u].do = "idle"
  BY <1>1, <1>6 DEF RegistryInv, Solo
<1>8. ~overlapped => \A n \in AllNames : connections[n] # x
  BY <1>1 DEF RegistryInv, Replacing, x
<1>9. TypeOK'
  <2>1. ToSet(engines') \subseteq EngineRecord
    BY <1>5, EngineSet DEF EngineRecord
  <2>2. \A u \in Callers : job'[u].previous \in DOMAIN engines' \cup {None}
    BY <1>2, <1>4, <1>5, <1>6 DEF TypeOK, x
  <2> QED
    BY <1>1, <1>2, <1>5, <2>1, <2>2 DEF TypeOK, EngineRecord
<1>10. JobShape'
  <2>1. \A u \in Callers : IsJob(job[u])'
    <3> SUFFICES ASSUME NEW u \in Callers
                 PROVE  IsJob(job[u])'
      OBVIOUS
    <3>1. CASE u = t
      BY <1>1, <1>2, <1>4, <1>5, <1>6, <3>1 DEF IsJob, HasFields, x
    <3>2. CASE u # t
      <4>1. IsJob(job[u]) /\ job'[u] = job[u]
        BY <1>2, <1>6, <3>2 DEF JobShape
      <4> QED
        BY <1>5, <4>1 DEF IsJob, HasFields
    <3> QED
      BY <3>1, <3>2
  <2> QED
    BY <1>1, <1>2, <1>5, <1>6, <2>1 DEF JobShape
<1>11. Solo'
  BY <1>1, <1>7 DEF Solo
<1>12. OneName' /\ OneDefault'
  BY <1>1 DEF RegistryInv, OneName, OneDefault
<1>13. Replacing'
  BY <1>1, <1>4, <1>6, <1>7 DEF Replacing
<1>14. Accounted'
  <2> SUFFICES ASSUME ~overlapped, NEW e \in DOMAIN engines, engines'[e].open
               PROVE  \E n \in AllNames : connections[n] = e
    BY <1>1, <1>5 DEF Accounted
  <2>1. e # x /\ engines[e].open
    BY <1>5
  <2>2. ~\E u \in Callers : job[u].do = "close previous" /\ job[u].previous = e
    BY <1>7, <2>1 DEF x
  <2> QED
    BY <2>1, <2>2 DEF RegistryInv, Accounted
<1>15. ClosingAll'
  BY <1>1, <1>4, <1>6, <1>7 DEF ClosingAll
<1>16. RegisteredIsOpen'
  <2> SUFFICES ASSUME ~overlapped, NEW n \in AllNames, connections[n] # None
               PROVE  engines'[connections[n]].open
    BY <1>1 DEF RegisteredIsOpen
  <2>1. \A u \in Callers : job[u].do # "close all"
    BY <1>1, <1>7
  <2>2. connections[n] # x /\ connections[n] \in DOMAIN engines
    BY <1>2, <1>8 DEF TypeOK
  <2> QED
    BY <1>5, <2>1, <2>2 DEF RegistryInv, RegisteredIsOpen
<1>17. \A u \in Callers : IsInit(job'[u]) = IsInit(job[u]) /\ job'[u].zone = job[u].zone
  BY <1>1, <1>4, <1>6 DEF IsInit
<1>18. ZoneOfDefault'
  <2> SUFFICES ASSUME ~failed, ~overlapped, \A u \in Callers : ~IsInit(job[u])
               PROVE  zone = IF default = None THEN "UTC" ELSE engines'[default].zone
    BY <1>1, <1>17 DEF ZoneOfDefault, Initialising, IsInit
  <2>1. zone = IF default = None THEN "UTC" ELSE engines[default].zone
    BY DEF RegistryInv, ZoneOfDefault, Initialising, IsInit
  <2> QED
    BY <1>2, <1>5, <2>1 DEF TypeOK
<1>19. Asked'
  BY <1>1, <1>17 DEF RegistryInv, Asked
<1>20. Configuring'
  <2>1. \A u \in Callers, n \in config : Waits(job[u], n) => Waits(job'[u], n)
    BY <1>1, <1>4, <1>6 DEF Waits, IsInit
  <2> QED
    BY <1>1, <2>1 DEF RegistryInv, Configuring, Later
<1> QED
  BY <1>9, <1>10, <1>11, <1>12, <1>13, <1>14, <1>15, <1>16, <1>18, <1>19, <1>20
     DEF RegistryInv

LEMMA CloseOneStep ==
  ASSUME RegistryInv, NEW t \in Callers, CloseOne(t)
  PROVE  RegistryInv'
<1>1. PICK x \in job[t].rest : /\ engines' = Closed(x)
                               /\ Go(t, [job[t] EXCEPT !.rest = job[t].rest \ {x}])
  BY DEF CloseOne
<1> DEFINE w == [job[t] EXCEPT !.rest = job[t].rest \ {x}]
<1>2. /\ job[t].do = "close all" /\ job' = [job EXCEPT ![t] = w] /\ overlapped' = overlapped
      /\ connections' = connections /\ default' = default /\ router' = router
      /\ zone' = zone /\ pinned' = pinned
      /\ failed' = failed /\ added' = added /\ config' = config
  BY <1>1 DEF CloseOne, Go, registry, history
<1>3. TypeOK /\ JobShape /\ IsJob(job[t]) /\ HasFields(job[t])
  BY DEF RegistryInv, JobShape, IsJob
<1>4. x \in DOMAIN engines /\ job[t].rest \subseteq DOMAIN engines
  BY <1>1, <1>2, <1>3 DEF IsJob
<1>5. /\ HasFields(w) /\ w.do = "close all" /\ w.name = job[t].name
      /\ w.previous = job[t].previous /\ w.router = job[t].router
      /\ w.rest = job[t].rest \ {x} /\ w.of = job[t].of /\ w.zone = job[t].zone
  BY <1>2, <1>3 DEF HasFields, JobFields
<1>6. /\ engines' \in Seq(EngineRecord)
      /\ Len(engines') = Len(engines) /\ DOMAIN engines' = DOMAIN engines
      /\ ~engines'[x].open
      /\ \A e \in DOMAIN engines : engines'[e].zone = engines[e].zone
      /\ \A e \in DOMAIN engines : e # x => engines'[e] = engines[e]
  BY <1>1, <1>3, <1>4, ClosedFacts DEF JobShape
<1> HIDE DEF w
<1>7. /\ job' = [u \in Callers |-> job'[u]]
      /\ job'[t] = w /\ \A u \in Callers \ {t} : job'[u] = job[u]
  BY <1>2, <1>3, GoFacts
<1>8. ~overlapped => \A u \in Callers : u # t => job'[u].do = "idle" /\ job[u].do = "idle"
  BY <1>2, <1>7 DEF RegistryInv, Solo
<1>9. TypeOK'
  <2>1. ToSet(engines') \subseteq EngineRecord
    BY <1>6, EngineSet DEF EngineRecord
  <2>2. \A u \in Callers : job'[u].previous \in DOMAIN engines' \cup {None}
    BY <1>3, <1>5, <1>6, <1>7 DEF TypeOK
  <2> QED
    BY <1>2, <1>3, <1>6, <2>1, <2>2 DEF TypeOK, EngineRecord
<1>10. JobShape'
  <2>1. \A u \in Callers : IsJob(job[u])'
    <3> SUFFICES ASSUME NEW u \in Callers
                 PROVE  IsJob(job[u])'
      OBVIOUS
    <3>1. CASE u = t
      BY <1>2, <1>3, <1>4, <1>5, <1>6, <1>7, <3>1 DEF IsJob, HasFields
    <3>2. CASE u # t
      <4>1. IsJob(job[u]) /\ job'[u] = job[u]
        BY <1>3, <1>7, <3>2 DEF JobShape
      <4> QED
        BY <1>6, <4>1 DEF IsJob, HasFields
    <3> QED
      BY <3>1, <3>2
  <2> QED
    BY <1>2, <1>3, <1>6, <1>7, <2>1 DEF JobShape
<1>11. Solo'
  BY <1>2, <1>8 DEF Solo
<1>12. OneName' /\ OneDefault'
  BY <1>2 DEF RegistryInv, OneName, OneDefault
<1>13. Replacing'
  BY <1>2, <1>5, <1>7, <1>8 DEF Replacing
<1>14. Accounted'
  <2> SUFFICES ASSUME ~overlapped, NEW e \in DOMAIN engines, engines'[e].open
               PROVE  \E n \in AllNames : connections[n] = e
    BY <1>2, <1>6 DEF Accounted
  <2>1. engines[e].open
    BY <1>6
  <2>2. ~\E u \in Callers : job[u].do = "close previous" /\ job[u].previous = e
    BY <1>2, <1>8
  <2> QED
    BY <2>1, <2>2 DEF RegistryInv, Accounted
<1>15. ClosingAll'
  <2> SUFFICES ASSUME ~overlapped, NEW n \in AllNames,
                      connections[n] # None, engines'[connections[n]].open
               PROVE  connections[n] \in w.rest
    BY <1>2, <1>5, <1>7, <1>8 DEF ClosingAll
  <2>1. connections[n] \in DOMAIN engines /\ connections[n] # x
    BY <1>3, <1>6 DEF TypeOK
  <2>2. engines[connections[n]].open
    BY <1>6, <2>1
  <2> QED
    BY <1>2, <1>5, <2>1, <2>2 DEF RegistryInv, ClosingAll
<1>16. RegisteredIsOpen'
  BY <1>2, <1>5, <1>7 DEF RegisteredIsOpen
<1>17. \A u \in Callers : IsInit(job'[u]) = IsInit(job[u]) /\ job'[u].zone = job[u].zone
  BY <1>2, <1>5, <1>7 DEF IsInit
<1>18. ZoneOfDefault'
  <2> SUFFICES ASSUME ~failed, ~overlapped, \A u \in Callers : ~IsInit(job[u])
               PROVE  zone = IF default = None THEN "UTC" ELSE engines'[default].zone
    BY <1>2, <1>17 DEF ZoneOfDefault, Initialising, IsInit
  <2>1. zone = IF default = None THEN "UTC" ELSE engines[default].zone
    BY DEF RegistryInv, ZoneOfDefault, Initialising, IsInit
  <2> QED
    BY <1>3, <1>6, <2>1 DEF TypeOK
<1>19. Asked'
  BY <1>2, <1>17 DEF RegistryInv, Asked
<1>20. Configuring'
  <2>1. \A u \in Callers, n \in config : Waits(job[u], n) => Waits(job'[u], n)
    BY <1>2, <1>5, <1>7 DEF Waits, IsInit
  <2> QED
    BY <1>2, <2>1 DEF RegistryInv, Configuring, Later
<1> QED
  BY <1>9, <1>10, <1>11, <1>12, <1>13, <1>14, <1>15, <1>16, <1>18, <1>19, <1>20
     DEF RegistryInv

LEMMA ForgetStep ==
  ASSUME RegistryInv, NEW t \in Callers, Forget(t)
  PROVE  RegistryInv'
<1>1. /\ job[t].do = "close all" /\ job[t].rest = {} /\ job' = [job EXCEPT ![t] = Idle]
      /\ overlapped' = overlapped /\ connections' = [n \in AllNames |-> None]
      /\ default' = None /\ router' = None /\ zone' = "UTC" /\ failed' = FALSE
      /\ added' = FALSE /\ config' = {}
      /\ engines' = engines /\ pinned' = pinned
  BY DEF Forget, Go
<1>2. TypeOK /\ JobShape
  BY DEF RegistryInv
<1>3. /\ job' = [u \in Callers |-> job'[u]]
      /\ job'[t] = Idle /\ \A u \in Callers \ {t} : job'[u] = job[u]
  BY <1>1, <1>2, GoFacts
<1>4. ~overlapped => \A u \in Callers : u # t => job'[u].do = "idle" /\ job[u].do = "idle"
  BY <1>1, <1>3 DEF RegistryInv, Solo
<1>5. TypeOK'
  BY <1>1, <1>2, <1>3, IdleFacts DEF TypeOK
<1>6. JobShape'
  <2>1. \A u \in Callers : IsJob(job[u])'
    <3> SUFFICES ASSUME NEW u \in Callers
                 PROVE  IsJob(job[u])'
      OBVIOUS
    <3>1. IsJob(job'[u])
      BY <1>2, <1>3, IdleIsJob DEF JobShape
    <3> QED
      BY <1>1, <3>1 DEF IsJob, HasFields
  <2> QED
    BY <1>1, <1>2, <1>3, <2>1 DEF JobShape
<1>7. Solo'
  BY <1>1, <1>3, <1>4, IdleFacts DEF Solo
<1>8. OneName'
  BY <1>1 DEF OneName
<1>9. OneDefault'
  BY <1>1 DEF OneDefault, AllNames
<1>10. Replacing'
  BY <1>1, <1>3, <1>4, IdleFacts DEF Replacing
<1>11. Accounted'
  <2> SUFFICES ASSUME ~overlapped, NEW e \in DOMAIN engines, engines[e].open
               PROVE  FALSE
    BY <1>1 DEF Accounted
  <2>1. PICK n \in AllNames : connections[n] = e
    BY <1>1, <1>4 DEF RegistryInv, Accounted
  <2>2. connections[n] # None
    BY <1>2, <2>1 DEF TypeOK
  <2> QED
    BY <1>1, <2>1, <2>2 DEF RegistryInv, ClosingAll
<1>12. ClosingAll'
  BY <1>1, <1>3, <1>4, IdleFacts DEF ClosingAll
<1>13. RegisteredIsOpen'
  BY <1>1 DEF RegisteredIsOpen
<1>14. ZoneOfDefault' /\ Configuring'
  BY <1>1 DEF ZoneOfDefault, Configuring
<1>15. Asked'
  BY <1>1, <1>3, <1>4, IdleFacts DEF Asked, IsInit
<1> QED
  BY <1>5, <1>6, <1>7, <1>8, <1>9, <1>10, <1>11, <1>12, <1>13, <1>14, <1>15 DEF RegistryInv

\* Routers and transactions come and go beside the calls.
LEMMA AsideStep ==
  ASSUME RegistryInv, router' \in Routers \cup {None},
         pinned' \in [Tasks -> [AllNames -> DOMAIN engines \cup {None}]],
         overlapped' \in BOOLEAN, overlapped => overlapped',
         UNCHANGED <<connections, default, zone, engines, job, failed, added, config>>
  PROVE  RegistryInv'
<1>1. TypeOK'
  BY DEF RegistryInv, TypeOK
<1>2. JobShape'
  BY DEF RegistryInv, JobShape, IsJob, HasFields
<1>3. /\ Solo' /\ OneName' /\ Replacing' /\ Accounted' /\ ClosingAll'
      /\ RegisteredIsOpen' /\ OneDefault' /\ ZoneOfDefault' /\ Asked' /\ Configuring'
  BY DEF RegistryInv, Solo, OneName, Replacing, Accounted, ClosingAll, RegisteredIsOpen,
         OneDefault, ZoneOfDefault, Initialising, Asked, Configuring, Later
<1> QED
  BY <1>1, <1>2, <1>3 DEF RegistryInv

LEMMA AsideSteps ==
  ASSUME RegistryInv,
         \/ SetRouter
         \/ \E t \in Workers : EnterTransaction(t) \/ ExitTransaction(t)
         \/ UNCHANGED vars
  PROVE  RegistryInv'
<1>1. TypeOK /\ JobShape /\ overlapped \in BOOLEAN
  BY DEF RegistryInv, JobShape
<1>2. CASE SetRouter
  <2>1. router' \in Routers \cup {None} /\ pinned' = pinned
    BY <1>2 DEF SetRouter
  <2>2. overlapped' \in BOOLEAN /\ (overlapped => overlapped')
    BY <1>1, <1>2 DEF SetRouter
  <2>3. UNCHANGED <<connections, default, zone, engines, job, failed, added, config>>
    BY <1>2 DEF SetRouter, history
  <2> QED
    BY <1>1, <2>1, <2>2, <2>3, AsideStep DEF TypeOK
<1>3. ASSUME NEW t \in Workers, EnterTransaction(t) \/ ExitTransaction(t)
      PROVE  RegistryInv'
  <2>1. t \in Tasks
    OBVIOUS
  <2>2. /\ UNCHANGED <<registry, engines, job, calls, overlapped, history>>
        /\ \E n \in AllNames, e \in DOMAIN engines \cup {None} :
             pinned' = [pinned EXCEPT ![t][n] = e]
    BY <1>1, <1>3 DEF EnterTransaction, ExitTransaction, NamedConnection, TypeOK
  <2>3. pinned' \in [Tasks -> [AllNames -> DOMAIN engines \cup {None}]]
    BY <1>1, <2>1, <2>2 DEF TypeOK
  <2> QED
    BY <1>1, <2>2, <2>3, AsideStep DEF TypeOK, registry, history
<1>4. CASE UNCHANGED vars
  BY <1>1, <1>4, AsideStep DEF vars, registry, history, TypeOK
<1> QED
  BY <1>2, <1>3, <1>4

-----------------------------------------------------------------------------
LEMMA RegistryInit == Init => RegistryInv
<1> SUFFICES ASSUME Init PROVE RegistryInv
  OBVIOUS
<1>1. \A t \in Callers : job[t] = Idle
  BY DEF Init
<1>2. TypeOK
  <2>1. engines = <<>> /\ ToSet(engines) = {} /\ Len(engines) = 0
    BY DEF Init, ToSet
  <2>2. \A t \in Callers : job[t].previous = None
    BY <1>1, IdleFacts
  <2>3. DOMAIN engines \cup {None} = {None} /\ 0 <= MaxEngines
    BY <2>1
  <2>4. pinned \in [Tasks -> [AllNames -> {None}]] /\ connections \in [AllNames -> {None}]
    BY DEF Init
  <2> QED
    BY <2>1, <2>2, <2>3, <2>4 DEF Init, TypeOK
<1>3. JobShape
  <2>1. engines = <<>> /\ <<>> \in Seq(EngineRecord)
    BY DEF Init
  <2>2. job = [t \in Callers |-> job[t]] /\ overlapped = FALSE /\ failed = FALSE
    BY DEF Init
  <2> QED
    BY <1>1, <2>1, <2>2, IdleIsJob DEF JobShape
<1>4. Solo /\ Replacing /\ ClosingAll
  BY <1>1, IdleFacts DEF Solo, Replacing, ClosingAll
<1>5. OneName /\ RegisteredIsOpen /\ OneDefault /\ ZoneOfDefault /\ Asked /\ Configuring
  BY <1>1, IdleFacts DEF Init, OneName, RegisteredIsOpen, OneDefault, ZoneOfDefault, AllNames,
                         Asked, IsInit, Configuring
<1>6. Accounted
  <2>1. DOMAIN engines = {}
    BY DEF Init
  <2> QED
    BY <2>1 DEF Accounted
<1> QED
  BY <1>2, <1>3, <1>4, <1>5, <1>6 DEF RegistryInv

LEMMA RegistryNext == RegistryInv /\ [Next]_vars => RegistryInv'
<1> SUFFICES ASSUME RegistryInv, [Next]_vars PROVE RegistryInv'
  OBVIOUS
<1>1. ASSUME NEW t \in Callers,
             \/ InitOrm(t) \/ AddConnection(t) \/ Connected(t) \/ ConnectFailed(t)
             \/ ClosePrevious(t) \/ NextOfConfig(t) \/ CloseOrm(t) \/ CloseOne(t) \/ Forget(t)
             \/ GenerateSchemas(t) \/ CreateTable(t)
      PROVE  RegistryInv'
  BY <1>1, BeginSteps, GoSteps, ConnectedStep, ClosePreviousStep, CloseOneStep, ForgetStep
<1> QED
  BY <1>1, AsideSteps DEF Next

\* RegistryInv holds in every reachable state.
THEOREM Invariance == Spec => []RegistryInv
BY RegistryInit, RegistryNext, PTL DEF Spec

-----------------------------------------------------------------------------
(* What the invariant gives. *)

\* init, add_connection and close leave exactly the registered engines open, whatever
\* fails or is cancelled, as long as calls do not overlap.
THEOREM RegisteredExactlyOpen == Spec => []OpenIffRegistered
<1>1. RegistryInv => NothingLeaks
  BY DEF RegistryInv, Accounted, NothingLeaks
<1>2. RegistryInv => OpenIffRegistered
  BY <1>1 DEF RegistryInv, OpenIffRegistered
<1> QED
  BY <1>2, Invariance, PTL

\* _ENGINE is the "default" entry, however calls overlap, unless add_connection took that
\* name; the zone is what the init of that database asked for, as long as they do not.
THEOREM DefaultStaysWhole == Spec => []DefaultIsWhole
<1>1. RegistryInv => DefaultIsWhole
  BY DEF RegistryInv, DefaultIsWhole
<1> QED
  BY <1>1, Invariance, PTL

\* A config whose init succeeded is registered as a whole, whatever an earlier one left,
\* and stays so through failed and successful replacements of its connections.
THEOREM ConfigStaysWhole == Spec => []ConfigIsWhole
<1>1. RegistryInv => ConfigIsWhole
  <2> SUFFICES ASSUME RegistryInv, ~overlapped, \A t \in Callers : job[t].do = "idle",
                      NEW n \in config
               PROVE  Later(n)
    BY DEF ConfigIsWhole, Later
  <2>1. \A t \in Callers : ~Waits(job[t], n)
    BY DEF Waits
  <2> QED
    BY <2>1 DEF RegistryInv, Configuring
<1> QED
  BY <1>1, Invariance, PTL

LEMMA RouteIsName ==
  ASSUME TypeOK, NEW m \in ToSet(Models), NEW write \in BOOLEAN
  PROVE  Route(m, write) \in AllNames /\ Route(m, write) # None
<1>1. "default" \in AllNames
  BY DEF AllNames
<1>2. Opinion(m, write) \in AllNames \cup {None}
  <2>1. CASE router = None
    BY <2>1 DEF Opinion
  <2>2. CASE router # None
    <3>1. router \in [ToSet(Models) -> [read : AllNames \cup {None}, write : AllNames \cup {None}]]
      BY <2>2 DEF TypeOK
    <3> QED
      BY <2>2, <3>1 DEF Opinion
  <2> QED
    BY <2>1, <2>2
<1> QED
  BY <1>1, <1>2 DEF Route

\* get_dialect looks up what get_executor looks up: the SQL is written for the database
\* it is sent to.
THEOREM RenderedWhereExecuted == Spec => []RenderedForExecutor
<1>1. RegistryInv => RenderedForExecutor
  <2> SUFFICES ASSUME RegistryInv, NEW t \in Tasks, NEW m \in ToSet(Models),
                      NEW write \in BOOLEAN, NEW using \in AllNames \cup {None},
                      GetExecutor(t, m, write, using) # None,
                      using = None => ~write \/ Route(m, TRUE) = Route(m, FALSE),
                      using # None => /\ pinned[t][using] \in {None, NamedConnection(using)}
                                      /\ ~(added /\ using = "default")
               PROVE  GetDialect(t, m, using) = engines[GetExecutor(t, m, write, using)].dialect
    BY DEF RenderedForExecutor
  <2>1. using # None => Pool(using) = NamedConnection(using)
    BY DEF RegistryInv, OneDefault, Pool, GetEngine, NamedConnection
  <2>2. CASE using # None
    <3>1. TxName(t, m, write, using) = IF pinned[t][using] # None THEN using ELSE None
      BY <2>2 DEF TxName, ResolveConnectionName
    <3>2. GetExecutor(t, m, write, using) = NamedConnection(using)
      BY <2>1, <2>2, <3>1 DEF GetExecutor, ResolveConnectionName
    <3> QED
      BY <2>2, <3>2 DEF GetDialect, DialectOf
  <2>3. CASE using = None
    <3>1. ResolveConnectionName(m, write, None) = Route(m, write)
      BY DEF ResolveConnectionName
    <3>2. write => Route(m, write) = Route(m, FALSE)
      BY <2>3
    <3>3. TxName(t, m, write, None) = TxName(t, m, FALSE, None)
      BY <2>3, <3>2 DEF TxName, ResolveConnectionName
    <3>4. GetExecutor(t, m, write, None)
            = IF TxName(t, m, FALSE, None) # None THEN pinned[t][TxName(t, m, FALSE, None)]
              ELSE Pool(Route(m, FALSE))
      BY <3>1, <3>2, <3>3 DEF GetExecutor
    <3> QED
      BY <2>3, <3>4 DEF GetDialect, DialectOf
  <2> QED
    BY <2>2, <2>3
<1> QED
  BY <1>1, Invariance, PTL

-----------------------------------------------------------------------------
HIDE RegistryAssumption DEF Engines

(* Induction over the natural numbers, for a set of them. *)

\* A set of numbers with 0 and every successor has all of them.
LEMMA Induct ==
  ASSUME NEW T \in SUBSET Nat, 0 \in T, \A n \in T : n + 1 \in T
  PROVE  T = Nat
<1> SUFFICES ASSUME Nat \ T # {} PROVE FALSE
  OBVIOUS
<1>1. PICK n \in Nat \ T : \A y \in Nat \ T : ~ (<<y, n>> \in OpToRel(<, Nat))
  BY WFMin, NatLessThanWellFounded
<1>2. ASSUME NEW y \in Nat \ T PROVE n <= y
  <2>1. ~ (<<y, n>> \in {ss \in Nat \X Nat : ss[1] < ss[2]})
    BY <1>1 DEF OpToRel
  <2> QED
    BY <2>1
<1>3. n # 0 /\ n - 1 \in T /\ (n - 1) + 1 = n
  BY <1>2
<1> QED
  BY <1>1, <1>3

-----------------------------------------------------------------------------
(* The order in which tables are created. *)

\* What the first n elements of s keep.
Keeps(s, S, f, n) ==
  \A i \in 0 .. n :
    f[i] = IF i = 0 THEN <<>> ELSE IF s[i] \in S THEN Append(f[i - 1], s[i]) ELSE f[i - 1]

First(s, n) == {s[i] : i \in 1 .. n}

IsKept(X, q, s, n, S) == q \in Seq(X) /\ ToSet(q) = First(s, n) \cap S

\* The first elements that are kept are those in S.
LEMMA KeepsSome ==
  ASSUME NEW X, NEW S, NEW s \in Seq(X), NEW f, Keeps(s, S, f, Len(s)), NEW n \in 0 .. Len(s)
  PROVE  IsKept(X, f[n], s, n, S)
<1> DEFINE T == {m \in Nat : m <= Len(s) => f[m] \in Seq(X) /\ ToSet(f[m]) = First(s, m) \cap S}
<1>0. Len(s) \in Nat
  OBVIOUS
<1>1. 0 \in T
  <2>1. f[0] = <<>>
    BY <1>0 DEF Keeps
  <2>2. ToSet(<<>>) = {} /\ First(s, 0) = {} /\ <<>> \in Seq(X)
    BY DEF ToSet, First
  <2>3. f[0] \in Seq(X) /\ ToSet(f[0]) = First(s, 0) \cap S
    BY <2>1, <2>2
  <2> QED
    BY <2>3
<1>2. ASSUME NEW m \in T PROVE m + 1 \in T
  <2> SUFFICES ASSUME m + 1 <= Len(s)
               PROVE  f[m + 1] \in Seq(X) /\ ToSet(f[m + 1]) = First(s, m + 1) \cap S
    BY <1>2
  <2>1. m \in Nat /\ f[m] \in Seq(X) /\ ToSet(f[m]) = First(s, m) \cap S
    BY <1>0, <1>2
  <2>2. s[m + 1] \in X /\ m + 1 \in 0 .. Len(s) /\ (m + 1) - 1 = m /\ m + 1 # 0
    BY <1>0, <2>1
  <2>3. First(s, m + 1) = First(s, m) \cup {s[m + 1]}
    BY <2>1 DEF First
  <2>4. f[m + 1] = IF s[m + 1] \in S THEN Append(f[m], s[m + 1]) ELSE f[m]
    BY <2>2 DEF Keeps
  <2>5. ASSUME NEW q \in Seq(X), NEW x \in X
        PROVE  Append(q, x) \in Seq(X) /\ ToSet(Append(q, x)) = ToSet(q) \cup {x}
    <3>1. Append(q, x) \in Seq(X) /\ Len(Append(q, x)) = Len(q) + 1 /\ Len(q) \in Nat
          /\ Append(q, x)[Len(q) + 1] = x /\ \A i \in 1 .. Len(q) : Append(q, x)[i] = q[i]
      OBVIOUS
    <3> DEFINE a == Append(q, x)
    <3> HIDE DEF a
    <3>2. DOMAIN a = 1 .. (Len(q) + 1) /\ DOMAIN q = 1 .. Len(q)
      BY <3>1 DEF a
    <3>3. ToSet(a) = ToSet(q) \cup {x}
      BY <3>1, <3>2 DEF a, ToSet
    <3> QED
      BY <3>1, <3>3 DEF a
  <2>6. CASE s[m + 1] \in S
    BY <2>1, <2>2, <2>3, <2>4, <2>5, <2>6
  <2>7. CASE s[m + 1] \notin S
    BY <2>1, <2>3, <2>4, <2>7
  <2> QED
    BY <2>6, <2>7
<1>3. T \in SUBSET Nat
  OBVIOUS
<1>4. T = Nat
  <2> HIDE DEF T
  <2> QED
    BY <1>1, <1>2, <1>3, Induct
<1>5. n \in T
  <2> HIDE DEF T
  <2> QED
    BY <1>0, <1>4
<1> QED
  BY <1>0, <1>5 DEF IsKept

\* The function that Kept is defined by exists.
LEMMA KeepsExist ==
  ASSUME NEW X, NEW S, NEW s \in Seq(X)
  PROVE  \E f : f = [i \in 0 .. Len(s) |-> f[i]] /\ Keeps(s, S, f, Len(s))
<1> DEFINE T == {n \in Nat : n <= Len(s) => \E f : f = [i \in 0 .. n |-> f[i]] /\ Keeps(s, S, f, n)}
<1>0. Len(s) \in Nat
  OBVIOUS
<1>1. 0 \in T
  <2> DEFINE g == [i \in 0 .. 0 |-> <<>>]
  <2>1. g = [i \in 0 .. 0 |-> g[i]] /\ Keeps(s, S, g, 0)
    BY DEF Keeps
  <2> HIDE DEF g
  <2> QED
    BY <2>1
<1>2. ASSUME NEW n \in T PROVE n + 1 \in T
  <2> SUFFICES ASSUME n + 1 <= Len(s)
               PROVE  \E f : f = [i \in 0 .. n + 1 |-> f[i]] /\ Keeps(s, S, f, n + 1)
    BY <1>2
  <2>1. PICK f : f = [i \in 0 .. n |-> f[i]] /\ Keeps(s, S, f, n)
    BY <1>0, <1>2
  <2> DEFINE last == IF s[n + 1] \in S THEN Append(f[n], s[n + 1]) ELSE f[n]
             g == [i \in 0 .. n + 1 |-> IF i <= n THEN f[i] ELSE last]
  <2> HIDE DEF last
  <2>2. n \in Nat
    BY <1>2
  <2>3. g = [i \in 0 .. n + 1 |-> g[i]]
    OBVIOUS
  <2>4. ASSUME NEW i \in 0 .. n + 1
        PROVE  g[i] = IF i = 0 THEN <<>> ELSE IF s[i] \in S THEN Append(g[i - 1], s[i]) ELSE g[i - 1]
    <3>1. CASE i = n + 1
      <4>1. ~(n + 1 <= n) /\ (n + 1) - 1 = n /\ n + 1 \in 0 .. n + 1 /\ n \in 0 .. n + 1 /\ n + 1 # 0
        BY <2>2
      <4>2. g[n + 1] = last /\ g[n] = f[n]
        BY <4>1, <2>2
      <4> QED
        BY <3>1, <4>1, <4>2 DEF last
    <3>2. CASE i # n + 1 /\ i # 0
      <4>1. i \in 0 .. n /\ i - 1 \in 0 .. n /\ i \in 0 .. n + 1 /\ i - 1 \in 0 .. n + 1
        BY <2>2, <3>2
      <4>2. g[i] = f[i] /\ g[i - 1] = f[i - 1]
        BY <2>2, <4>1
      <4> QED
        BY <2>1, <3>2, <4>1, <4>2 DEF Keeps
    <3>3. CASE i = 0
      <4>1. 0 \in 0 .. n /\ 0 \in 0 .. n + 1 /\ 0 <= n
        BY <2>2
      <4>2. g[0] = f[0]
        BY <4>1
      <4> QED
        BY <2>1, <3>3, <4>1, <4>2 DEF Keeps
    <3> QED
      BY <3>1, <3>2, <3>3
  <2> HIDE DEF g
  <2> QED
    BY <2>3, <2>4 DEF Keeps
<1>3. T \in SUBSET Nat
  OBVIOUS
<1>4. T = Nat
  <2> HIDE DEF T
  <2> QED
    BY <1>1, <1>2, <1>3, Induct
<1>5. Len(s) \in T
  <2> HIDE DEF T
  <2> QED
    BY <1>0, <1>4
<1> QED
  BY <1>5

\* Kept keeps the elements that are in S.
LEMMA KeptIs ==
  ASSUME NEW X, NEW S, NEW s \in Seq(X)
  PROVE  Kept(s, S) \in Seq(X) /\ ToSet(Kept(s, S)) = ToSet(s) \cap S
<1> DEFINE L == Len(s)
           Def(g) == g = [i \in 0 .. L |-> IF i = 0 THEN <<>>
                            ELSE IF s[i] \in S THEN Append(g[i - 1], s[i]) ELSE g[i - 1]]
           F == CHOOSE g : Def(g)
<1>1. PICK f : f = [i \in 0 .. L |-> f[i]] /\ Keeps(s, S, f, L)
  BY KeepsExist
<1>2. Def(f)
  <2>1. [i \in 0 .. L |-> f[i]] = [i \in 0 .. L |-> IF i = 0 THEN <<>>
                            ELSE IF s[i] \in S THEN Append(f[i - 1], s[i]) ELSE f[i - 1]]
    BY <1>1 DEF Keeps
  <2> QED
    BY <1>1, <2>1
<1>3. Def(F)
  BY <1>2
<1>4. Kept(s, S) = F[L]
  BY DEF Kept
<1>5. \E g : Keeps(s, S, g, L) /\ Kept(s, S) = g[L]
  <2> HIDE DEF F
  <2>1. Keeps(s, S, F, L)
    BY <1>3 DEF Keeps
  <2> QED
    BY <1>4, <2>1
<1>6. PICK g : Keeps(s, S, g, Len(s)) /\ Kept(s, S) = g[Len(s)]
  BY <1>5
<1>7. Len(s) \in Nat /\ Len(s) \in 0 .. Len(s) /\ ToSet(s) = First(s, Len(s))
  <2>1. Len(s) \in Nat /\ DOMAIN s = 1 .. Len(s)
    OBVIOUS
  <2> QED
    BY <2>1 DEF ToSet, First
<1>8. IsKept(X, g[Len(s)], s, Len(s), S)
  BY <1>6, <1>7, KeepsSome
<1> QED
  BY <1>6, <1>7, <1>8 DEF IsKept


All == ToSet(Models)

\* There are finitely many models.
LEMMA AllFinite == IsFiniteSet(All)
<1>1. Models \in Seq(All)
  BY ModelsAssumption DEF All
<1>2. Models \in [1 .. Len(Models) -> All] /\ Len(Models) \in Nat
  BY <1>1
<1>3. All = {Models[i] : i \in 1 .. Len(Models)}
  BY <1>2 DEF All, ToSet
<1>4. Models \in Surjection(1 .. Len(Models), All)
  BY <1>2, <1>3 DEF Surjection
<1>5. IsFiniteSet(1 .. Len(Models))
  BY <1>2, FS_Interval
<1> QED
  BY <1>4, <1>5, FS_Surjection

\* How many models are left.
Many(E) == Cardinality(All \ E)

\* What is left, and the round that is emitted from it.
LEMMA RoundIs ==
  ASSUME NEW E \in SUBSET All
  PROVE  /\ Left(E) = <<>> <=> E = All
         /\ Round(E) \in Seq(All) /\ ToSet(Round(E)) \subseteq All \ E
         /\ Left(E) # <<>> => ToSet(Round(E)) # {}
         /\ Ready(E) # <<>> => \A m \in ToSet(Round(E)) : Targets(m) \subseteq E
         /\ Ready(E) = <<>> => \A m \in All \ E : ~(Targets(m) \subseteq E)
         /\ Ready(E) = <<>> => ToSet(Round(E)) = All \ E
<1> DEFINE S == {m \in All : Targets(m) \subseteq E}
<1>1. Models \in Seq(All) /\ ToSet(Models) = All
  BY ModelsAssumption DEF All
<1>2. Left(E) = Kept(Models, All \ E) /\ Ready(E) = Kept(Left(E), S)
  BY DEF Left, Ready, All
<1>3. Left(E) \in Seq(All) /\ ToSet(Left(E)) = All \cap (All \ E)
  BY <1>1, <1>2, KeptIs
<1>4. Ready(E) \in Seq(All) /\ ToSet(Ready(E)) = ToSet(Left(E)) \cap S
  <2> DEFINE l == Left(E)
  <2>1. l \in Seq(All) /\ Ready(E) = Kept(l, S)
    BY <1>2, <1>3
  <2> HIDE DEF S, l
  <2>2. Kept(l, S) \in Seq(All) /\ ToSet(Kept(l, S)) = ToSet(l) \cap S
    BY <2>1, KeptIs
  <2> QED
    BY <2>1, <2>2 DEF l
<1>5. ASSUME NEW q \in Seq(All) PROVE q = <<>> <=> ToSet(q) = {}
  <2>1. DOMAIN q = 1 .. Len(q) /\ Len(q) \in Nat
    OBVIOUS
  <2>2. CASE q # <<>>
    <3>1. 1 \in DOMAIN q
      BY <2>2
    <3> QED
      BY <3>1, <2>2 DEF ToSet
  <2>3. CASE q = <<>>
    BY <2>3 DEF ToSet
  <2> QED
    BY <2>2, <2>3
<1>6. Left(E) = <<>> <=> E = All
  BY <1>3, <1>5
<1>7. CASE Ready(E) = <<>>
  <2>1. Round(E) = Left(E)
    BY <1>7 DEF Round
  <2>2. ToSet(Left(E)) \cap S = {}
    BY <1>4, <1>5, <1>7
  <2> QED
    BY <1>3, <1>5, <1>6, <1>7, <2>1, <2>2
<1>8. CASE Ready(E) # <<>>
  <2>1. Round(E) = Ready(E)
    BY <1>8 DEF Round
  <2>2. ToSet(Ready(E)) # {} /\ ToSet(Ready(E)) \subseteq All \ E /\ \A m \in ToSet(Ready(E)) : m \in S
    BY <1>3, <1>4, <1>5, <1>8
  <2> QED
    BY <1>4, <1>6, <1>8, <2>1, <2>2
<1> QED
  BY <1>7, <1>8

\* A round leaves fewer.
LEMMA RoundShrinks ==
  ASSUME NEW E \in SUBSET All, Left(E) # <<>>
  PROVE  /\ E \cup ToSet(Round(E)) \in SUBSET All
         /\ Many(E) \in Nat /\ Many(E \cup ToSet(Round(E))) \in Nat
         /\ Many(E \cup ToSet(Round(E))) < Many(E)
<1> DEFINE R == ToSet(Round(E))
           A == All \ E
           B == All \ (E \cup R)
<1>1. R \subseteq A /\ R # {}
  BY RoundIs
<1>2. B \in SUBSET A /\ B # A
  BY <1>1
<1>3. IsFiniteSet(A)
  BY AllFinite, FS_Subset
<1>4. Cardinality(A) \in Nat /\ IsFiniteSet(B) /\ Cardinality(B) <= Cardinality(A) /\ Cardinality(A) # Cardinality(B)
  <2> HIDE DEF A, B
  <2> QED
    BY <1>2, <1>3, FS_Subset, FS_CardinalityType
<1>5. Cardinality(B) \in Nat
  BY <1>4, FS_CardinalityType
<1> QED
  BY <1>1, <1>4, <1>5 DEF Many

-----------------------------------------------------------------------------
(* The recursive function of TopoSortModels exists. *)

TopoStep(g, E) == IF Left(E) = <<>> THEN <<>> ELSE Round(E) \o g[E \cup ToSet(Round(E))]

\* g is that function where at most n models are left.
Topo(g, n) == \A E \in SUBSET All : Many(E) <= n => g[E] = TopoStep(g, E)

\* How many models are left is a number.
LEMMA ManyNat ==
  ASSUME NEW E \in SUBSET All
  PROVE  Many(E) \in Nat /\ Many(E) <= Many({})
<1>1. IsFiniteSet(All \ {}) /\ All \ E \in SUBSET (All \ {})
  BY AllFinite, FS_Subset
<1>2. IsFiniteSet(All \ E) /\ Cardinality(All \ E) <= Cardinality(All \ {})
  BY <1>1, FS_Subset
<1> QED
  BY <1>2, FS_CardinalityType DEF Many

\* Nothing is left when no model is.
LEMMA NoneLeft ==
  ASSUME NEW E \in SUBSET All, Many(E) <= 0
  PROVE  Left(E) = <<>>
<1> SUFFICES ASSUME Left(E) # <<>> PROVE FALSE
  OBVIOUS
<1> DEFINE m == Many(E)
           k == Many(E \cup ToSet(Round(E)))
<1>1. m \in Nat /\ k \in Nat /\ k < m /\ m <= 0
  BY RoundShrinks
<1> HIDE DEF m, k
<1> QED
  BY <1>1

\* A function that satisfies its recursive definition exists.
LEMMA TopoExists == \E g : g = [E \in SUBSET All |-> g[E]] /\ Topo(g, Many({}))
<1> DEFINE T == {n \in Nat : \E g : g = [E \in SUBSET All |-> g[E]] /\ Topo(g, n)}
<1>1. 0 \in T
  <2> DEFINE g == [E \in SUBSET All |-> <<>>]
  <2>1. g = [E \in SUBSET All |-> g[E]]
    OBVIOUS
  <2>2. ASSUME NEW E \in SUBSET All, Many(E) <= 0 PROVE g[E] = TopoStep(g, E)
    <3>1. Left(E) = <<>>
      BY <2>2, NoneLeft
    <3> QED
      BY <3>1 DEF TopoStep
  <2>3. Topo(g, 0)
    BY <2>2 DEF Topo
  <2> HIDE DEF g
  <2> QED
    BY <2>1, <2>3
<1>2. ASSUME NEW n \in T PROVE n + 1 \in T
  <2>1. n \in Nat
    BY <1>2
  <2>2. PICK f : f = [E \in SUBSET All |-> f[E]] /\ Topo(f, n)
    BY <1>2
  <2> DEFINE g == [E \in SUBSET All |-> IF Many(E) <= n THEN f[E] ELSE TopoStep(f, E)]
  <2>3. g = [E \in SUBSET All |-> g[E]]
    OBVIOUS
  <2>4. ASSUME NEW E \in SUBSET All, Many(E) <= n + 1 PROVE g[E] = TopoStep(f, E)
    BY <2>2, <2>4 DEF Topo
  <2>5. ASSUME NEW E \in SUBSET All, Many(E) <= n + 1 PROVE TopoStep(g, E) = TopoStep(f, E)
    <3> DEFINE D == E \cup ToSet(Round(E))
    <3>1. CASE Left(E) = <<>>
      BY <3>1 DEF TopoStep
    <3>2. CASE Left(E) # <<>>
      <4>1. D \in SUBSET All /\ Many(D) <= n
        BY <2>1, <2>5, <3>2, RoundShrinks
      <4> HIDE DEF D
      <4>2. g[D] = f[D]
        BY <4>1
      <4> HIDE DEF g
      <4> QED
        BY <3>2, <4>2 DEF TopoStep, D
    <3> QED
      BY <3>1, <3>2
  <2>6. Topo(g, n + 1)
    <3> HIDE DEF g
    <3> QED
      BY <2>4, <2>5 DEF Topo
  <2> HIDE DEF g
  <2> QED
    BY <2>1, <2>3, <2>6
<1>3. T \in SUBSET Nat
  OBVIOUS
<1>4. T = Nat
  <2> HIDE DEF T
  <2> QED
    BY <1>1, <1>2, <1>3, Induct
<1>5. Many({}) \in T
  <2>1. Many({}) \in Nat
    BY ManyNat
  <2> HIDE DEF T
  <2> QED
    BY <1>4, <2>1
<1> QED
  BY <1>5

\* TopoSortModels is that function of the empty set.
LEMMA TopoIs == \E g : Topo(g, Many({})) /\ TopoSortModels = g[{}]
<1> DEFINE Def(g) == g = [E \in SUBSET ToSet(Models) |->
                            IF Left(E) = <<>> THEN <<>> ELSE Round(E) \o g[E \cup ToSet(Round(E))]]
           F == CHOOSE g : Def(g)
<1>1. PICK f : f = [E \in SUBSET All |-> f[E]] /\ Topo(f, Many({}))
  BY TopoExists
<1>2. \A E \in SUBSET All : f[E] = TopoStep(f, E)
  BY <1>1, ManyNat DEF Topo
<1>3. Def(f)
  <2>1. [E \in SUBSET All |-> f[E]] = [E \in SUBSET All |-> TopoStep(f, E)]
    BY <1>2
  <2> QED
    BY <1>1, <2>1 DEF TopoStep, All
<1>4. Def(F)
  BY <1>3
<1>5. TopoSortModels = F[{}]
  BY DEF TopoSortModels
<1> HIDE DEF F
<1>6. Topo(F, Many({}))
  BY <1>4 DEF Topo, TopoStep, All
<1> QED
  BY <1>5, <1>6

-----------------------------------------------------------------------------
\* A set of models with what they refer to.
Complete(E) == \A m \in E : Targets(m) \subseteq E

\* q has the models that are not in E, each after those it refers to.
Follows(q, E) ==
  /\ q \in Seq(All) /\ All \ E \subseteq ToSet(q)
  /\ \A i \in 1 .. Len(q) : \A d \in Targets(q[i]) : d \in E \/ \E k \in 1 .. i - 1 : q[k] = d

\* Without a cycle some model that is left refers only to emitted ones.
LEMMA SomeReady ==
  ASSUME Acyclic, NEW E \in SUBSET All, E # All
  PROVE  Ready(E) # <<>>
<1>1. PICK rank \in [All -> Nat] : \A m \in All : \A d \in Targets(m) : rank[d] < rank[m]
  <2>1. 1 .. Len(Models) \subseteq Nat
    BY ModelsAssumption
  <2>2. [All -> 1 .. Len(Models)] \subseteq [All -> Nat]
    BY <2>1
  <2> QED
    BY <2>2 DEF Acyclic, All
<1> DEFINE T == {rank[m] : m \in All \ E}
<1>2. T \in SUBSET Nat /\ T # {}
  OBVIOUS
<1>3. PICK n \in T : \A k \in T : ~ (<<k, n>> \in OpToRel(<, Nat))
  <2> HIDE DEF T
  <2> QED
    BY <1>2, WFMin, NatLessThanWellFounded
<1>4. \A k \in T : ~(k < n)
  <2> SUFFICES ASSUME NEW k \in T PROVE ~(k < n)
    OBVIOUS
  <2>1. ~ (<<k, n>> \in {ss \in Nat \X Nat : ss[1] < ss[2]})
    BY <1>3 DEF OpToRel
  <2>2. k \in Nat /\ n \in Nat
    BY <1>2
  <2> HIDE DEF T
  <2> QED
    BY <2>1, <2>2
<1>5. PICK m \in All \ E : rank[m] = n
  OBVIOUS
<1>6. Targets(m) \subseteq E
  <2> SUFFICES ASSUME NEW d \in Targets(m), d \notin E PROVE FALSE
    OBVIOUS
  <2>1. d \in All
    BY DEF Targets, All
  <2> QED
    BY <1>1, <1>4, <1>5, <2>1
<1> QED
  BY <1>5, <1>6, RoundIs

\* Without a cycle the sorted models have each model after those it refers to.
LEMMA TopoFollows ==
  ASSUME Acyclic
  PROVE  Follows(TopoSortModels, {})
<1>1. PICK g : Topo(g, Many({})) /\ TopoSortModels = g[{}]
  BY TopoIs
<1> DEFINE T == {n \in Nat : \A E \in SUBSET All : Complete(E) /\ Many(E) <= n => Follows(g[E], E)}
<1>2. \A E \in SUBSET All : g[E] = TopoStep(g, E)
  BY <1>1, ManyNat DEF Topo
<1>3. ASSUME NEW E \in SUBSET All, Complete(E), Left(E) # <<>>,
             Follows(g[E \cup ToSet(Round(E))], E \cup ToSet(Round(E)))
      PROVE  Follows(g[E], E)
  <2> DEFINE r == Round(E)
             D == E \cup ToSet(r)
             q == g[D]
             s == g[E]
  <2>1. s = r \o q
    BY <1>2, <1>3 DEF TopoStep
  <2>2. r \in Seq(All) /\ \A m \in ToSet(r) : Targets(m) \subseteq E
    <3>1. E # All
      BY <1>3, RoundIs
    <3> QED
      BY <3>1, SomeReady, RoundIs
  <2>3. Follows(q, D)
    BY <1>3
  <2> HIDE DEF r, q, s
  <2>4. /\ s \in Seq(All) /\ Len(r) \in Nat /\ Len(q) \in Nat /\ Len(s) = Len(r) + Len(q)
        /\ DOMAIN s = 1 .. Len(s) /\ DOMAIN r = 1 .. Len(r) /\ DOMAIN q = 1 .. Len(q)
        /\ \A i \in 1 .. Len(r) : s[i] = r[i]
        /\ \A i \in 1 .. Len(q) : s[Len(r) + i] = q[i]
    BY <2>1, <2>2, <2>3 DEF Follows
  <2>5. \A m \in ToSet(r) : \E k \in 1 .. Len(r) : s[k] = m
    BY <2>4 DEF ToSet
  <2>6. \A m \in ToSet(q) : \E k \in 1 .. Len(q) : s[Len(r) + k] = m /\ Len(r) + k \in DOMAIN s
    BY <2>4 DEF ToSet
  <2>7. All \ E \subseteq ToSet(s)
    <3> SUFFICES ASSUME NEW m \in All \ E PROVE m \in ToSet(s)
      OBVIOUS
    <3>1. CASE m \in ToSet(r)
      <4>1. PICK k \in 1 .. Len(r) : s[k] = m
        BY <2>5, <3>1
      <4>2. k \in DOMAIN s
        BY <2>4
      <4> QED
        BY <4>1, <4>2 DEF ToSet
    <3>2. CASE m \notin ToSet(r)
      <4>1. m \in ToSet(q)
        BY <2>3, <3>2 DEF Follows
      <4> QED
        BY <2>6, <4>1 DEF ToSet
    <3> QED
      BY <3>1, <3>2
  <2>8. ASSUME NEW i \in 1 .. Len(s), NEW d \in Targets(s[i])
        PROVE  d \in E \/ \E k \in 1 .. i - 1 : s[k] = d
    <3>1. CASE i <= Len(r)
      <4>1. s[i] = r[i] /\ r[i] \in ToSet(r)
        BY <2>4, <3>1 DEF ToSet
      <4> QED
        BY <2>2, <2>8, <4>1
    <3>2. CASE i > Len(r)
      <4> DEFINE j == i - Len(r)
      <4>1. j \in 1 .. Len(q) /\ s[i] = q[j] /\ Len(r) + j = i
        BY <2>4, <3>2
      <4> HIDE DEF j
      <4>2. d \in D \/ \E k \in 1 .. j - 1 : q[k] = d
        BY <2>3, <2>8, <4>1 DEF Follows
      <4>3. CASE d \in D
        <5>1. d \in E \/ \E k \in 1 .. Len(r) : s[k] = d
          BY <2>5, <4>3
        <5>2. 1 .. Len(r) \subseteq 1 .. i - 1
          BY <2>4, <3>2
        <5> QED
          BY <5>1, <5>2
      <4>4. CASE \E k \in 1 .. j - 1 : q[k] = d
        <5>1. PICK k \in 1 .. j - 1 : q[k] = d
          BY <4>4
        <5>2. k \in 1 .. Len(q) /\ Len(r) + k \in 1 .. i - 1
          BY <2>4, <4>1
        <5>3. s[Len(r) + k] = d
          BY <2>4, <5>1, <5>2
        <5> QED
          BY <5>2, <5>3
      <4> QED
        BY <4>2, <4>3, <4>4
    <3> QED
      BY <2>4, <3>1, <3>2
  <2>9. Follows(s, E)
    BY <2>4, <2>7, <2>8 DEF Follows
  <2> QED
    BY <2>9 DEF s
<1>4. ASSUME NEW E \in SUBSET All, Left(E) = <<>> PROVE Follows(g[E], E)
  <2>1. g[E] = <<>> /\ E = All
    BY <1>2, <1>4, RoundIs DEF TopoStep
  <2>2. <<>> \in Seq(All) /\ Len(<<>>) = 0
    OBVIOUS
  <2> QED
    BY <2>1, <2>2 DEF Follows
<1>5. 0 \in T
  <2> SUFFICES ASSUME NEW E \in SUBSET All, Many(E) <= 0 PROVE Follows(g[E], E)
    OBVIOUS
  <2>1. Left(E) = <<>>
    BY NoneLeft
  <2> QED
    BY <1>4, <2>1
<1>6. ASSUME NEW n \in T PROVE n + 1 \in T
  <2>0. n \in Nat
    BY <1>6
  <2> SUFFICES ASSUME NEW E \in SUBSET All, Complete(E), Many(E) <= n + 1, Left(E) # <<>>
               PROVE  Follows(g[E], E)
    BY <1>4, <2>0
  <2> DEFINE D == E \cup ToSet(Round(E))
  <2>1. D \in SUBSET All /\ Many(D) <= n
    <3>1. D \in SUBSET All /\ Many(D) \in Nat /\ Many(E) \in Nat /\ Many(D) < Many(E)
      BY RoundShrinks
    <3> QED
      BY <2>0, <3>1
  <2>2. Complete(D)
    <3>1. E # All
      BY RoundIs
    <3>2. \A m \in ToSet(Round(E)) : Targets(m) \subseteq E
      BY <3>1, SomeReady, RoundIs
    <3> QED
      BY <3>2 DEF Complete
  <2>3. Follows(g[D], D)
    BY <1>6, <2>1, <2>2
  <2> QED
    BY <1>3, <2>3
<1>7. T \in SUBSET Nat
  OBVIOUS
<1>8. T = Nat
  <2> HIDE DEF T
  <2> QED
    BY <1>5, <1>6, <1>7, Induct
<1>9. Many({}) \in T /\ Complete({}) /\ {} \in SUBSET All
  <2>1. Many({}) \in Nat
    BY ManyNat
  <2> HIDE DEF T
  <2> QED
    BY <1>8, <2>1 DEF Complete
<1>10. Follows(g[{}], {})
  BY <1>9
<1> QED
  BY <1>1, <1>10

-----------------------------------------------------------------------------
\* The join tables in the order they are created.
LEMMA JoinTables == SetToSeq(DOMAIN Joins) \in Seq(DOMAIN Joins)
<1> DEFINE S == DOMAIN Joins
           n == Cardinality(S)
<1>1. n \in Nat /\ ExistsBijection(1 .. n, S)
  BY ModelsAssumption, FS_CardinalityType
<1>2. PICK f : f \in Bijection(1 .. n, S)
  BY <1>1 DEF ExistsBijection
<1>3. f \in [1 .. n -> S] /\ IsInjective(f)
  BY <1>2 DEF Bijection, Injection, IsInjective
<1>4. SetToSeq(S) \in [1 .. n -> S]
  BY <1>3 DEF SetToSeq
<1> QED
  BY <1>1, <1>4

\* A table comes after those it refers to.
LEMMA TablesInOrder ==
  ASSUME Acyclic
  PROVE  /\ Tables \in Seq(All \cup DOMAIN Joins)
         /\ \A i \in 1 .. Len(Tables) : \A d \in Needs(Tables[i]) : d \in All /\ \E k \in 1 .. i - 1 : Tables[k] = d
<1> DEFINE r == TopoSortModels
           q == SetToSeq(DOMAIN Joins)
           s == Tables
<1>1. s = r \o q /\ r \in Seq(All) /\ q \in Seq(DOMAIN Joins) /\ Follows(r, {})
  BY TopoFollows, JoinTables DEF Follows, Tables
<1> HIDE DEF r, q, s
<1>2. /\ s \in Seq(All \cup DOMAIN Joins) /\ Len(r) \in Nat /\ Len(q) \in Nat /\ Len(s) = Len(r) + Len(q)
      /\ DOMAIN r = 1 .. Len(r)
      /\ \A i \in 1 .. Len(r) : s[i] = r[i] /\ r[i] \in All
      /\ \A i \in 1 .. Len(q) : s[Len(r) + i] = q[i] /\ q[i] \in DOMAIN Joins
  <2>1. r \in Seq(All \cup DOMAIN Joins) /\ q \in Seq(All \cup DOMAIN Joins)
    BY <1>1
  <2> QED
    BY <1>1, <2>1
<1>3. ASSUME NEW i \in 1 .. Len(s), NEW d \in Needs(s[i])
      PROVE  d \in All /\ \E k \in 1 .. i - 1 : s[k] = d
  <2>1. CASE i <= Len(r)
    <3>1. s[i] = r[i] /\ s[i] \in All /\ i \in 1 .. Len(r)
      BY <1>2, <2>1
    <3>2. s[i] \notin DOMAIN Joins
      BY <3>1, ModelsAssumption DEF All
    <3>3. d \in Targets(r[i]) /\ d \in All
      BY <1>3, <3>1, <3>2 DEF Needs, Targets, All
    <3>4. \E k \in 1 .. i - 1 : r[k] = d
      BY <1>1, <3>1, <3>3 DEF Follows
    <3>5. \A k \in 1 .. i - 1 : s[k] = r[k]
      BY <1>2, <2>1
    <3> QED
      BY <3>3, <3>4, <3>5
  <2>2. CASE i > Len(r)
    <3>1. i - Len(r) \in 1 .. Len(q) /\ Len(r) + (i - Len(r)) = i
      BY <1>2, <2>2
    <3>2. s[i] \in DOMAIN Joins
      BY <1>2, <3>1
    <3>3. d \in All
      BY <1>3, <3>2, ModelsAssumption DEF Needs, All
    <3>4. d \in ToSet(r)
      BY <1>1, <3>3 DEF Follows
    <3>5. PICK k \in 1 .. Len(r) : r[k] = d
      BY <1>2, <3>4 DEF ToSet
    <3>6. k \in 1 .. i - 1 /\ s[k] = d
      BY <1>2, <2>2, <3>5
    <3> QED
      BY <3>3, <3>6
  <2> QED
    BY <1>2, <2>1, <2>2
<1> QED
  BY <1>2, <1>3 DEF s


-----------------------------------------------------------------------------
(* Where the tables have been created. *)

\* The engine the statements of t on n run on.
At(t, n) == IF pinned[t][n] # None THEN pinned[t][n] ELSE Pool(n)

\* The first k tables are created where the statements of the task on their write
\* connection still go; the others are left.
CreatedUpTo(t, k) ==
  /\ job[t].tables = [i \in 1 .. (Len(Tables) - k) |-> Tables[k + i]]
  /\ \A i \in 1 .. k :
       <<At(t, Route(Owner(Tables[i]), TRUE)), Tables[i]>> \in job[t].created

Generating ==
  ~overlapped => \A t \in Callers :
    job[t].do = "generate" => \E k \in 0 .. Len(Tables) : CreatedUpTo(t, k)

OrderInv == RegistryInv /\ Generating

\* What a call does with its own job; GenerateSchemas and CreateTable are apart.
Otherwise(t) ==
  \/ InitOrm(t) \/ AddConnection(t) \/ Connected(t) \/ ConnectFailed(t)
  \/ ClosePrevious(t) \/ NextOfConfig(t) \/ CloseOrm(t) \/ CloseOne(t) \/ Forget(t)

\* While one call goes on the others wait for theirs to begin.
LEMMA StopsNothing ==
  ASSUME RegistryInv, NEW t \in Callers, Otherwise(t) \/ GenerateSchemas(t) \/ CreateTable(t)
  PROVE  /\ UNCHANGED pinned /\ (overlapped => overlapped')
         /\ ~overlapped' => \A u \in Callers \ {t} : job[u].do = "idle" /\ job'[u] = job[u]
<1>1. overlapped \in BOOLEAN /\ JobShape
  BY DEF RegistryInv, JobShape
<1>2. /\ UNCHANGED pinned
      /\ \E w : Begin(t, w) \/ (Go(t, w) /\ job[t].do # "idle")
  <2>1. CASE InitOrm(t) \/ AddConnection(t) \/ CloseOrm(t) \/ GenerateSchemas(t)
    BY <2>1 DEF InitOrm, AddConnection, CloseOrm, GenerateSchemas
  <2>2. CASE ConnectFailed(t) \/ ClosePrevious(t) \/ NextOfConfig(t) \/ CloseOne(t) \/ Forget(t)
    BY <2>2 DEF ConnectFailed, ClosePrevious, NextOfConfig, CloseOne, Forget
  <2>3. CASE Connected(t)
    BY <2>3 DEF Connected
  <2>4. CASE CreateTable(t)
    BY <2>4 DEF CreateTable
  <2> QED
    BY <2>1, <2>2, <2>3, <2>4 DEF Otherwise
<1>3. PICK w : Begin(t, w) \/ (Go(t, w) /\ job[t].do # "idle")
  BY <1>2
<1>4. job' = [job EXCEPT ![t] = w]
  BY <1>3 DEF Begin, Go
<1>5. \A u \in Callers \ {t} : job'[u] = job[u]
  BY <1>1, <1>4, GoFacts
<1>6. CASE Begin(t, w)
  <2>1. overlapped' = (overlapped \/ \E u \in Callers : job[u].do # "idle")
    BY <1>6 DEF Begin
  <2> QED
    BY <1>1, <1>2, <1>5, <2>1
<1>7. CASE Go(t, w) /\ job[t].do # "idle"
  <2>1. overlapped' = overlapped
    BY <1>7 DEF Go
  <2> QED
    BY <1>2, <1>5, <1>7, <2>1 DEF RegistryInv, Solo
<1> QED
  BY <1>3, <1>6, <1>7

\* Only GenerateSchemas and CreateTable leave a call generating.
LEMMA OtherwiseIs ==
  ASSUME RegistryInv, NEW t \in Callers, Otherwise(t)
  PROVE  job'[t].do # "generate"
<1>1. JobShape /\ HasFields(job[t])
  BY DEF RegistryInv, JobShape, IsJob
<1>2. CASE InitOrm(t)
  <2>1. PICK r, z, rest : job' = [job EXCEPT ![t] = Connecting("init", "default", r, z, rest)]
    BY <1>2 DEF InitOrm, Begin
  <2>2. PICK w : w = Connecting("init", "default", r, z, rest)
    OBVIOUS
  <2>3. w.do = "connect"
    BY <2>2, ConnectingFacts
  <2>4. job' = [job EXCEPT ![t] = w]
    BY <2>1, <2>2
  <2> QED
    BY <1>1, <2>3, <2>4, GoFacts
<1>3. CASE AddConnection(t)
  <2>1. PICK n : job' = [job EXCEPT ![t] = Connecting("add", n, None, None, {})]
    BY <1>3 DEF AddConnection, Begin
  <2>2. PICK w : w = Connecting("add", n, None, None, {})
    OBVIOUS
  <2>3. w.do = "connect"
    BY <2>2, ConnectingFacts
  <2>4. job' = [job EXCEPT ![t] = w]
    BY <2>1, <2>2
  <2> QED
    BY <1>1, <2>3, <2>4, GoFacts
<1>4. CASE Connected(t) \/ ClosePrevious(t)
  <2>1. PICK v \in {"close previous", "next"} : job' = [job EXCEPT ![t] = [job[t] EXCEPT !.do = v]]
    BY <1>4 DEF Connected, ClosePrevious, Go
  <2>2. PICK w : w = [job[t] EXCEPT !.do = v]
    OBVIOUS
  <2>3. w.do = v
    BY <1>1, <2>2 DEF HasFields, JobFields
  <2> QED
    BY <1>1, <2>1, <2>2, <2>3, GoFacts
<1>5. CASE ConnectFailed(t) \/ Forget(t)
  <2>1. job' = [job EXCEPT ![t] = Idle]
    BY <1>5 DEF ConnectFailed, Forget, Go
  <2> QED
    BY <1>1, <2>1, GoFacts, IdleFacts
<1>6. CASE NextOfConfig(t)
  <2>1. PICK w : job' = [job EXCEPT ![t] = w] /\ w = AfterConnect(job[t].rest)
    BY <1>6 DEF NextOfConfig, Go
  <2>2. w = Idle \/ \E n, rest : w = Connecting("init", n, None, None, rest)
    BY <2>1 DEF AfterConnect
  <2>3. w.do # "generate"
    BY <2>2, IdleFacts, ConnectingFacts
  <2> QED
    BY <1>1, <2>1, <2>3, GoFacts
<1>7. CASE CloseOrm(t)
  <2>1. PICK v : job' = [job EXCEPT ![t] = [Idle EXCEPT !.do = "close all", !.rest = v]]
    BY <1>7 DEF CloseOrm, Begin
  <2>2. PICK w : w = [Idle EXCEPT !.do = "close all", !.rest = v]
    OBVIOUS
  <2> QED
    BY <1>1, <2>1, <2>2, GoFacts, CloseAllFacts
<1>8. CASE CloseOne(t)
  <2>1. PICK v : job' = [job EXCEPT ![t] = [job[t] EXCEPT !.rest = v]] /\ job[t].do = "close all"
    BY <1>8 DEF CloseOne, Go
  <2>2. PICK w : w = [job[t] EXCEPT !.rest = v]
    OBVIOUS
  <2>3. w.do = "close all"
    BY <1>1, <2>1, <2>2 DEF HasFields, JobFields
  <2> QED
    BY <1>1, <2>1, <2>2, <2>3, GoFacts
<1> QED
  BY <1>2, <1>3, <1>4, <1>5, <1>6, <1>7, <1>8 DEF Otherwise

\* The tables that are created stay so while nothing is registered or routed anew.
LEMMA GeneratingKept ==
  ASSUME Generating, UNCHANGED <<connections, default, router>>, overlapped => overlapped',
         ~overlapped' => \A t \in Callers : job'[t].do = "generate" =>
           job'[t] = job[t] /\ pinned'[t] = pinned[t]
  PROVE  Generating'
<1> SUFFICES ASSUME ~overlapped', NEW t \in Callers, job'[t].do = "generate"
             PROVE  \E k \in 0 .. Len(Tables) : CreatedUpTo(t, k)'
  BY DEF Generating
<1>1. PICK k \in 0 .. Len(Tables) : CreatedUpTo(t, k)
  BY DEF Generating
<1>2. job'[t] = job[t] /\ pinned'[t] = pinned[t]
  OBVIOUS
<1>3. \A m : Route(m, TRUE)' = Route(m, TRUE)
  BY DEF Route, Opinion
<1>4. \A n : At(t, n)' = At(t, n)
  BY <1>2 DEF At, Pool, GetEngine, NamedConnection
<1>5. CreatedUpTo(t, k)'
  BY <1>1, <1>2, <1>3, <1>4 DEF CreatedUpTo
<1> QED
  BY <1>5

\* GenerateSchemas starts with all tables to create.
LEMMA GenerateStarts ==
  ASSUME OrderInv, Acyclic, NEW t \in Callers, GenerateSchemas(t)
  PROVE  Generating'
<1> SUFFICES ASSUME ~overlapped', NEW u \in Callers, job'[u].do = "generate"
             PROVE  \E k \in 0 .. Len(Tables) : CreatedUpTo(u, k)'
  BY DEF Generating
<1>1. u = t
  BY StopsNothing DEF OrderInv
<1>2. job'[t] = [Idle EXCEPT !.do = "generate", !.tables = Tables]
  BY GoFacts DEF GenerateSchemas, Begin, OrderInv, RegistryInv
<1>3. job'[t].tables = Tables
  BY <1>2 DEF Idle
<1>4. Tables \in Seq(All \cup DOMAIN Joins) /\ Len(Tables) \in Nat
  BY TablesInOrder
<1>5. Tables = [i \in 1 .. (Len(Tables) - 0) |-> Tables[0 + i]]
  <2> DEFINE s == Tables
  <2>1. s \in Seq(All \cup DOMAIN Joins)
    BY <1>4
  <2> HIDE DEF s
  <2>2. s = [i \in 1 .. Len(s) |-> s[i]]
    BY <2>1
  <2>3. Len(s) - 0 = Len(s) /\ \A i \in 1 .. Len(s) : 0 + i = i
    BY <2>1
  <2>4. s = [i \in 1 .. (Len(s) - 0) |-> s[0 + i]]
    BY <2>2, <2>3
  <2> QED
    BY <2>4 DEF s
<1>6. CreatedUpTo(t, 0)'
  BY <1>3, <1>5 DEF CreatedUpTo
<1> QED
  BY <1>1, <1>4, <1>6

\* Where the statements of a generating call go.
LEMMA ExecutorIs ==
  ASSUME RegistryInv, NEW t \in Tasks, NEW m \in ToSet(Models), NEW n, n = Route(m, TRUE)
  PROVE  GetExecutor(t, m, TRUE, None) = At(t, n)
<1>1. n # None
  BY RouteIsName DEF RegistryInv
<1>2. TxName(t, m, TRUE, None) = IF pinned[t][n] # None THEN n ELSE None
  BY DEF TxName, ResolveConnectionName
<1>3. ResolveConnectionName(m, TRUE, None) = n
  BY DEF ResolveConnectionName
<1> QED
  BY <1>1, <1>2, <1>3 DEF GetExecutor, At

\* CreateTable creates the next one.
LEMMA CreateFollows ==
  ASSUME OrderInv, Acyclic, NEW t \in Callers, CreateTable(t)
  PROVE  Generating'
<1> SUFFICES ASSUME ~overlapped', NEW u \in Callers, job'[u].do = "generate"
             PROVE  \E k \in 0 .. Len(Tables) : CreatedUpTo(u, k)'
  BY DEF Generating
<1>1. /\ RegistryInv /\ Generating /\ TypeOK /\ JobShape /\ HasFields(job[t])
      /\ t \in Tasks /\ ~overlapped
  BY RegistryAssumption, StopsNothing DEF OrderInv, RegistryInv, JobShape, IsJob
<1>2. u = t
  BY StopsNothing DEF OrderInv
<1>3. PICK k \in 0 .. Len(Tables) : CreatedUpTo(t, k)
  BY <1>1 DEF Generating, CreateTable
<1> DEFINE s == job[t].tables
           n == Route(Owner(Head(s)), TRUE)
           on == GetExecutor(t, Owner(Head(s)), TRUE, None)
           w == [job[t] EXCEPT !.tables = Tail(s), !.created = job[t].created \cup {<<on, Head(s)>>}]
<1>4. /\ s # <<>> /\ job[t].do = "generate" /\ UNCHANGED <<connections, default, router, pinned>>
      /\ \/ on # None /\ engines[on].open /\ Go(t, w)
         \/ Go(t, Idle)
  BY DEF CreateTable, registry
<1>5. on # None /\ engines[on].open /\ Go(t, w)
  <2>1. CASE Go(t, Idle)
    BY <1>1, <1>2, <2>1, GoFacts, IdleFacts DEF Go
  <2> QED
    BY <1>4, <2>1
<1>6. job'[t] = w
  <2> HIDE DEF w
  <2> QED
    BY <1>1, <1>5, GoFacts DEF Go
<1>7. job'[t].tables = Tail(s) /\ job'[t].created = job[t].created \cup {<<on, Head(s)>>}
  <2> HIDE DEF on
  <2> QED
    BY <1>1, <1>6 DEF HasFields, JobFields
<1>8. /\ Tables \in Seq(All \cup DOMAIN Joins) /\ Len(Tables) \in Nat
      /\ \A i \in 1 .. Len(Tables) : Tables[i] \in All \cup DOMAIN Joins
  BY TablesInOrder
<1>9. s = [i \in 1 .. (Len(Tables) - k) |-> Tables[k + i]]
  BY <1>3 DEF CreatedUpTo
<1>10. k + 1 \in 1 .. Len(Tables)
  <2> HIDE DEF s
  <2>1. CASE k = Len(Tables)
    BY <1>4, <1>8, <1>9, <2>1
  <2> QED
    BY <1>8, <2>1
<1>11. /\ Head(s) = Tables[k + 1]
       /\ Tail(s) = [i \in 1 .. (Len(Tables) - (k + 1)) |-> Tables[(k + 1) + i]]
  <2> DEFINE l == Len(Tables) - k
             f == [i \in 1 .. l |-> Tables[k + i]]
  <2>1. l \in Nat /\ l >= 1 /\ s = f
    BY <1>8, <1>9, <1>10
  <2>2. f \in Seq(All \cup DOMAIN Joins) /\ Len(f) = l
    BY <1>8, <2>1
  <2>3. Head(f) = f[1] /\ f[1] = Tables[k + 1]
    BY <2>1, <2>2
  <2>4. Tail(f) = [i \in 1 .. (l - 1) |-> f[i + 1]]
    BY <2>1, <2>2
  <2>5. \A i \in 1 .. (l - 1) : f[i + 1] = Tables[(k + 1) + i]
    <3> SUFFICES ASSUME NEW i \in 1 .. (l - 1) PROVE f[i + 1] = Tables[(k + 1) + i]
      OBVIOUS
    <3>1. i + 1 \in 1 .. l /\ k + (i + 1) = (k + 1) + i
      BY <2>1
    <3> QED
      BY <3>1
  <2>6. l - 1 = Len(Tables) - (k + 1)
    BY <1>8
  <2> HIDE DEF f, l
  <2>7. Tail(f) = [i \in 1 .. (Len(Tables) - (k + 1)) |-> Tables[(k + 1) + i]]
    BY <2>4, <2>5, <2>6
  <2> QED
    BY <2>1, <2>3, <2>7
<1>12. Owner(Head(s)) \in ToSet(Models) /\ n \in AllNames
  <2>1. Owner(Head(s)) \in ToSet(Models)
    BY <1>8, <1>10, <1>11, ModelsAssumption DEF Owner, All
  <2> QED
    BY <1>1, <2>1, RouteIsName
<1>13. on = At(t, n)
  BY <1>1, <1>12, ExecutorIs
<1> HIDE DEF on, n, s, w
<1>15. CreatedUpTo(t, k + 1)'
  <2>1. /\ \A m : Route(m, TRUE)' = Route(m, TRUE)
        /\ \A c : At(t, c)' = At(t, c)
    BY <1>4 DEF Route, Opinion, At, Pool, GetEngine, NamedConnection
  <2>2. ASSUME NEW i \in 1 .. (k + 1)
        PROVE  <<At(t, Route(Owner(Tables[i]), TRUE)), Tables[i]>> \in job'[t].created
    <3>1. CASE i = k + 1
      BY <1>7, <1>11, <1>13, <3>1 DEF n
    <3>2. CASE i # k + 1
      <4>1. i \in 1 .. k
        BY <3>2
      <4> QED
        BY <1>3, <1>7, <4>1 DEF CreatedUpTo
    <3> QED
      BY <3>1, <3>2
  <2> QED
    BY <1>4, <1>7, <1>11, <2>1, <2>2 DEF CreatedUpTo
<1> QED
  BY <1>2, <1>10, <1>15

-----------------------------------------------------------------------------
\* Every step keeps OrderInv.
LEMMA OrderNext == Acyclic /\ OrderInv /\ [Next]_vars => OrderInv'
<1> SUFFICES ASSUME Acyclic, OrderInv, [Next]_vars PROVE OrderInv'
  OBVIOUS
<1>1. RegistryInv /\ Generating /\ RegistryInv' /\ overlapped \in BOOLEAN /\ TypeOK
  BY RegistryNext DEF OrderInv, RegistryInv, JobShape
<1>2. ASSUME NEW t \in Callers, Otherwise(t) \/ GenerateSchemas(t) \/ CreateTable(t)
      PROVE  OrderInv'
  <2>1. CASE Otherwise(t)
    <3>1. ASSUME ~overlapped', NEW u \in Callers, job'[u].do = "generate" PROVE FALSE
      BY <1>1, <2>1, <3>1, StopsNothing, OtherwiseIs
    <3> QED
      BY <1>1, <3>1 DEF OrderInv, Generating
  <2> QED
    BY <1>1, <1>2, <2>1, GenerateStarts, CreateFollows DEF OrderInv
<1>3. CASE SetRouter
  <2>1. /\ UNCHANGED job
        /\ overlapped' = (overlapped \/ \E u \in Callers : job[u].do # "idle")
    BY <1>3 DEF SetRouter
  <2>2. Generating'
    BY <2>1 DEF Generating
  <2> QED
    BY <1>1, <2>2 DEF OrderInv
<1>4. ASSUME NEW t \in Workers, EnterTransaction(t) \/ ExitTransaction(t)
      PROVE  OrderInv'
  <2>1. /\ UNCHANGED <<connections, default, router, job, overlapped>> /\ Between(t)
        /\ \E n \in AllNames : pinned' = [pinned EXCEPT ![t][n] = connections[n]]
                               \/ pinned' = [pinned EXCEPT ![t][n] = None]
    BY <1>4 DEF EnterTransaction, ExitTransaction, NamedConnection, registry
  <2>2. \A u \in Callers : job[u].do = "generate" => u # t /\ u \in Tasks
    BY <2>1, RegistryAssumption DEF Between
  <2>3. \A u \in Tasks \ {t} : pinned'[u] = pinned[u]
    BY <1>1, <2>1 DEF TypeOK
  <2>4. Generating'
    BY <1>1, <2>1, <2>2, <2>3, GeneratingKept
  <2> QED
    BY <1>1, <2>4 DEF OrderInv
<1>5. CASE UNCHANGED vars
  <2>1. UNCHANGED <<connections, default, router, job, overlapped, pinned>>
    BY <1>5 DEF vars, registry
  <2>2. Generating'
    BY <1>1, <2>1, GeneratingKept
  <2> QED
    BY <1>1, <2>2 DEF OrderInv
<1> QED
  BY <1>2, <1>3, <1>4, <1>5 DEF Next, Otherwise

\* It holds at the start.
LEMMA OrderInit == Init => OrderInv
<1> SUFFICES ASSUME Init PROVE OrderInv
  OBVIOUS
<1>1. \A t \in Callers : job[t].do = "idle"
  BY IdleFacts DEF Init
<1> QED
  BY <1>1, RegistryInit DEF OrderInv, Generating

\* The tables created up to the next one include those it refers to.
LEMMA OrderGives ==
  ASSUME Acyclic, OrderInv
  PROVE  ReferencedFirst
<1> DEFINE table(t) == Head(job[t].tables)
<1> SUFFICES ASSUME ~overlapped, NEW t \in Callers, job[t].do = "generate", job[t].tables # <<>>,
                    NEW d \in Needs(table(t)),
                    GetExecutor(t, Owner(table(t)), TRUE, None) # None,
                    Route(d, TRUE) = Route(Owner(table(t)), TRUE)
             PROVE  <<GetExecutor(t, Owner(table(t)), TRUE, None), d>> \in job[t].created
  BY DEF ReferencedFirst
<1>1. RegistryInv /\ t \in Tasks
  BY RegistryAssumption DEF OrderInv
<1>2. PICK k \in 0 .. Len(Tables) : CreatedUpTo(t, k)
  BY DEF OrderInv, Generating
<1>3. /\ Tables \in Seq(All \cup DOMAIN Joins) /\ Len(Tables) \in Nat
      /\ \A i \in 1 .. Len(Tables) : Tables[i] \in All \cup DOMAIN Joins
      /\ \A i \in 1 .. Len(Tables) : \A x \in Needs(Tables[i]) : x \in All /\ \E j \in 1 .. i - 1 : Tables[j] = x
  <2>1. /\ Tables \in Seq(All \cup DOMAIN Joins)
        /\ \A i \in 1 .. Len(Tables) : \A x \in Needs(Tables[i]) : x \in All /\ \E j \in 1 .. i - 1 : Tables[j] = x
    BY TablesInOrder
  <2>2. Len(Tables) \in Nat /\ \A i \in 1 .. Len(Tables) : Tables[i] \in All \cup DOMAIN Joins
    BY TablesInOrder
  <2> QED
    BY <2>1, <2>2
<1>4. k + 1 \in 1 .. Len(Tables) /\ table(t) = Tables[k + 1]
  <2> DEFINE l == Len(Tables) - k
             f == [i \in 1 .. l |-> Tables[k + i]]
  <2>1. l \in Nat /\ job[t].tables = f
    BY <1>2, <1>3 DEF CreatedUpTo
  <2>2. \A i \in 1 .. l : Tables[k + i] \in All \cup DOMAIN Joins
    BY <1>3
  <2>3. f \in Seq(All \cup DOMAIN Joins) /\ Len(f) = l
    BY <2>1, <2>2
  <2>4. l >= 1
    BY <2>1, <2>3
  <2>5. Head(f) = Tables[k + 1]
    BY <2>3, <2>4
  <2> QED
    BY <1>3, <2>1, <2>4, <2>5
<1>5. PICK j \in 1 .. k : Tables[j] = d /\ d \in All
  <2>1. d \in All /\ \E j \in 1 .. (k + 1) - 1 : Tables[j] = d
    BY <1>3, <1>4
  <2> QED
    BY <2>1
<1>6. Owner(d) = d
  BY <1>5, ModelsAssumption DEF Owner, All
<1> DEFINE n == Route(d, TRUE)
<1>7. <<At(t, n), d>> \in job[t].created
  BY <1>2, <1>5, <1>6 DEF CreatedUpTo
<1>8. Owner(table(t)) \in ToSet(Models)
  BY <1>3, <1>4, ModelsAssumption DEF Owner, All
<1>9. GetExecutor(t, Owner(table(t)), TRUE, None) = At(t, n)
  BY <1>1, <1>8, ExecutorIs
<1> QED
  BY <1>7, <1>9

\* generate_schemas creates a table after every table it refers to and on the same
\* connection, whatever transaction its task is in, when the models can be ordered.
THEOREM ReferencedTablesFirst == ASSUME Acyclic PROVE Spec => []ReferencedFirst
<1>1. OrderInv /\ [Next]_vars => OrderInv'
  BY OrderNext
<1>2. OrderInv => ReferencedFirst
  BY OrderGives
<1> QED
  BY <1>1, <1>2, OrderInit, PTL DEF Spec

=============================================================================
