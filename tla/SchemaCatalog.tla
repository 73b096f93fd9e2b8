--------------------------- MODULE SchemaCatalog ---------------------------
(***************************************************************************)
(* What a database does with the statements of SchemaSql: why it refuses   *)
(* one, and the catalog it has afterwards.  None of this is the ORM's      *)
(* code; it is modelled from what each database documents.                 *)
(***************************************************************************)
EXTENDS SchemaSql

Covers(obj, c) == c \in ToSet(obj.cols)

\* Where a name must be unique: in its table, in the schema, or nowhere.
Scope(d, type) ==
    CASE d = "sqlite"   -> IF type = "index" THEN "schema" ELSE "none"
      [] d = "postgres" -> IF type \in {"check", "fk"} THEN "table" ELSE "schema"
      [] d = "mysql"    -> IF type \in {"check", "fk"} THEN "schema" ELSE "table"
      [] d = "mssql"    -> IF type = "index" THEN "table" ELSE "schema"
      [] d = "oracle"   -> "schema"

Taken(d, db, t, obj) ==
    \E u \in DOMAIN db : \E other \in db[u].objs :
      /\ other.name = obj.name
      /\ CASE Scope(d, obj.type) = "none" -> FALSE
           [] Scope(d, obj.type) = "table" -> u = t
           [] Scope(d, obj.type) = "schema" ->
                u = t \/ Scope(d, other.type) = "schema"

ReferredTo(db, t) == \E u \in DOMAIN db \ {t} : \E obj \in db[u].objs : obj.ref = t

\* The tables a new object needs; SQLite resolves a reference when rows are written.
Missing(d, db, t, objs) ==
    d # "sqlite" /\ \E obj \in objs : obj.ref # NoTable /\ obj.ref \notin DOMAIN db \cup {t}

(***************************************************************************)
(* Why a statement is refused, "" if it is not.                            *)
(***************************************************************************)
Refusal(d, st, db) ==
    LET here == db[st.table]
        has == DOMAIN here.cols
    IN CASE st.st = "raise" -> "unsupported"
         [] st.st = "create table" ->
              IF st.table \in DOMAIN db THEN (IF st.safe THEN "" ELSE "table exists")
              ELSE IF Missing(d, db, st.table, st.objs) THEN "no such table"
              ELSE IF \E obj \in st.objs : Taken(d, db, st.table, obj) THEN "name exists"
              ELSE IF \E obj \in st.objs : \E c \in ToSet(obj.cols) : c \notin DOMAIN st.cols
                   THEN "no such column" ELSE ""
         [] st.st = "drop table" ->
              IF d \in {"mysql", "mssql"} /\ ReferredTo(db, st.table) THEN "referred to" ELSE ""
         [] st.st = "rename table" ->
              IF st.old \notin DOMAIN db THEN "no such table"
              ELSE IF st.new \in DOMAIN db THEN "table exists" ELSE ""
         [] st.st = "copy" ->
              IF st.cols \subseteq DOMAIN db[st.from].cols THEN "" ELSE "no such column"
         [] st.st \notin {"raise", "create table", "drop table", "rename table", "copy"}
            /\ st.table \notin DOMAIN db -> "no such table"
         [] st.st = "add column" /\ st.table \in DOMAIN db ->
              IF st.name \in has THEN (IF st.safe THEN "" ELSE "column exists")
              ELSE IF d = "sqlite" /\ st.objs # {} THEN "unique column"
              ELSE IF d # "mysql" /\ ~st.def.null /\ st.def.default = "" THEN "null value"
              ELSE ""
         [] st.st = "drop column" /\ st.table \in DOMAIN db ->
              IF st.name \notin has THEN (IF st.safe THEN "" ELSE "no such column")
              ELSE IF d \in {"sqlite", "mssql"} /\ \E obj \in here.objs : Covers(obj, st.name)
                   THEN "covered" ELSE ""
         [] st.st = "rename column" /\ st.table \in DOMAIN db ->
              IF st.old \notin has THEN "no such column"
              ELSE IF st.new \in has THEN "column exists" ELSE ""
         [] st.st = "set" /\ st.table \in DOMAIN db ->
              IF st.name \notin has THEN "no such column"
              ELSE IF d = "mssql" /\ \E obj \in here.objs : Covers(obj, st.name)
                   THEN "covered" ELSE ""
         [] st.st = "add" /\ st.table \in DOMAIN db ->
              IF Taken(d, db, st.table, st.obj) THEN (IF st.safe THEN "" ELSE "name exists")
              ELSE IF \E c \in ToSet(st.obj.cols) : c \notin has THEN "no such column"
              ELSE IF Missing(d, db, st.table, {st.obj}) THEN "no such table"
              ELSE IF st.obj.type = "pk" /\ \E obj \in here.objs : obj.type = "pk"
                   THEN "two keys" ELSE ""
         [] st.st = "drop" /\ st.table \in DOMAIN db ->
              IF st.name \in {obj.name : obj \in here.objs} \/ st.safe THEN "" ELSE "no such name"
         [] st.st = "rename" /\ st.table \in DOMAIN db ->
              IF st.old \notin {obj.name : obj \in here.objs}
              THEN (IF st.safe THEN "" ELSE "no such name")
              ELSE IF \E obj \in here.objs :
                        obj.name = st.old /\ Taken(d, db, st.table, [obj EXCEPT !.name = st.new])
                   THEN "name exists" ELSE ""

\* Foreign keys follow a table that is renamed, and go with a cascade.
Referring(db, old, new) ==
    [u \in DOMAIN db |-> [db[u] EXCEPT
        !.objs = {IF obj.ref = old THEN [obj EXCEPT !.ref = new] ELSE obj : obj \in @}]]

DroppedTable(db, t, cascade) ==
    [u \in DOMAIN db \ {t} |-> [db[u] EXCEPT
        !.objs = {obj \in @ : ~(cascade /\ obj.ref = t)}]]

\* What is left of an object when one of its columns goes: MySQL narrows an index.
Narrowed(d, objs, c) ==
    IF d = "mysql"
    THEN {[obj EXCEPT !.cols = SelectSeq(@, LAMBDA x : x # c)] :
             obj \in {o \in objs : ToSet(o.cols) # {c}}}
    ELSE {obj \in objs : ~Covers(obj, c)}

Effect(d, st, db) ==
    CASE st.st = "create table" ->
           IF st.table \in DOMAIN db THEN db
           ELSE (st.table :> [cols |-> [c \in DOMAIN st.cols |->
                    ("data" :> <<>>) @@ st.cols[c]], objs |-> st.objs]) @@ db
      [] st.st = "drop table" -> DroppedTable(db, st.table, st.cascade)
      [] st.st = "rename table" -> Referring(RenameKey(db, st.old, st.new), st.old, st.new)
      [] st.st = "copy" ->
           [db EXCEPT ![st.to].cols = [c \in DOMAIN @ |->
               IF c \in st.cols THEN [@[c] EXCEPT !.data = db[st.from].cols[c].data] ELSE @[c]]]
      [] st.st = "add column" ->
           IF st.name \in DOMAIN db[st.table].cols THEN db
           ELSE [db EXCEPT
               ![st.table].cols = (st.name :> (("data" :> <<>>) @@ st.def)) @@ @,
               ![st.table].objs = @ \cup st.objs]
      [] st.st = "drop column" ->
           [db EXCEPT ![st.table].cols = Restrict(@, DOMAIN @ \ {st.name}),
                      ![st.table].objs = Narrowed(d, @, st.name)]
      [] st.st = "rename column" ->
           [db EXCEPT ![st.table].cols = RenameKey(@, st.old, st.new),
                      ![st.table].objs = {[obj EXCEPT !.cols = Follow(@, st.old, st.new)] :
                                             obj \in @}]
      [] st.st = "set" ->
           [db EXCEPT ![st.table].cols[st.name] =
               [p \in DOMAIN @ |-> IF p \in st.parts THEN st.def[p] ELSE @[p]]]
      [] st.st = "add" ->
           IF Taken(d, db, st.table, st.obj) THEN db
           ELSE [db EXCEPT ![st.table].objs = @ \cup {st.obj}]
      [] st.st = "drop" ->
           [db EXCEPT ![st.table].objs = {obj \in @ : obj.name # st.name}]
      [] st.st = "rename" ->
           [db EXCEPT ![st.table].objs = {IF obj.name = st.old
               THEN [obj EXCEPT !.name = st.new] ELSE obj : obj \in @}]

\* The statements of an operation up to the first that is refused.
Run(d, statements, db) ==
    FoldLeft(LAMBDA acc, st :
               IF acc.refused # "" THEN acc
               ELSE LET why == Refusal(d, st, acc.db)
                    IN IF why = "" THEN [acc EXCEPT !.db = Effect(d, st, @)]
                                   ELSE [acc EXCEPT !.refused = why],
             [db |-> db, refused |-> ""], statements)
=============================================================================
