----------------------------- MODULE MCSchema -----------------------------
(* Model declarations for TLC: three tables with a reference, a unique     *)
(* column, a key that moves, a column that is renamed and one that is      *)
(* replaced by two like it.                                                *)
EXTENDS SchemaHistory

Field(type) == [type |-> type, null |-> FALSE, default |-> "", unique |-> FALSE, pk |-> FALSE,
                index |-> FALSE, fk |-> NoTable]
Nullable(f) == [f EXCEPT !.null = TRUE]
Key == [Field("int") EXCEPT !.pk = TRUE]
Indexed(f) == [f EXCEPT !.index = TRUE]
Unique(f) == [f EXCEPT !.unique = TRUE]
To(t) == [Indexed(Field("int")) EXCEPT !.fk = t]
Plain(fields) == [fields |-> fields, cpk |-> <<>>, composite |-> <<>>, constraints |-> {}]

Name == Nullable(Field("char"))
Bio == "id" :> Key @@ "bio" :> Field("text")
Names(c) == Plain(Bio @@ c)
OneTitle == [kind |-> "unique", name |-> "one_title", cols |-> <<"title", "author_id">>]
Short == [kind |-> "check", name |-> "short", cols |-> <<"label">>]
Title == [Nullable(Field("text")) EXCEPT !.default = "untitled"]
Book(title, ref) ==
  Plain("id" :> Key @@ "title" :> title @@ "author_id" :> ref)
Tag(code, label) == Plain("code" :> code @@ "label" :> label)

ByCode == Tag([Field("char") EXCEPT !.pk = TRUE], Field("char"))
ByLabel == Tag(Field("char"), [Field("char") EXCEPT !.pk = TRUE])

First ==
  "author" :> Names("name" :> Indexed(Name)) @@
  "book" :> [Book(Field("char"), To("author")) EXCEPT
               !.composite = "by_title" :> <<"title", "author_id">>] @@
  "tag" :> ByCode
Second ==
  "author" :> Names("name" :> Name) @@
  "book" :> [Book(Unique(Title), To(NoTable)) EXCEPT !.constraints = {OneTitle}] @@
  "tag" :> ByLabel
Third ==
  "author" :> Names("fullname" :> Indexed(Name)) @@
  "book" :> [Book(Field("char"), To("author")) EXCEPT
               !.composite = "by_title" :> <<"author_id">>] @@
  "tag" :> ByCode
Fourth ==
  "author" :> Names("first" :> Name @@ "last" :> Name) @@
  "tag" :> [ByCode EXCEPT !.constraints = {Short}]

MCDeclarations == {First, Second, Third, Fourth}
MCByHand ==
  {RenameModel("tag", "label"), RenameField("author", "bio", "about"),
   RenameConstraint("book", "one_title", "single_title"), RunSQL}

\* The column and the index over it go in one edit.
Untitled ==
  "author" :> Names("name" :> Indexed(Name)) @@
  "book" :> Plain("id" :> Key @@ "author_id" :> To("author"))
MCColumnAndIndex == {First, Untitled}
MCPostgres == {"postgres"}
MCSQLite == {"sqlite"}
MCDatabases == {"postgres", "sqlite", "mysql", "oracle", "mssql"}
=============================================================================
