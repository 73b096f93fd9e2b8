------------------------------ MODULE MCQuery ------------------------------
(***************************************************************************)
(* Authors, their books and their tags, two databases of at most three     *)
(* rows a table, with NULL names, titles and authors among them.           *)
(***************************************************************************)
EXTENDS QueryUse

MCColumns == [author |-> {"name"}, book |-> {"title", "author_id"}, tag |-> {}]

MCRelations ==
  [author |-> [books |-> [kind |-> "reverse", model |-> "book", near |-> "author_id"],
               tags |-> [kind |-> "m2m", model |-> "tag", near |-> "author", far |-> "tag", declared |-> TRUE]],
   book |-> [author |-> [kind |-> "forward", model |-> "author", near |-> "author_id"]],
   tag |-> [authors |-> [kind |-> "m2m", model |-> "author", near |-> "tag", far |-> "author", declared |-> FALSE]]]

MCOrdering == [author |-> <<Key(<<"name">>, FALSE)>>, book |-> <<>>, tag |-> <<>>]

World(names, books, links) ==
  [author |-> {[id |-> i, name |-> names[i]] : i \in DOMAIN names},
   book |-> {[id |-> i, title |-> books[i][1], author_id |-> books[i][2]] : i \in DOMAIN books},
   tag |-> {[id |-> 1], [id |-> 2]},
   through |-> {[author |-> l[1], tag |-> l[2]] : l \in links}]
MCWorlds ==
  {World(<<0, Null>>, <<<<0, 1>>, <<1, 1>>, <<0, Null>>>>, {<<1, 1>>, <<1, 2>>, <<2, 1>>}),
   World(<<Null, 1, 1>>, <<<<1, Null>>, <<0, 2>>, <<Null, 3>>>>, {<<2, 1>>, <<2, 2>>, <<3, 2>>})}

L(path, op, value) == [path |-> path, op |-> op, value |-> value]
Leaf(l) == Q(<<l>>, <<>>, "AND")
Or(k, l) == Q(<<>>, <<Leaf(k), Leaf(l)>>, "OR")
Call1(l) == [args |-> <<>>, lookups |-> <<l>>]
CallQ(q) == [args |-> <<q>>, lookups |-> <<>>]

MCFilterCalls ==
  [author |->
     {Call1(L(<<"name">>, "exact", 0)),
      Call1(L(<<"books">>, "isnull", TRUE)), Call1(L(<<"books", "title">>, "not_in", {0})),
      Call1(L(<<"tags">>, "not", 1)), Call1(L(<<"n">>, "gt", 1)),
      [args |-> <<>>, lookups |-> <<L(<<"n">>, "gt", 0), L(<<"t">>, "lte", 1)>>],
      CallQ(Or(L(<<"name">>, "exact", 1), L(<<"tags">>, "in", {2})))},
   book |->
     {Call1(L(<<"title">>, "not", 1)),
      Call1(L(<<"author">>, "exact", Null)),
      Call1(L(<<"author", "tags">>, "exact", 1)), Call1(L(<<"title">>, "column", "author_id")),
      CallQ(Q(<<L(<<"title">>, "lte", 0), L(<<"author_id">>, "in", {2})>>, <<>>, "OR")),
      CallQ(Q(<<L(<<"title">>, "exact", 0)>>, <<Invert(Leaf(L(<<"author">>, "exact", 1)))>>, "AND"))},
   tag |->
     {Call1(L(<<"authors">>, "not_isnull", TRUE)), Call1(L(<<"authors", "name">>, "not", 0)),
      Call1(L(<<"authors", "books">>, "isnull", FALSE))}]

MCOrderCalls ==
  [author |-> {<<Key(<<"name">>, TRUE), Key(<<"id">>, FALSE)>>, <<Key(<<"n">>, TRUE)>>},
   book |-> {<<Key(<<"author", "name">>, FALSE), Key(<<"title">>, TRUE)>>},
   tag |-> {<<Key(<<"id">>, TRUE)>>}]
MCAnnotateCalls ==
  [author |-> {<<"n", Count("books", FALSE)>>, <<"t", Count("tags", TRUE)>>},
   book |-> {<<"n", Count("id", FALSE)>>}, tag |-> {<<"n", Count("authors", FALSE)>>}]
MCGroupCalls == [author |-> {<<"name">>}, book |-> {<<"title">>, <<"author", "name">>}, tag |-> {}]
MCRelatedCalls == [author |-> {}, book |-> {"author"}, tag |-> {}]
MCSlices == {<<0, 1>>, <<1, Null>>, <<2, 1>>}
MCUpdates == [author |-> {<<"name", 0>>}, book |-> {<<"author_id", Null>>, <<"title", 1>>}, tag |-> {}]
MCCreateCalls ==
  [author |-> {<<Exactly("name", 1)>>, <<Exactly("name", Null)>>},
   book |-> {<<Exactly("title", 0)>>, <<Exactly("author", Null)>>}, tag |-> {<<Exactly("id", 3)>>}]

=============================================================================
