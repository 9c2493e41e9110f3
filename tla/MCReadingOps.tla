---------------------------- MODULE MCReadingOps ----------------------------
EXTENDS ReaderCtl, TLC

Spelled(scheme, name, port, segs, slashes, query) ==
  [scheme |-> scheme, capitals |-> FALSE, user |-> FALSE, name |-> name, dot |-> FALSE, port |-> port,
   segs |-> segs, slashes |-> slashes, query |-> query, fragment |-> FALSE]

\* http://h:80/notes.md?ref=x and https://h/notes.md/
OnePage == {Spelled("http", "h", 80, <<"notes.md">>, 0, {<<"ref", "x">>}),
            Spelled("https", "h", NoPort, <<"notes.md">>, 1, {})}

Queries == {{}, {<<"v", "ID">>}, {<<"v", "ID">>, <<"ref", "x">>}, {<<"v", "?">>}}

\* A watch path with a trailing slash is left out (README, section 12).
ManySpellings ==
  {u \in {Spelled(t[1], t[2], t[3], t[4], t[5], t[6]) :
            t \in {"http", "https"} \X {"h", "youtu.be", "youtube.com", "www.youtube.com"}
                  \X {NoPort, 80, 443} \X {<<>>, <<"watch">>, <<"ID">>} \X {0, 1} \X Queries} :
     u.segs = <<"watch">> => u.slashes = 0}

Symmetry == Permutations(Requests)
=============================================================================
