------------------------------ MODULE MCSearch -------------------------------
(* Three readings, two times and two lower-case titles, pages of one and two. *)
EXTENDS Search

MCLowered == [a |-> 1, A |-> 1, b |-> 2]

Listing(sort, text, status, tags, limit) ==
  [sort |-> sort, text |-> text, status |-> status, tags |-> tags, limit |-> limit]

MCQueries ==
  {Listing(sort, FALSE, "", {}, limit) : sort \in {"newest", "oldest", "title"}, limit \in 1 .. 2}
  \cup {Listing("newest", TRUE, "", {}, 1), Listing("oldest", TRUE, "", {}, 2)}
  \cup {Listing("newest", FALSE, "ready", {}, 1), Listing("newest", FALSE, "", {"tag"}, 1)}
==============================================================================
