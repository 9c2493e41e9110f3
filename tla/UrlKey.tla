------------------------------- MODULE UrlKey -------------------------------
(***************************************************************************)
(* internal/reading/url.go: the canonical key of a URL a user submits, and *)
(* the source family that follows from a key.                              *)
(*                                                                         *)
(* A URL is the record url.Parse makes of it: scheme, user, host (its name,*)
(* a trailing dot, the port), path (segments and trailing slashes), query  *)
(* and fragment.  capitals says that the scheme and host are spelled with  *)
(* capital letters.  A key is a record of the same kind.                   *)
(***************************************************************************)
EXTENDS Integers, Sequences, FiniteSets

CONSTANT Spellings    \* the URLs whose keys are compared

NoPort    == 0
EmptyPort == -1     \* a colon with nothing after it

Invalid == [scheme |-> "none"]

YouTubeHosts   == {"m.youtube.com", "music.youtube.com", "youtube.com", "www.youtube.com", "youtu.be"}
RedditHosts    == {"old.reddit.com", "reddit.com", "www.reddit.com"}
TrackingParams == {"fbclid", "gclid", "ref", "utm_source"}
VideoIds       == {"ID", "watch", "a"}  \* what isYouTubeID lets through
MarkdownNames  == {"notes.md"}          \* segments with a markdown extension

\* A key is fetched over https; nothing else of the spelling is kept.
KeyOf(name, port, segs, slashes, query) ==
  [scheme |-> "https", capitals |-> FALSE, user |-> FALSE, name |-> name, dot |-> FALSE,
   port |-> port, segs |-> segs, slashes |-> slashes, query |-> query, fragment |-> FALSE]

defaultPort(scheme) == CASE scheme = "http" -> 80 [] scheme = "https" -> 443 [] OTHER -> NoPort

\* Mutant: the default port of https is taken off whatever the scheme is.
canonicalPort443(u) == IF u.port = 443 THEN NoPort ELSE u.port

canonicalPort(u) == IF u.port = defaultPort(u.scheme) THEN NoPort ELSE u.port

\* The root is a path of its own; any other path loses its trailing slashes,
\* also one that consists of slashes only.
canonicalSlashes(u) == IF u.segs = <<>> /\ u.slashes <= 1 THEN 1 ELSE 0

filteredQuery(query) == {p \in query : p[1] \notin TrackingParams}

VideoKey(id) == KeyOf("www.youtube.com", NoPort, <<"watch">>, 0, {<<"v", id>>})

youtubeShortKey(u) ==
  IF Len(u.segs) = 1 /\ u.segs[1] \in VideoIds THEN VideoKey(u.segs[1]) ELSE Invalid

youtubeWatchKey(u) ==
  IF \E id \in VideoIds : <<"v", id>> \in u.query
  THEN VideoKey(CHOOSE id \in VideoIds : <<"v", id>> \in u.query)
  ELSE Invalid

IsWatchPath(u) == u.segs = <<"watch">> /\ u.slashes = 0

URLKey(u) ==
  LET port == canonicalPort(u)
  IN  IF u.scheme \notin {"http", "https"} \/ u.name = "" \/ u.port = EmptyPort \/ u.user THEN Invalid
      ELSE IF u.name = "youtu.be" /\ port = NoPort THEN youtubeShortKey(u)
      ELSE IF u.name \in YouTubeHosts /\ port = NoPort /\ IsWatchPath(u) THEN youtubeWatchKey(u)
      ELSE KeyOf(u.name, port, u.segs, canonicalSlashes(u), filteredQuery(u.query))

\* ClassifySource is given a key; it strips the default port of https again.
ClassifySource(key) ==
  LET port == canonicalPort(key)
  IN  IF /\ key.name = "www.youtube.com" /\ port = NoPort /\ IsWatchPath(key)
         /\ \E id \in VideoIds : <<"v", id>> \in key.query
      THEN "youtube"
      ELSE IF key.name \in RedditHosts /\ port = NoPort THEN "reddit"
      ELSE IF key.segs # <<>> /\ key.segs[Len(key.segs)] \in MarkdownNames THEN "markdown"
      ELSE "web"

-----------------------------------------------------------------------------
(* What a key is for, said without keys: two spellings of one page. *)

Fetchable(u) == u.scheme \in {"http", "https"} /\ u.name # "" /\ u.port # EmptyPort /\ ~u.user

Server(u)  == <<u.name, IF u.port \in {NoPort, defaultPort(u.scheme)} THEN "default" ELSE "other">>
Content(q) == {p \in q : p[1] \notin TrackingParams}

\* The video a URL shows, if any.
Videos(u) ==
  {id \in VideoIds :
     /\ Server(u)[2] = "default"
     /\ \/ u.name = "youtu.be" /\ u.segs = <<id>>
        \/ u.name \in YouTubeHosts \ {"youtu.be"} /\ IsWatchPath(u) /\ <<"v", id>> \in u.query}

\* http and https, the default port, letter case and a final dot of the host,
\* a trailing slash, tracking parameters and the fragment make no difference.
SamePage(u, v) ==
  \/ Videos(u) \cap Videos(v) # {}
  \/ /\ Fetchable(u) /\ Fetchable(v)
     /\ Videos(u) = {} /\ Videos(v) = {}
     /\ Server(u) = Server(v) /\ (Server(u)[2] = "other" => u.port = v.port)
     /\ u.segs = v.segs
     /\ Content(u.query) = Content(v.query)

\* Two URLs have one key exactly when they show one page, for all spellings
\* that have a key (TestURLKey states single cases).
KeyIsPage ==
  \A u, v \in Spellings :
    URLKey(u) # Invalid /\ URLKey(v) # Invalid => (URLKey(u) = URLKey(v) <=> SamePage(u, v))
=============================================================================
