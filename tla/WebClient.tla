------------------------------- MODULE WebClient -------------------------------
(***************************************************************************)
(* web/src/App.tsx: the detail view of one reading, the token, and the     *)
(* whole client with the list of ClientList.                               *)
(*                                                                         *)
(* A detail request loads the reading and, once it is ready, its content;  *)
(* both have one number, the last number counts.  Selecting another        *)
(* reading, going back and changing the token overtake all the requests of *)
(* the view; an acknowledged reprocess overtakes those of the list too.    *)
(***************************************************************************)
EXTENDS ClientList

VARIABLES
  selected,    \* the reading whose detail is shown
  detail,      \* what was loaded of it, NoDetail before
  loading,     \* detailLoading
  content,     \* contentState, and the version of the text that is shown
  ask,         \* the detail or content request with the last number
  fetching,    \* detailFetchInFlight
  raw,         \* the download of the raw source with the last number
  posts,       \* the reprocess requests on their way
  own          \* history: the version this view saw acknowledged

detailVars == <<selected, detail, loading, content, ask, fetching, raw, posts, own>>
vars == <<listVars, detailVars>>

NoId     == 0
NoDetail == [status |-> "none"]
NoAsk    == [kind |-> "none"]
NoRaw    == [id |-> NoId]
IdleContent == [state |-> "idle"]

reprocessInFlight == \E p \in posts : p.mine
Abandoned == {[p EXCEPT !.mine = FALSE] : p \in posts}

-----------------------------------------------------------------------------
(* The requests of the view *)

fetchContent(id) ==
  /\ ask' = [kind |-> "content", id |-> id, token |-> token, doc |-> Waiting]
  /\ content' = [state |-> "loading"]

fetchDetail(id) ==
  /\ ask' = [kind |-> "detail", id |-> id, token |-> token, doc |-> Waiting]
  /\ fetching' = TRUE /\ loading' = TRUE

\* The server shows a reading that has been waiting or running for too long
\* as failed.  There is a content when the reading is ready.
Details(id) ==
  {[id |-> id, status |-> status, version |-> server[id].version] :
     status \in {server[id].status} \cup (IF server[id].status = "pending" THEN {"failed"} ELSE {})}
Content(id) ==
  IF server[id].status = "ready" THEN Answered(server[id].version) ELSE Missing

canReprocess(d) == d.status \in {"ready", "failed"}

ServeDetail ==
  /\ ask # NoAsk /\ ask.doc = Waiting
  /\ \E would \in IF ask.kind = "detail" THEN {Answered(d) : d \in Details(ask.id)}
                  ELSE {Content(ask.id)} :
       \E answer \in Reply(ask.token, would) :
         Replied(answer) /\ ask' = [ask EXCEPT !.doc = answer]
  /\ UNCHANGED <<server, token, view, current, busy, shared, submit, past>>
  /\ UNCHANGED <<selected, detail, loading, content, fetching, raw, posts, own>>

\* Mutant: a request that failed stays the one in flight.
DeliverDetailStuck ==
  /\ ask.kind = "detail" /\ ask.doc # Waiting
  /\ loading' = FALSE
  /\ IF ask.doc.is # "ok" THEN ask' = NoAsk /\ UNCHANGED <<detail, content, fetching>>
     ELSE /\ detail' = ask.doc.what /\ fetching' = FALSE
          /\ IF detail'.status = "ready" THEN fetchContent(ask.id)
             ELSE ask' = NoAsk /\ content' = IdleContent
  /\ UNCHANGED listVars /\ UNCHANGED <<selected, raw, posts, own>>

DeliverDetail ==
  /\ ask.kind = "detail" /\ ask.doc # Waiting
  /\ fetching' = FALSE /\ loading' = FALSE
  /\ IF ask.doc.is # "ok" THEN ask' = NoAsk /\ UNCHANGED <<detail, content>>
     ELSE /\ detail' = ask.doc.what
          /\ IF detail'.status = "ready" THEN fetchContent(ask.id)
             ELSE ask' = NoAsk /\ content' = IdleContent
  /\ UNCHANGED listVars /\ UNCHANGED <<selected, raw, posts, own>>

DeliverContent ==
  /\ ask.kind = "content" /\ ask.doc # Waiting
  /\ ask' = NoAsk
  /\ content' = CASE ask.doc.is = "ok" -> [state |-> "ready", version |-> ask.doc.what]
                  [] ask.doc = Missing -> [state |-> "missing"]
                  [] OTHER -> [state |-> "error"]
  /\ UNCHANGED listVars /\ UNCHANGED <<selected, detail, loading, fetching, raw, posts, own>>

handleRetryContent ==
  /\ selected # NoId /\ detail.status = "ready" /\ content.state = "error"
  /\ Event
  /\ fetching' = FALSE
  /\ fetchContent(selected)
  /\ UNCHANGED <<server, token, view, current, busy, shared, submit, past>>
  /\ UNCHANGED <<selected, detail, loading, raw, posts, own>>

\* The timer of the detail view.
PollDetail ==
  /\ selected # NoId /\ detail.status = "pending" /\ token # NoToken
  /\ ~fetching
  /\ fetchDetail(selected)
  /\ UNCHANGED listVars /\ UNCHANGED <<selected, detail, content, raw, posts, own>>

-----------------------------------------------------------------------------
(* What the user does *)

handleSelectReading(id) ==
  /\ id \in ShownIds
  /\ Event
  /\ selected' = id /\ detail' = NoDetail /\ content' = IdleContent
  /\ raw' = NoRaw /\ posts' = Abandoned /\ own' = 0
  /\ fetchDetail(id)
  /\ UNCHANGED <<server, token, view, current, busy, shared, submit, past>>

\* Mutant: the download for the reading that was shown is not given up.
handleBackKeepingRaw ==
  /\ selected' = NoId /\ detail' = NoDetail /\ content' = IdleContent
  /\ loading' = FALSE /\ ask' = NoAsk /\ fetching' = FALSE
  /\ posts' = Abandoned /\ own' = 0
  /\ UNCHANGED raw

handleBackToList ==
  /\ selected' = NoId /\ detail' = NoDetail /\ content' = IdleContent
  /\ loading' = FALSE /\ ask' = NoAsk /\ fetching' = FALSE
  /\ raw' = NoRaw /\ posts' = Abandoned /\ own' = 0

\* As often as a reading is selected: it needs no bound of its own.
Back ==
  /\ selected # NoId
  /\ handleBackToList
  /\ UNCHANGED <<server, token, view, current, busy, shared, submit, count, past>>

\* Save token, Clear token.
SaveToken(t) ==
  /\ Event
  /\ token' = t
  /\ IF t # token THEN handleBackToList ELSE UNCHANGED detailVars
  /\ loadReadings(t, NoCursor)
  /\ past' = [past EXCEPT !.dropped = TRUE]
  /\ UNCHANGED <<server, submit>>

handleDownloadRaw ==
  /\ selected # NoId /\ detail # NoDetail /\ raw = NoRaw
  /\ Event
  /\ raw' = [id |-> selected]
  /\ UNCHANGED <<server, token, view, current, busy, shared, submit, past>>
  /\ UNCHANGED <<selected, detail, loading, content, ask, fetching, posts, own>>

\* It is saved, or it failed.
DeliverRaw ==
  /\ raw # NoRaw
  /\ raw' = NoRaw
  /\ UNCHANGED listVars
  /\ UNCHANGED <<selected, detail, loading, content, ask, fetching, posts, own>>

-----------------------------------------------------------------------------
(* handleReprocess *)

ReprocessClick ==
  /\ selected # NoId /\ ~reprocessInFlight
  /\ detail # NoDetail /\ canReprocess(detail)
  /\ Event
  /\ posts' = posts \cup {[id |-> selected, token |-> token, mine |-> TRUE, doc |-> Waiting]}
  /\ UNCHANGED <<server, token, view, current, busy, shared, submit, past>>
  /\ UNCHANGED <<selected, detail, loading, content, ask, fetching, raw, own>>

\* Reprocess on the server: a reading that waits or runs is left alone, unless
\* that is for too long.  The reset may be done although the answer is lost.
ReprocessServe(p) ==
  /\ p.doc = Waiting
  /\ \E version \in {server[p.id].version + 1}
                    \cup (IF server[p.id].status = "pending" THEN {server[p.id].version} ELSE {}) :
       \E answer \in Reply(p.token, Answered(version)) :
         /\ Replied(answer)
         /\ posts' = (posts \ {p}) \cup {[p EXCEPT !.doc = answer]}
         /\ \/ answer # Denied
               /\ server' = [server EXCEPT ![p.id] = [status |-> "pending", version |-> version]]
            \/ answer.is # "ok" /\ UNCHANGED server
  /\ UNCHANGED <<token, view, current, busy, shared, submit, past>>
  /\ UNCHANGED <<selected, detail, loading, content, ask, fetching, raw, own>>

\* Mutant: the content that is shown stays.
ResetDetailOnly(version) ==
  /\ detail' = [detail EXCEPT !.status = "pending", !.version = version]
  /\ ask' = NoAsk /\ fetching' = FALSE /\ raw' = NoRaw
  /\ own' = version
  /\ UNCHANGED content

ResetDetail(version) ==
  /\ detail' = [detail EXCEPT !.status = "pending", !.version = version]
  /\ content' = IdleContent
  /\ ask' = NoAsk /\ fetching' = FALSE /\ raw' = NoRaw
  /\ own' = version

\* Acknowledged: for the list always, for the detail view if that is still the
\* one the request was made in, for nothing if the token is another.
ReprocessAck(p) ==
  /\ p.doc.is = "ok"
  /\ posts' = posts \ {p}
  /\ IF p.token = token THEN ListReset(p.id, p.doc.what)
     ELSE UNCHANGED <<view, current, busy, shared, past>>
  /\ IF p.token = token /\ p.mine THEN ResetDetail(p.doc.what)
     ELSE UNCHANGED <<detail, content, ask, fetching, raw, own>>
  /\ UNCHANGED <<server, token, submit, count, selected, loading>>

ReprocessFail(p) ==
  /\ p.doc.is \in {"failed", "unauthorized"}
  /\ posts' = posts \ {p}
  /\ UNCHANGED listVars
  /\ UNCHANGED <<selected, detail, loading, content, ask, fetching, raw, own>>

-----------------------------------------------------------------------------

Init ==
  /\ ListInit
  /\ selected = NoId /\ detail = NoDetail /\ loading = FALSE /\ content = IdleContent
  /\ ask = NoAsk /\ fetching = FALSE /\ raw = NoRaw /\ posts = {} /\ own = 0

ListNext == ListStep /\ UNCHANGED detailVars

DetailNext ==
  \/ ServeDetail \/ DeliverDetail \/ DeliverContent \/ PollDetail \/ DeliverRaw
  \/ handleRetryContent \/ handleDownloadRaw \/ Back \/ ReprocessClick
  \/ \E id \in Ids : handleSelectReading(id)
  \/ \E t \in Tokens : SaveToken(t)
  \/ \E p \in posts : ReprocessServe(p) \/ ReprocessAck(p) \/ ReprocessFail(p)

Next == ListNext \/ DetailNext

\* The timers fire, requests are answered and answers handled, for the list and
\* for the detail view, and the server's runs end.  The user need do nothing.
Fairness ==
  /\ WF_vars((Poll \/ ServeList \/ DeliverList) /\ UNCHANGED detailVars)
  /\ WF_vars(PollDetail \/ ServeDetail \/ DeliverDetail \/ DeliverContent)
  /\ WF_vars((\E id \in Ids : Settle(id)) /\ UNCHANGED detailVars)

Spec == Init /\ [][Next]_vars /\ Fairness

-----------------------------------------------------------------------------
(* Properties *)

TypeOK ==
  /\ ShownIds \subseteq Ids
  /\ current # NoRequest => current.kind \in {"first", "more", "refresh"}
                            /\ current.pages \in 1 .. MaxId
  /\ selected \in Ids \cup {NoId}
  /\ detail # NoDetail => detail.status \in {"pending", "ready", "failed"}
  /\ content.state \in {"idle", "loading", "ready", "missing", "error"}
  /\ ask.kind \in {"none", "detail", "content"}
  /\ {loading, fetching, busy} \subseteq BOOLEAN

\* Everything in the detail view, and every request that may still change it,
\* is of the reading that is selected, and of the token that is stored: a late
\* answer never shows under another reading, and an answer to a good token
\* never in the list after another was saved (App.tsx detailRequestID,
\* rawRequestID, reprocessRequestID, readingsRequestID).
ViewIsOfSelected ==
  /\ detail # NoDetail => detail.id = selected
  /\ ask # NoAsk => ask.id = selected /\ ask.token = token
  /\ raw # NoRaw => raw.id = selected
  /\ \A p \in posts : p.mine => p.id = selected /\ p.token = token
  /\ \A p, q \in posts : p.mine /\ q.mine => p = q
  /\ current # NoRequest => current.token = token
  /\ view.readings # << >> => token = "good"

\* A reading that is ready has its content shown or on its way, nothing else
\* has, and the text is not older than the reading it is shown with.
ContentOfReady ==
  /\ content.state # "idle" <=> detail.status = "ready"
  /\ content.state = "ready" => content.version >= detail.version
  /\ content.state = "loading" <=> ask.kind = "content"

\* In the detail view, once a reprocess was acknowledged there: what is shown of
\* the reading and its content are from after it.  A submit from the form does
\* not touch this view (App.tsx handleSubmitURL).
DetailReadsYourWrites ==
  /\ detail # NoDetail => detail.version >= own
  /\ content.state = "ready" => content.version >= own

\* Read your writes: once a submit or a reprocess was acknowledged, no answer to a
\* question from before it comes to be shown, be it a page, the reading or its
\* content.  What a submit finds on the screen stays until the next answer.
ReadYourWrites == ListReadsYourWrites /\ DetailReadsYourWrites

AtRest ==
  /\ ~hasProcessingReadings(view.readings) /\ detail.status # "pending"
  /\ ~loading /\ content.state # "loading"
  /\ ~busy /\ ~view.loading /\ ~view.loadingMore

\* A reading shown as being processed is not shown so for ever when it has
\* ended, in the list or in the detail view, and neither view stays loading:
\* what a request holds back (the buttons, the timers) is free again when it
\* ends, whatever has overtaken it.
CatchesUp == []<>AtRest
================================================================================
