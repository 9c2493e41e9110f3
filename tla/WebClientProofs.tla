---------------------------- MODULE WebClientProofs ----------------------------
(***************************************************************************)
(* The client for any number of readings, clicks and failures, and any     *)
(* page size, whatever order answers come in.  What it shows is of the     *)
(* reading that is selected and of the token that is stored                *)
(* (ViewIsOfSelected), a content is not older than its reading             *)
(* (ContentOfReady), the list is pages (ListIsPages), and neither view     *)
(* shows what was asked for before a write was acknowledged                *)
(* (ReadYourWrites).                                                       *)
(*                                                                         *)
(* None is inductive: an answer is shown when it comes, so it has to be    *)
(* the right one, and new enough, while it is on its way.  Owned says so   *)
(* of whose answer it is, Fresh of how old it is in the detail view, and   *)
(* Paged of what it holds in the list.                                     *)
(***************************************************************************)
EXTENDS WebClient, FiniteSetTheorems, TLAPS

-----------------------------------------------------------------------------
(* The fields of the records, whatever their values *)

IsView(v) ==
  \E readings, next, cursors, first, more, error :
    v = [readings |-> readings, next |-> next, cursors |-> cursors,
         loading |-> first, loadingMore |-> more, error |-> error]

IsRequest(q) ==
  \E kind, t, cursor, bypass, answer, pages, rows, cursors :
    /\ q = [kind |-> kind, token |-> t, cursor |-> cursor, bypass |-> bypass, own |-> answer,
            pages |-> pages, rows |-> rows, cursors |-> cursors]
    /\ kind # "none"

IsShared(f) == \E t, cursor, doc : f = [token |-> t, cursor |-> cursor, doc |-> doc]

IsAsk(a) == \E kind, id, t, doc : a = [kind |-> kind, id |-> id, token |-> t, doc |-> doc]

IsPost(p) == \E id, t, mine, doc : p = [id |-> id, token |-> t, mine |-> mine, doc |-> doc]

IsDetail(d) == \E id, status, version : d = [id |-> id, status |-> status, version |-> version]

-----------------------------------------------------------------------------
(* The invariant *)

\* The list: a request is made with the token that is stored, and pages come
\* with a good token only.
RequestOwned(q, t) ==
  /\ IsRequest(q)
  /\ q.token = t
  /\ q.own.is = "ok" \/ q.rows # << >> => t = "good"

SharedOwned(requests) ==
  \A f \in requests : IsShared(f) /\ (f.doc.is = "ok" => f.token = "good")

ListOwned ==
  /\ IsView(view)
  /\ view.readings # << >> => token = "good"
  /\ current = NoRequest \/ RequestOwned(current, token)
  /\ SharedOwned(shared)

\* The detail view: what is shown, what is on its way and what a reprocess
\* will change is of the selected reading.
AskOwned ==
  /\ ask = NoAsk \/ IsAsk(ask)
  /\ ask # NoAsk =>
       /\ ask.id = selected /\ ask.token = token
       /\ ask.kind = "detail" /\ ask.doc.is = "ok" =>
            IsDetail(ask.doc.what) /\ ask.doc.what.id = selected

DetailOwned ==
  /\ detail = NoDetail \/ IsDetail(detail)
  /\ detail # NoDetail => detail.id = selected
  /\ raw # NoRaw => raw.id = selected

PostsOwned ==
  /\ \A p \in posts :
       IsPost(p) /\ (p.mine => p.id = selected /\ p.token = token /\ detail # NoDetail)
  /\ \A p, q \in posts : p.mine /\ q.mine => p = q

Owned == ListOwned /\ AskOwned /\ DetailOwned /\ PostsOwned

-----------------------------------------------------------------------------
(* What the helpers of the list do *)

LEMMA ViewRecord ==
  ASSUME NEW a, NEW b, NEW c, NEW d, NEW e, NEW f, NEW v,
         v = [readings |-> a, next |-> b, cursors |-> c, loading |-> d, loadingMore |-> e, error |-> f]
  PROVE  IsView(v) /\ v.readings = a
BY DEF IsView

LEMMA ViewExcept ==
  ASSUME NEW v, IsView(v), NEW x
  PROVE  /\ IsView([v EXCEPT !.readings = x]) /\ [v EXCEPT !.readings = x].readings = x
         /\ IsView([v EXCEPT !.next = x]) /\ [v EXCEPT !.next = x].readings = v.readings
         /\ IsView([v EXCEPT !.cursors = x]) /\ [v EXCEPT !.cursors = x].readings = v.readings
         /\ IsView([v EXCEPT !.loading = x]) /\ [v EXCEPT !.loading = x].readings = v.readings
         /\ IsView([v EXCEPT !.loadingMore = x]) /\ [v EXCEPT !.loadingMore = x].readings = v.readings
         /\ IsView([v EXCEPT !.error = x]) /\ [v EXCEPT !.error = x].readings = v.readings
<1>1. PICK a, b, c, d, e, f :
        v = [readings |-> a, next |-> b, cursors |-> c, loading |-> d, loadingMore |-> e, error |-> f]
  BY DEF IsView
<1>2. IsView([v EXCEPT !.readings = x]) /\ [v EXCEPT !.readings = x].readings = x
  <2>1. [v EXCEPT !.readings = x] =
          [readings |-> x, next |-> b, cursors |-> c, loading |-> d, loadingMore |-> e, error |-> f]
    BY <1>1
  <2> QED
    BY <1>1, <2>1, ViewRecord
<1>3. IsView([v EXCEPT !.next = x]) /\ [v EXCEPT !.next = x].readings = v.readings
  <2>1. [v EXCEPT !.next = x] =
          [readings |-> a, next |-> x, cursors |-> c, loading |-> d, loadingMore |-> e, error |-> f]
    BY <1>1
  <2> QED
    BY <1>1, <2>1, ViewRecord
<1>4. IsView([v EXCEPT !.cursors = x]) /\ [v EXCEPT !.cursors = x].readings = v.readings
  <2>1. [v EXCEPT !.cursors = x] =
          [readings |-> a, next |-> b, cursors |-> x, loading |-> d, loadingMore |-> e, error |-> f]
    BY <1>1
  <2> QED
    BY <1>1, <2>1, ViewRecord
<1>5. IsView([v EXCEPT !.loading = x]) /\ [v EXCEPT !.loading = x].readings = v.readings
  <2>1. [v EXCEPT !.loading = x] =
          [readings |-> a, next |-> b, cursors |-> c, loading |-> x, loadingMore |-> e, error |-> f]
    BY <1>1
  <2> QED
    BY <1>1, <2>1, ViewRecord
<1>6. IsView([v EXCEPT !.loadingMore = x]) /\ [v EXCEPT !.loadingMore = x].readings = v.readings
  <2>1. [v EXCEPT !.loadingMore = x] =
          [readings |-> a, next |-> b, cursors |-> c, loading |-> d, loadingMore |-> x, error |-> f]
    BY <1>1
  <2> QED
    BY <1>1, <2>1, ViewRecord
<1>7. IsView([v EXCEPT !.error = x]) /\ [v EXCEPT !.error = x].readings = v.readings
  <2>1. [v EXCEPT !.error = x] =
          [readings |-> a, next |-> b, cursors |-> c, loading |-> d, loadingMore |-> e, error |-> x]
    BY <1>1
  <2> QED
    BY <1>1, <2>1, ViewRecord
<1> QED
  BY <1>2, <1>3, <1>4, <1>5, <1>6, <1>7

LEMMA FinishView ==
  ASSUME NEW v, IsView(v), Finish(v)
  PROVE  IsView(view') /\ view'.readings = v.readings /\ current' = NoRequest
<1>1. IsView([v EXCEPT !.loading = FALSE]) /\ [v EXCEPT !.loading = FALSE].readings = v.readings
  BY ViewExcept
<1> DEFINE w == [v EXCEPT !.loading = FALSE]
<1>2. IsView([w EXCEPT !.loadingMore = FALSE]) /\ [w EXCEPT !.loadingMore = FALSE].readings = w.readings
  BY <1>1, ViewExcept
<1> QED
  BY <1>1, <1>2 DEF Finish

LEMMA RequestRecord ==
  ASSUME NEW a, NEW b, NEW c, NEW d, NEW e, NEW f, NEW g, NEW h, NEW q, a # "none",
         q = [kind |-> a, token |-> b, cursor |-> c, bypass |-> d,
              own |-> e, pages |-> f, rows |-> g, cursors |-> h]
  PROVE  IsRequest(q) /\ q.token = b /\ q.own = e /\ q.rows = g
BY DEF IsRequest

LEMMA RequestExcept ==
  ASSUME NEW q, IsRequest(q), NEW x
  PROVE  /\ IsRequest([q EXCEPT !.cursor = x]) /\ [q EXCEPT !.cursor = x].token = q.token /\ [q EXCEPT !.cursor = x].own = q.own /\ [q EXCEPT !.cursor = x].rows = q.rows
         /\ IsRequest([q EXCEPT !.bypass = x]) /\ [q EXCEPT !.bypass = x].token = q.token /\ [q EXCEPT !.bypass = x].own = q.own /\ [q EXCEPT !.bypass = x].rows = q.rows
         /\ IsRequest([q EXCEPT !.own = x]) /\ [q EXCEPT !.own = x].token = q.token /\ [q EXCEPT !.own = x].rows = q.rows
         /\ IsRequest([q EXCEPT !.pages = x]) /\ [q EXCEPT !.pages = x].token = q.token /\ [q EXCEPT !.pages = x].own = q.own /\ [q EXCEPT !.pages = x].rows = q.rows
         /\ IsRequest([q EXCEPT !.rows = x]) /\ [q EXCEPT !.rows = x].token = q.token /\ [q EXCEPT !.rows = x].own = q.own
         /\ IsRequest([q EXCEPT !.cursors = x]) /\ [q EXCEPT !.cursors = x].token = q.token /\ [q EXCEPT !.cursors = x].own = q.own /\ [q EXCEPT !.cursors = x].rows = q.rows
<1>1. PICK a, b, c, d, e, f, g, h :
        /\ a # "none"
        /\ q = [kind |-> a, token |-> b, cursor |-> c, bypass |-> d,
             own |-> e, pages |-> f, rows |-> g, cursors |-> h]
  BY DEF IsRequest
<1>2. IsRequest([q EXCEPT !.cursor = x]) /\ [q EXCEPT !.cursor = x].token = q.token /\ [q EXCEPT !.cursor = x].own = q.own /\ [q EXCEPT !.cursor = x].rows = q.rows
  <2>1. [q EXCEPT !.cursor = x] =
            [kind |-> a, token |-> b, cursor |-> x, bypass |-> d,
             own |-> e, pages |-> f, rows |-> g, cursors |-> h]
    BY <1>1
  <2> QED
    BY <1>1, <2>1, RequestRecord
<1>3. IsRequest([q EXCEPT !.bypass = x]) /\ [q EXCEPT !.bypass = x].token = q.token /\ [q EXCEPT !.bypass = x].own = q.own /\ [q EXCEPT !.bypass = x].rows = q.rows
  <2>1. [q EXCEPT !.bypass = x] =
            [kind |-> a, token |-> b, cursor |-> c, bypass |-> x,
             own |-> e, pages |-> f, rows |-> g, cursors |-> h]
    BY <1>1
  <2> QED
    BY <1>1, <2>1, RequestRecord
<1>4. IsRequest([q EXCEPT !.own = x]) /\ [q EXCEPT !.own = x].token = q.token /\ [q EXCEPT !.own = x].rows = q.rows
  <2>1. [q EXCEPT !.own = x] =
            [kind |-> a, token |-> b, cursor |-> c, bypass |-> d,
             own |-> x, pages |-> f, rows |-> g, cursors |-> h]
    BY <1>1
  <2> QED
    BY <1>1, <2>1, RequestRecord
<1>5. IsRequest([q EXCEPT !.pages = x]) /\ [q EXCEPT !.pages = x].token = q.token /\ [q EXCEPT !.pages = x].own = q.own /\ [q EXCEPT !.pages = x].rows = q.rows
  <2>1. [q EXCEPT !.pages = x] =
            [kind |-> a, token |-> b, cursor |-> c, bypass |-> d,
             own |-> e, pages |-> x, rows |-> g, cursors |-> h]
    BY <1>1
  <2> QED
    BY <1>1, <2>1, RequestRecord
<1>6. IsRequest([q EXCEPT !.rows = x]) /\ [q EXCEPT !.rows = x].token = q.token /\ [q EXCEPT !.rows = x].own = q.own
  <2>1. [q EXCEPT !.rows = x] =
            [kind |-> a, token |-> b, cursor |-> c, bypass |-> d,
             own |-> e, pages |-> f, rows |-> x, cursors |-> h]
    BY <1>1
  <2> QED
    BY <1>1, <2>1, RequestRecord
<1>7. IsRequest([q EXCEPT !.cursors = x]) /\ [q EXCEPT !.cursors = x].token = q.token /\ [q EXCEPT !.cursors = x].own = q.own /\ [q EXCEPT !.cursors = x].rows = q.rows
  <2>1. [q EXCEPT !.cursors = x] =
            [kind |-> a, token |-> b, cursor |-> c, bypass |-> d,
             own |-> e, pages |-> f, rows |-> g, cursors |-> x]
    BY <1>1
  <2> QED
    BY <1>1, <2>1, RequestRecord
<1> QED
  BY <1>2, <1>3, <1>4, <1>5, <1>6, <1>7

\* A request that is sent is owned, and what others may join stays so.
LEMMA AskOwns ==
  ASSUME NEW t, NEW req, IsRequest(req), req.token = t, req.rows # << >> => t = "good",
         NEW known, SharedOwned(known), Ask(req, known)
  PROVE  RequestOwned(current', t) /\ SharedOwned(shared')
<1>1. /\ IsRequest(current') /\ current'.token = t /\ current'.rows = req.rows
  BY RequestExcept DEF Ask
<1>2. current'.own.is # "ok"
  <2>1. PICK a, b, c, d, e, f, g, h :
          req = [kind |-> a, token |-> b, cursor |-> c, bypass |-> d,
                 own |-> e, pages |-> f, rows |-> g, cursors |-> h]
    BY DEF IsRequest
  <2>2. current' = [kind |-> a, token |-> b, cursor |-> c, bypass |-> d,
                    own |-> Waiting, pages |-> f, rows |-> g, cursors |-> h]
    BY <2>1 DEF Ask
  <2> QED
    BY <2>2 DEF Waiting
<1>3. SharedOwned(shared')
  <2> DEFINE new == [token |-> req.token, cursor |-> req.cursor, doc |-> Waiting]
  <2>1. IsShared(new) /\ new.doc.is # "ok"
    BY DEF IsShared, Waiting
  <2>2. shared' \subseteq known \cup {new}
    BY DEF Ask
  <2> QED
    BY <2>1, <2>2 DEF SharedOwned
<1> QED
  BY <1>1, <1>2, <1>3 DEF RequestOwned

LEMMA RequestIsRequest ==
  ASSUME NEW kind, kind # "none", NEW t, NEW cursor
  PROVE  IsRequest(Request(kind, t, cursor)) /\ Request(kind, t, cursor).token = t
         /\ Request(kind, t, cursor).rows = << >>
BY RequestRecord DEF Request

-----------------------------------------------------------------------------
(* The steps of the list *)

LEMMA FinishOwns ==
  ASSUME ListOwned, NEW v, IsView(v), v.readings # << >> => token = "good",
         Finish(v), token' = token, SharedOwned(shared')
  PROVE  ListOwned'
BY FinishView DEF ListOwned

LEMMA LoadOwns ==
  ASSUME ListOwned, NEW t, NEW cursor, loadReadings(t, cursor), token' = t,
         t = token \/ cursor = NoCursor
  PROVE  ListOwned'
<1>1. CASE t = NoToken
  <2>1. IsView(EmptyView) /\ EmptyView.readings = << >>
    BY ViewRecord DEF EmptyView
  <2>2. IsView([EmptyView EXCEPT !.error = TRUE])
        /\ [EmptyView EXCEPT !.error = TRUE].readings = EmptyView.readings
    BY <2>1, ViewExcept
  <2>3. view' = [EmptyView EXCEPT !.error = TRUE]
    BY <1>1 DEF loadReadings
  <2> QED
    BY <1>1, <2>1, <2>2, <2>3 DEF ListOwned, loadReadings
<1>2. CASE t # NoToken /\ cursor = NoCursor
  <2>1. PICK a, b, c, d, e, f :
          view = [readings |-> a, next |-> b, cursors |-> c, loading |-> d, loadingMore |-> e, error |-> f]
    BY DEF ListOwned, IsView
  <2>2. view' = [readings |-> << >>, next |-> NoCursor, cursors |-> c,
                 loading |-> TRUE, loadingMore |-> e, error |-> FALSE]
    BY <1>2, <2>1 DEF loadReadings
  <2>3. IsView(view') /\ view'.readings = << >>
    BY <2>2, ViewRecord
  <2>6. Ask(Request("first", t, cursor), shared)
    BY <1>2 DEF loadReadings
  <2>7. RequestOwned(current', t) /\ SharedOwned(shared')
    BY <2>6, RequestIsRequest, AskOwns DEF ListOwned
  <2> QED
    BY <2>3, <2>7 DEF ListOwned
<1>3. CASE t # NoToken /\ cursor # NoCursor
  <2> DEFINE u == [view EXCEPT !.loadingMore = TRUE]
  <2>1. IsView(u) /\ u.readings = view.readings
    BY ViewExcept DEF ListOwned
  <2>2. IsView([u EXCEPT !.error = FALSE]) /\ [u EXCEPT !.error = FALSE].readings = view.readings
    BY <2>1, ViewExcept
  <2>3. view' = [u EXCEPT !.error = FALSE]
    BY <1>3 DEF loadReadings
  <2>4. Ask(Request("more", t, cursor), shared)
    BY <1>3 DEF loadReadings
  <2>5. RequestOwned(current', t) /\ SharedOwned(shared')
    BY <2>4, RequestIsRequest, AskOwns DEF ListOwned
  <2> QED
    BY <1>3, <2>2, <2>3, <2>5 DEF ListOwned
<1> QED
  BY <1>1, <1>2, <1>3

LEMMA PollOwns == ASSUME ListOwned, Poll PROVE ListOwned'
<1> DEFINE req == Request("refresh", token, NoCursor)
           pages == Len(view.cursors) + 1
<1>0. IsRequest(req) /\ req.token = token /\ req.rows = << >>
  BY RequestIsRequest
<1>1. IsRequest([req EXCEPT !.pages = pages]) /\ [req EXCEPT !.pages = pages].token = req.token
      /\ [req EXCEPT !.pages = pages].rows = req.rows
  BY <1>0, RequestExcept
<1>2. RequestOwned(current', token) /\ SharedOwned(shared')
  BY <1>0, <1>1, AskOwns DEF Poll, ListOwned
<1>3. IsView(view') /\ view'.readings = view.readings
  BY ViewExcept DEF Poll, ListOwned
<1> QED
  BY <1>2, <1>3 DEF Poll, ListOwned

LEMMA AckOwns == ASSUME ListOwned, SubmitAck PROVE ListOwned'
<1>1. CASE submit.token # token
  BY <1>1 DEF SubmitAck, ListOwned
<1>2. CASE submit.token = token
  <2> DEFINE req == Request("refresh", token, NoCursor)
             r == [req EXCEPT !.pages = submit.pages]
             u == [view EXCEPT !.loading = TRUE]
             v == [u EXCEPT !.loadingMore = FALSE]
  <2>0. IsRequest(req) /\ req.token = token /\ req.rows = << >>
    BY RequestIsRequest
  <2>1. IsRequest(r) /\ r.token = req.token /\ r.rows = req.rows
    BY <2>0, RequestExcept
  <2>2. IsRequest([r EXCEPT !.bypass = TRUE]) /\ [r EXCEPT !.bypass = TRUE].token = r.token
        /\ [r EXCEPT !.bypass = TRUE].rows = r.rows
    BY <2>1, RequestExcept
  <2>3. Ask([r EXCEPT !.bypass = TRUE], {})
    BY <1>2 DEF SubmitAck
  <2>4. SharedOwned({})
    BY DEF SharedOwned
  <2>5. RequestOwned(current', token) /\ SharedOwned(shared')
    BY <2>0, <2>1, <2>2, <2>3, <2>4, AskOwns
  <2>6. IsView(u) /\ u.readings = view.readings
    BY ViewExcept DEF ListOwned
  <2>7. IsView(v) /\ v.readings = view.readings
    BY <2>6, ViewExcept
  <2>8. IsView([v EXCEPT !.error = FALSE]) /\ [v EXCEPT !.error = FALSE].readings = view.readings
    BY <2>7, ViewExcept
  <2>9. view' = [v EXCEPT !.error = FALSE] /\ token' = token
    BY <1>2 DEF SubmitAck
  <2> QED
    BY <2>5, <2>8, <2>9 DEF ListOwned
<1> QED
  BY <1>1, <1>2

LEMMA ClearView ==
  ASSUME NEW v, IsView(v), NEW w, w = Clear(v)
  PROVE  IsView(w) /\ w.readings = << >>
<1>1. PICK a, b, c, d, e, f :
        v = [readings |-> a, next |-> b, cursors |-> c, loading |-> d, loadingMore |-> e, error |-> f]
  BY DEF IsView
<1>2. w = [readings |-> << >>, next |-> NoCursor, cursors |-> << >>,
           loading |-> d, loadingMore |-> e, error |-> f]
  BY <1>1 DEF Clear
<1> QED
  BY <1>2, ViewRecord

\* What a refresh, a first load or a load-more shows is a view.
LEMMA ShownView ==
  ASSUME IsView(view), NEW readings, NEW next, NEW cursors, NEW v,
         v = [view EXCEPT !.readings = readings, !.next = next, !.cursors = cursors]
  PROVE  IsView(v)
<1>1. PICK a, b, c, d, e, f :
        view = [readings |-> a, next |-> b, cursors |-> c, loading |-> d, loadingMore |-> e, error |-> f]
  BY DEF IsView
<1>2. v = [readings |-> readings, next |-> next, cursors |-> cursors,
           loading |-> d, loadingMore |-> e, error |-> f]
  BY <1>1
<1> QED
  BY <1>2, ViewRecord

\* So is what a reset leaves.
LEMMA ResetView ==
  ASSUME NEW v, IsView(v), NEW rows, NEW w,
         w = [v EXCEPT !.loading = FALSE, !.loadingMore = FALSE, !.readings = rows]
  PROVE  IsView(w) /\ w.readings = rows
<1>1. PICK a, b, c, d, e, f :
        v = [readings |-> a, next |-> b, cursors |-> c, loading |-> d, loadingMore |-> e, error |-> f]
  BY DEF IsView
<1>2. w = [readings |-> rows, next |-> b, cursors |-> c,
           loading |-> FALSE, loadingMore |-> FALSE, error |-> f]
  BY <1>1
<1> QED
  BY <1>2, ViewRecord

\* A page is asked for with the token that is stored, so when it comes the
\* token is good, and its rows may be shown.
LEMMA ArriveOwns ==
  ASSUME ListOwned, current # NoRequest, token' = token,
         NEW doc, doc.is = "ok" => token = "good",
         NEW known, SharedOwned(known), Arrive(doc, known)
  PROVE  ListOwned'
<1> USE DEF Arrive
<1>1. IsView(view) /\ RequestOwned(current, token)
  BY DEF ListOwned
<1>2. CASE doc.is # "ok"
  <2> DEFINE kept == IF current.kind = "first" \/ (current.kind = "refresh" /\ doc = Denied)
                     THEN Clear(view) ELSE view
  <2>1. IsView(kept) /\ (kept.readings # << >> => token = "good")
    BY <1>1, ClearView DEF ListOwned
  <2> HIDE DEF kept
  <2>2. IsView([kept EXCEPT !.error = TRUE])
        /\ [kept EXCEPT !.error = TRUE].readings = kept.readings
    BY <2>1, ViewExcept
  <2>3. Finish([kept EXCEPT !.error = TRUE]) /\ shared' = known
    BY <1>2 DEF Fail, kept
  <2> QED
    BY <2>1, <2>2, <2>3, FinishOwns
<1>3. CASE doc.is = "ok" /\ current.kind = "more"
  <2>1. PICK v : IsView(v) /\ Finish(v)
    BY <1>1, <1>3, ShownView DEF Extend
  <2> QED
    BY <1>3, <2>1, FinishOwns
<1>4. CASE /\ doc.is = "ok" /\ current.kind # "more"
           /\ current.pages > 1 /\ doc.what.next # NoCursor
  <2> DEFINE x == [current EXCEPT !.rows = appendUnique(@, doc.what.rows), !.cursor = doc.what.next,
                                  !.pages = @ - 1, !.cursors = Append(@, doc.what.next)]
  <2>1. IsRequest(x) /\ x.token = token
    <3> DEFINE rows    == appendUnique(current.rows, doc.what.rows)
               pages   == current.pages - 1
               cursors == Append(current.cursors, doc.what.next)
    <3>1. x = [current EXCEPT !.rows = rows, !.cursor = doc.what.next, !.pages = pages, !.cursors = cursors]
      OBVIOUS
    <3> HIDE DEF rows, pages, cursors, x
    <3>2. IsRequest(current) /\ current.token = token
      BY <1>1 DEF RequestOwned
    <3>3. PICK a, b, c, d, e, f, g, h :
            /\ a # "none"
            /\ current = [kind |-> a, token |-> b, cursor |-> c, bypass |-> d,
                          own |-> e, pages |-> f, rows |-> g, cursors |-> h]
      BY <3>2 DEF IsRequest
    <3>4. x = [kind |-> a, token |-> b, cursor |-> doc.what.next, bypass |-> d,
               own |-> e, pages |-> pages, rows |-> rows, cursors |-> cursors]
      BY <3>1, <3>3
    <3>5. IsRequest(x) /\ x.token = b
      BY <3>3, <3>4, RequestRecord
    <3> QED
      BY <3>2, <3>3, <3>5
  <2>2. Ask(x, known) /\ UNCHANGED view
    BY <1>4
  <2> HIDE DEF x
  <2>3. RequestOwned(current', token) /\ SharedOwned(shared')
    BY <1>4, <2>1, <2>2, AskOwns
  <2> QED
    BY <2>2, <2>3 DEF ListOwned
<1>5. CASE /\ doc.is = "ok" /\ current.kind # "more"
           /\ ~(current.pages > 1 /\ doc.what.next # NoCursor)
  <2>1. PICK v : IsView(v) /\ Finish(v)
    BY <1>1, <1>5, ShownView DEF Show
  <2>2. shared' = known
    BY <1>5
  <2> QED
    BY <1>5, <2>1, <2>2, FinishOwns
<1> QED
  BY <1>2, <1>3, <1>4, <1>5

LEMMA ServeOwns == ASSUME ListOwned, ServeList PROVE ListOwned'
<1>0. token' = token /\ view' = view
  BY DEF ServeList
<1>1. ASSUME NEW f \in shared, NEW answer \in Reply(f.token, Answered(Page(f.cursor))),
             shared' = (shared \ {f}) \cup {[f EXCEPT !.doc = answer]}, current' = current
      PROVE  ListOwned'
  <2>1. IsShared(f)
    BY DEF ListOwned, SharedOwned
  <2>2. [f EXCEPT !.doc = answer] = [token |-> f.token, cursor |-> f.cursor, doc |-> answer]
    BY <2>1 DEF IsShared
  <2>3. answer.is = "ok" => f.token = "good"
    BY DEF Reply, Denied
  <2> DEFINE g == [token |-> f.token, cursor |-> f.cursor, doc |-> answer]
  <2>4. IsShared(g) /\ g.token = f.token /\ g.doc = answer
    BY DEF IsShared
  <2>5. SharedOwned(shared')
    BY <1>1, <2>2, <2>3, <2>4 DEF ListOwned, SharedOwned
  <2> QED
    BY <1>0, <1>1, <2>5 DEF ListOwned
<1>2. ASSUME current # NoRequest, NEW answer \in Reply(current.token, Answered(Page(current.cursor))),
             current' = [current EXCEPT !.own = answer], shared' = shared
      PROVE  ListOwned'
  <2>1. RequestOwned(current, token)
    BY <1>2 DEF ListOwned
  <2>2. answer.is = "ok" => token = "good"
    BY <2>1 DEF Reply, Denied, RequestOwned
  <2>3. PICK a, b, c, d, e, f, g, h :
          /\ a # "none"
          /\ current = [kind |-> a, token |-> b, cursor |-> c, bypass |-> d,
                        own |-> e, pages |-> f, rows |-> g, cursors |-> h]
    BY <2>1 DEF RequestOwned, IsRequest
  <2>4. current' = [kind |-> a, token |-> b, cursor |-> c, bypass |-> d,
                    own |-> answer, pages |-> f, rows |-> g, cursors |-> h]
    BY <1>2, <2>3
  <2>5. IsRequest(current') /\ current'.token = b /\ current'.own = answer /\ current'.rows = g
    BY <2>3, <2>4, RequestRecord
  <2>6. b = token /\ (g # << >> => token = "good")
    BY <2>1, <2>3 DEF RequestOwned
  <2> QED
    BY <1>0, <1>2, <2>2, <2>5, <2>6 DEF ListOwned, RequestOwned
<1> QED
  BY <1>1, <1>2 DEF ServeList

LEMMA DeliverOwns == ASSUME ListOwned, DeliverList PROVE ListOwned'
<1>0. token' = token
  BY DEF DeliverList
<1>1. ASSUME NEW f \in shared, WaitsFor(f), Arrive(f.doc, shared \ {f})
      PROVE  ListOwned'
  <2>1. current # NoRequest /\ f.token = token
    BY <1>1 DEF WaitsFor, Same, ListOwned, RequestOwned
  <2>2. SharedOwned(shared \ {f}) /\ (f.doc.is = "ok" => token = "good")
    BY <2>1 DEF ListOwned, SharedOwned
  <2> QED
    BY <1>0, <1>1, <2>1, <2>2, ArriveOwns
<1>2. ASSUME NEW f \in shared, shared' = shared \ {f}, UNCHANGED <<view, current>>
      PROVE  ListOwned'
  BY <1>0, <1>2 DEF ListOwned, SharedOwned, RequestOwned
<1>3. ASSUME current # NoRequest, Arrive(current.own, shared)
      PROVE  ListOwned'
  <2>1. SharedOwned(shared) /\ (current.own.is = "ok" => token = "good")
    BY <1>3 DEF ListOwned, RequestOwned
  <2> QED
    BY <1>0, <1>3, <2>1, ArriveOwns
<1> QED
  BY <1>1, <1>2, <1>3 DEF DeliverList

\* The steps of the list that touch none of this.
LEMMA ListOwnedStays ==
  ASSUME ListOwned, UNCHANGED <<token, view, current, shared>>
  PROVE  ListOwned'
BY DEF ListOwned, RequestOwned, SharedOwned

LEMMA ListStepOwns == ASSUME ListOwned, ListStep PROVE ListOwned'
<1>1. CASE \E id \in Ids : Settle(id)
  BY <1>1, ListOwnedStays DEF Settle
<1>2. CASE handleLoadMore
  BY <1>2, LoadOwns DEF handleLoadMore
<1>3. CASE SubmitClick \/ SubmitServe \/ SubmitEnd
  BY <1>3, ListOwnedStays DEF SubmitClick, SubmitServe, SubmitEnd
<1> QED
  BY <1>1, <1>2, <1>3, PollOwns, AckOwns, ServeOwns, DeliverOwns DEF ListStep

\* An acknowledged reprocess ends every list request; the list keeps its rows.
LEMMA ResetOwns ==
  ASSUME ListOwned, NEW id, NEW version, ListReset(id, version), token' = token
  PROVE  ListOwned'
<1> DEFINE rows == [i \in DOMAIN view.readings |->
                      IF view.readings[i].id # id THEN view.readings[i]
                      ELSE Restarted(view.readings[i], version)]
<1>1. view' = [view EXCEPT !.loading = FALSE, !.loadingMore = FALSE, !.readings = rows]
  BY DEF ListReset
<1>2. view.readings = << >> => rows = << >>
  OBVIOUS
<1> HIDE DEF rows
<1>3. IsView(view)
  BY DEF ListOwned
<1>4. IsView(view') /\ view'.readings = rows
  BY <1>1, <1>3, ResetView
<1>6. current' = NoRequest /\ SharedOwned(shared')
  BY DEF ListReset, SharedOwned
<1> QED
  BY <1>2, <1>4, <1>6 DEF ListOwned

-----------------------------------------------------------------------------
(* The steps of the detail view *)

LEMMA DetailRecord ==
  ASSUME NEW d, IsDetail(d)
  PROVE  d # NoDetail
<1>1. PICK a, b, c : d = [id |-> a, status |-> b, version |-> c]
  BY DEF IsDetail
<1>2. "id" \in DOMAIN d /\ "id" \notin DOMAIN NoDetail
  BY <1>1 DEF NoDetail
<1> QED
  BY <1>2

LEMMA DetailIs ==
  ASSUME NEW id, NEW status, NEW version, NEW d,
         d = [id |-> id, status |-> status, version |-> version]
  PROVE  IsDetail(d) /\ d.id = id
BY DEF IsDetail

LEMMA AskRecord ==
  ASSUME NEW kind, NEW id, NEW t, NEW doc, NEW a,
         a = [kind |-> kind, id |-> id, token |-> t, doc |-> doc]
  PROVE  IsAsk(a) /\ a.kind = kind /\ a.id = id /\ a.token = t /\ a.doc = doc
BY DEF IsAsk

LEMMA WaitingIsNoAnswer == Waiting.is # "ok"
BY DEF Waiting

LEMMA FetchOwns ==
  ASSUME NEW id, id = selected', token' = token, fetchContent(id) \/ fetchDetail(id)
  PROVE  AskOwned'
<1>1. PICK kind : ask' = [kind |-> kind, id |-> id, token |-> token, doc |-> Waiting]
  BY DEF fetchContent, fetchDetail
<1> QED
  BY <1>1, AskRecord, WaitingIsNoAnswer DEF AskOwned

LEMMA AskOwnedStays ==
  ASSUME AskOwned, UNCHANGED <<ask, selected, token>>
  PROVE  AskOwned'
BY DEF AskOwned

LEMMA DetailOwnedStays ==
  ASSUME DetailOwned, UNCHANGED <<detail, selected, raw>>
  PROVE  DetailOwned'
BY DEF DetailOwned

LEMMA PostsOwnedStays ==
  ASSUME PostsOwned, UNCHANGED <<selected, token>>, detail' = detail \/ IsDetail(detail'),
         posts' \subseteq posts
  PROVE  PostsOwned'
BY DetailRecord DEF PostsOwned

\* Requests that the view has given up are nobody's.
LEMMA PostExcept ==
  ASSUME NEW p, IsPost(p), NEW x, NEW q, q = [p EXCEPT !.mine = x]
  PROVE  IsPost(q) /\ q.mine = x
<1>1. PICK a, b, c, d : p = [id |-> a, token |-> b, mine |-> c, doc |-> d]
  BY DEF IsPost
<1>2. q = [id |-> a, token |-> b, mine |-> x, doc |-> d]
  BY <1>1
<1> QED
  BY <1>2 DEF IsPost

LEMMA AbandonedOwned ==
  ASSUME PostsOwned, posts' = Abandoned
  PROVE  PostsOwned'
<1>1. ASSUME NEW p \in posts, NEW q, q = [p EXCEPT !.mine = FALSE]
      PROVE  IsPost(q) /\ ~q.mine
  BY <1>1, PostExcept DEF PostsOwned
<1>2. \A q \in posts' : IsPost(q) /\ ~q.mine
  BY <1>1 DEF Abandoned
<1> QED
  BY <1>2 DEF PostsOwned

LEMMA ServeDetailOwns == ASSUME AskOwned, ServeDetail PROVE AskOwned'
<1>1. PICK would \in IF ask.kind = "detail" THEN {Answered(d) : d \in Details(ask.id)}
                     ELSE {Content(ask.id)} :
        \E answer \in Reply(ask.token, would) : ask' = [ask EXCEPT !.doc = answer]
  BY DEF ServeDetail
<1>2. PICK answer \in Reply(ask.token, would) : ask' = [ask EXCEPT !.doc = answer]
  BY <1>1
<1>2a. PICK kind, id, t, doc : ask = [kind |-> kind, id |-> id, token |-> t, doc |-> doc]
  BY DEF AskOwned, IsAsk, ServeDetail
<1>3. ask' = [kind |-> kind, id |-> id, token |-> t, doc |-> answer]
  BY <1>2, <1>2a
<1>4. id = selected /\ t = token /\ ask.id = id /\ ask.kind = kind
  BY <1>2a DEF AskOwned, ServeDetail
<1>5. kind = "detail" /\ answer.is = "ok" => IsDetail(answer.what) /\ answer.what.id = id
  <2>1. SUFFICES ASSUME kind = "detail", answer.is = "ok"
                 PROVE  IsDetail(answer.what) /\ answer.what.id = id
    OBVIOUS
  <2>2. PICK d \in Details(id) : would = Answered(d)
    BY <1>4, <2>1
  <2>3. answer = would
    BY <2>1 DEF Reply, Denied, Broken
  <2>4. answer.what = d
    BY <2>2, <2>3 DEF Answered
  <2>5. PICK status : d = [id |-> id, status |-> status, version |-> server[id].version]
    BY DEF Details
  <2>6. IsDetail(d) /\ d.id = id
    BY <2>5, DetailIs
  <2> QED
    BY <2>4, <2>6
<1>6. IsAsk(ask') /\ ask'.kind = kind /\ ask'.id = id /\ ask'.token = t /\ ask'.doc = answer
  BY <1>3, AskRecord
<1>7. UNCHANGED <<selected, token>>
  BY DEF ServeDetail
<1> QED
  BY <1>4, <1>5, <1>6, <1>7 DEF AskOwned

LEMMA DeliverDetailOwns ==
  ASSUME AskOwned, DetailOwned, PostsOwned, DeliverDetail
  PROVE  AskOwned' /\ DetailOwned' /\ PostsOwned'
<1>1. ask # NoAsk /\ ask.kind = "detail"
  BY DEF DeliverDetail, NoAsk
<1>2. UNCHANGED <<token, selected, raw, posts>>
  BY DEF DeliverDetail, listVars
<1>3. CASE ask.doc.is # "ok"
  BY <1>2, <1>3, AskOwnedStays, DetailOwnedStays, PostsOwnedStays DEF DeliverDetail, AskOwned
<1>4. CASE ask.doc.is = "ok"
  <2>1. IsDetail(detail') /\ detail'.id = selected /\ ask.id = selected
    BY <1>1, <1>4 DEF AskOwned, DeliverDetail
  <2>2. DetailOwned'
    BY <1>2, <2>1 DEF DetailOwned
  <2>3. PostsOwned'
    BY <1>2, <2>1, PostsOwnedStays
  <2>4. AskOwned'
    <3>1. CASE fetchContent(ask.id)
      BY <1>2, <2>1, <3>1, FetchOwns
    <3>2. CASE ask' = NoAsk
      BY <3>2 DEF AskOwned
    <3> QED
      BY <1>4, <3>1, <3>2 DEF DeliverDetail
  <2> QED
    BY <2>2, <2>3, <2>4
<1> QED
  BY <1>3, <1>4

LEMMA BackOwns ==
  ASSUME PostsOwned, handleBackToList
  PROVE  AskOwned' /\ DetailOwned' /\ PostsOwned'
BY AbandonedOwned DEF handleBackToList, AskOwned, DetailOwned

LEMMA SelectOwns ==
  ASSUME PostsOwned, NEW id, handleSelectReading(id)
  PROVE  AskOwned' /\ DetailOwned' /\ PostsOwned'
<1>1. AskOwned'
  BY FetchOwns DEF handleSelectReading
<1>2. DetailOwned' /\ PostsOwned'
  BY AbandonedOwned DEF handleSelectReading, DetailOwned
<1> QED
  BY <1>1, <1>2

LEMMA ReprocessClickOwns == ASSUME PostsOwned, ReprocessClick PROVE PostsOwned'
<1> DEFINE new == [id |-> selected, token |-> token, mine |-> TRUE, doc |-> Waiting]
<1>1. IsPost(new) /\ new.id = selected /\ new.token = token
  BY DEF IsPost
<1>2. posts' = posts \cup {new} /\ \A p \in posts : ~p.mine
  BY DEF ReprocessClick, reprocessInFlight
<1>3. UNCHANGED <<selected, token, detail>> /\ detail # NoDetail
  BY DEF ReprocessClick
<1> HIDE DEF new
<1> QED
  BY <1>1, <1>2, <1>3 DEF PostsOwned

\* The answer takes the place of the request.
LEMMA ReprocessServeOwns ==
  ASSUME PostsOwned, NEW p \in posts, ReprocessServe(p)
  PROVE  PostsOwned'
<1>1. PICK answer : posts' = (posts \ {p}) \cup {[p EXCEPT !.doc = answer]}
  BY DEF ReprocessServe
<1>2. PICK a, b, c, d : p = [id |-> a, token |-> b, mine |-> c, doc |-> d]
  BY DEF PostsOwned, IsPost
<1> DEFINE new == [id |-> a, token |-> b, mine |-> c, doc |-> answer]
<1>3. [p EXCEPT !.doc = answer] = new
  BY <1>2
<1>4. IsPost(new) /\ new.id = p.id /\ new.token = p.token /\ new.mine = p.mine
  BY <1>2 DEF IsPost
<1> HIDE DEF new
<1>5. posts' = (posts \ {p}) \cup {new}
  BY <1>1, <1>3
<1>6. UNCHANGED <<selected, token, detail>>
  BY DEF ReprocessServe
<1>7. \A q \in posts' : IsPost(q) /\ (q.mine => q.id = selected' /\ q.token = token' /\ detail' # NoDetail)
  BY <1>4, <1>5, <1>6 DEF PostsOwned
<1>8. \A q, r \in posts' : q.mine /\ r.mine => q = r
  BY <1>4, <1>5 DEF PostsOwned
<1> QED
  BY <1>7, <1>8 DEF PostsOwned

LEMMA ReprocessAckOwns ==
  ASSUME Owned, NEW p \in posts, ReprocessAck(p)
  PROVE  Owned'
<1> USE DEF Owned
<1>1. token' = token /\ selected' = selected /\ posts' = posts \ {p}
  BY DEF ReprocessAck
<1>2. ListOwned'
  <2>1. CASE p.token = token
    BY <1>1, <2>1, ResetOwns DEF ReprocessAck
  <2>2. CASE p.token # token
    BY <1>1, <2>2, ListOwnedStays DEF ReprocessAck
  <2> QED
    BY <2>1, <2>2
<1>3. CASE p.token = token /\ p.mine
  <2>1. PICK a, b, c : detail = [id |-> a, status |-> b, version |-> c]
    BY <1>3 DEF PostsOwned, DetailOwned, IsDetail
  <2>2. ResetDetail(p.doc.what)
    BY <1>3 DEF ReprocessAck
  <2>3. detail' = [id |-> a, status |-> "pending", version |-> p.doc.what]
    BY <2>1, <2>2 DEF ResetDetail
  <2>4. IsDetail(detail') /\ detail'.id = detail.id /\ detail # NoDetail
    BY <1>3, <2>1, <2>3 DEF IsDetail, PostsOwned
  <2>5. DetailOwned'
    BY <1>1, <2>2, <2>4 DEF DetailOwned, ResetDetail
  <2>6. AskOwned'
    BY <2>2 DEF ResetDetail, AskOwned
  <2>7. PostsOwned'
    BY <1>1, <2>4, PostsOwnedStays
  <2> QED
    BY <1>2, <2>5, <2>6, <2>7
<1>4. CASE ~(p.token = token /\ p.mine)
  <2>1. UNCHANGED <<detail, ask, raw>>
    BY <1>4 DEF ReprocessAck
  <2> QED
    BY <1>1, <1>2, <2>1, AskOwnedStays, DetailOwnedStays, PostsOwnedStays
<1> QED
  BY <1>3, <1>4

\* The steps of the detail view that leave the list and the posts alone.
LEMMA AskStepOwns ==
  ASSUME Owned, AskOwned', UNCHANGED <<token, view, current, shared, selected, detail, raw, posts>>
  PROVE  Owned'
BY ListOwnedStays, DetailOwnedStays, PostsOwnedStays DEF Owned

LEMMA DetailNextOwns == ASSUME Owned, DetailNext PROVE Owned'
<1> USE DEF Owned
<1>1. CASE ServeDetail
  BY <1>1, ServeDetailOwns, AskStepOwns DEF ServeDetail
<1>2. CASE DeliverDetail
  <2>1. ListOwned'
    BY <1>2, ListOwnedStays DEF DeliverDetail, listVars
  <2> QED
    BY <1>2, <2>1, DeliverDetailOwns
<1>3. CASE DeliverContent
  <2>1. AskOwned'
    BY <1>3 DEF DeliverContent, AskOwned
  <2> QED
    BY <1>3, <2>1, AskStepOwns DEF DeliverContent, listVars
<1>4. CASE PollDetail
  <2>1. AskOwned'
    BY <1>4, FetchOwns DEF PollDetail, listVars
  <2> QED
    BY <1>4, <2>1, AskStepOwns DEF PollDetail, listVars
<1>5. CASE handleRetryContent
  <2>1. AskOwned'
    BY <1>5, FetchOwns DEF handleRetryContent
  <2> QED
    BY <1>5, <2>1, AskStepOwns DEF handleRetryContent
<1>6. CASE DeliverRaw
  <2>1. DetailOwned'
    BY <1>6 DEF DeliverRaw, DetailOwned
  <2> QED
    BY <1>6, <2>1, ListOwnedStays, AskOwnedStays, PostsOwnedStays DEF DeliverRaw, listVars
<1>7. CASE handleDownloadRaw
  <2>1. DetailOwned'
    BY <1>7 DEF handleDownloadRaw, DetailOwned
  <2> QED
    BY <1>7, <2>1, ListOwnedStays, AskOwnedStays, PostsOwnedStays DEF handleDownloadRaw
<1>8. CASE Back
  BY <1>8, BackOwns, ListOwnedStays DEF Back
<1>9. CASE ReprocessClick
  <2>1. PostsOwned'
    BY <1>9, ReprocessClickOwns
  <2> QED
    BY <1>9, <2>1, ListOwnedStays, AskOwnedStays, DetailOwnedStays DEF ReprocessClick
<1>10. ASSUME NEW id, handleSelectReading(id)
       PROVE  Owned'
  <2>1. ListOwned'
    BY <1>10, ListOwnedStays DEF handleSelectReading
  <2> QED
    BY <1>10, <2>1, SelectOwns
<1>11. ASSUME NEW t, SaveToken(t)
       PROVE  Owned'
  <2>1. loadReadings(t, NoCursor) /\ token' = t
    BY <1>11 DEF SaveToken
  <2>2. ListOwned'
    BY <2>1, LoadOwns
  <2>3. CASE t # token
    BY <1>11, <2>2, <2>3, BackOwns DEF SaveToken
  <2>4. CASE t = token
    BY <1>11, <2>1, <2>2, <2>4, AskOwnedStays, DetailOwnedStays, PostsOwnedStays
    DEF SaveToken, detailVars
  <2> QED
    BY <2>3, <2>4
<1>12. ASSUME NEW p \in posts, ReprocessServe(p)
       PROVE  Owned'
  <2>1. PostsOwned'
    BY <1>12, ReprocessServeOwns
  <2> QED
    BY <1>12, <2>1, ListOwnedStays, AskOwnedStays, DetailOwnedStays DEF ReprocessServe
<1>13. ASSUME NEW p \in posts, ReprocessFail(p)
       PROVE  Owned'
  BY <1>13, ListOwnedStays, AskOwnedStays, DetailOwnedStays, PostsOwnedStays
  DEF ReprocessFail, listVars
<1> QED
  BY <1>1, <1>2, <1>3, <1>4, <1>5, <1>6, <1>7, <1>8, <1>9, <1>10, <1>11, <1>12, <1>13,
     ReprocessAckOwns DEF DetailNext

LEMMA ListNextOwns == ASSUME Owned, ListNext PROVE Owned'
<1>1. ListStep /\ UNCHANGED <<selected, detail, ask, raw, posts>>
  BY DEF ListNext, detailVars
<1>2. token' = token
  BY <1>1 DEF ListStep, Settle, Poll, handleLoadMore, ServeList, DeliverList,
              SubmitClick, SubmitServe, SubmitAck, SubmitEnd
<1> QED
  BY <1>1, <1>2, ListStepOwns, AskOwnedStays, DetailOwnedStays, PostsOwnedStays DEF Owned

-----------------------------------------------------------------------------
(* The theorem *)

LEMMA InitOwned == Init => Owned
<1> SUFFICES ASSUME Init PROVE Owned
  OBVIOUS
<1>1. IsView(view) /\ view.readings = << >>
  <2>1. IsView(EmptyView) /\ EmptyView.readings = << >>
    BY ViewRecord DEF EmptyView
  <2> QED
    BY <2>1, ViewExcept DEF Init, ListInit
<1>2. RequestOwned(current, token)
  <2>1. current = Request("first", token, NoCursor)
    BY DEF Init, ListInit
  <2>2. current.own = Waiting
    BY <2>1 DEF Request
  <2> QED
    BY <2>1, <2>2, RequestIsRequest, WaitingIsNoAnswer DEF RequestOwned
<1>3. SharedOwned(shared)
  <2> DEFINE f == [token |-> token, cursor |-> NoCursor, doc |-> Waiting]
  <2>1. IsShared(f) /\ f.doc.is # "ok"
    BY WaitingIsNoAnswer DEF IsShared
  <2>2. shared = {f}
    BY DEF Init, ListInit
  <2> QED
    BY <2>1, <2>2 DEF SharedOwned
<1>4. AskOwned /\ DetailOwned /\ PostsOwned
  BY DEF Init, AskOwned, DetailOwned, PostsOwned
<1> QED
  BY <1>1, <1>2, <1>3, <1>4 DEF Owned, ListOwned

LEMMA NextOwns == Owned /\ [Next]_vars => Owned'
<1> SUFFICES ASSUME Owned, [Next]_vars PROVE Owned'
  OBVIOUS
<1>1. CASE UNCHANGED vars
  BY <1>1, ListOwnedStays, AskOwnedStays, DetailOwnedStays, PostsOwnedStays
  DEF Owned, vars, listVars, detailVars
<1> QED
  BY <1>1, ListNextOwns, DetailNextOwns DEF Next

LEMMA OwnedShows == Owned => ViewIsOfSelected
BY DEF Owned, ListOwned, RequestOwned, AskOwned, DetailOwned, PostsOwned, ViewIsOfSelected

\* Whatever the order in which answers come, what the client shows and what may
\* still change it is of the reading that is selected and of the token that is
\* stored (App.tsx detailRequestID, rawRequestID, reprocessRequestID,
\* readingsRequestID).
THEOREM ViewOwned == Spec => []ViewIsOfSelected
<1>1. Spec => []Owned
  BY InitOwned, NextOwns, PTL DEF Spec
<1> QED
  BY <1>1, OwnedShows, PTL

-----------------------------------------------------------------------------
(* What the detail view shows is not too old *)

ServerOK == server \in [Ids -> [status : {"none", "pending", "ready", "failed"}, version : Nat]]

\* What this view saw acknowledged, the server has.
OwnOK ==
  /\ own \in Nat
  /\ selected \in Ids \cup {NoId}
  /\ selected \in Ids => own <= server[selected].version
  /\ ask # NoAsk \/ detail # NoDetail => selected \in Ids

\* What is shown and what is on its way is from after that, and not from
\* before the reading it is the content of.
DetailFresh == detail # NoDetail => detail.version \in own .. server[selected].version

AskFresh ==
  /\ ask.kind = "detail" /\ ask.doc.is = "ok" =>
       ask.doc.what.version \in own .. server[selected].version
  /\ ask.kind = "content" /\ ask.doc.is = "ok" => ask.doc.what \in Nat /\ ask.doc.what >= detail.version

PostsFresh ==
  \A p \in posts : p.id \in Ids /\ (p.doc.is = "ok" => p.doc.what \in 0 .. server[p.id].version)

ContentFresh == ContentOfReady /\ (content.state = "ready" => content.version \in Nat)

Fresh == ServerOK /\ OwnOK /\ DetailFresh /\ AskFresh /\ PostsFresh /\ ContentFresh

\* A reading the server is told to process again is a newer version of it.
ServerGrows == ServerOK' /\ \A id \in Ids : server'[id].version >= server[id].version

LEMMA ServerStays == ASSUME ServerOK, server' = server PROVE ServerGrows
BY DEF ServerOK, ServerGrows

LEMMA ReprocessGrows ==
  ASSUME ServerOK, NEW p, p.id \in Ids, ReprocessServe(p)
  PROVE  /\ ServerGrows
         /\ \E answer, version :
              /\ posts' = (posts \ {p}) \cup {[p EXCEPT !.doc = answer]}
              /\ answer.is = "ok" => answer.what = version /\ version \in 0 .. server'[p.id].version
<1>1. PICK version \in {server[p.id].version + 1}
                       \cup (IF server[p.id].status = "pending" THEN {server[p.id].version} ELSE {}) :
        \E answer \in Reply(p.token, Answered(version)) :
          /\ posts' = (posts \ {p}) \cup {[p EXCEPT !.doc = answer]}
          /\ \/ answer # Denied
                /\ server' = [server EXCEPT ![p.id] = [status |-> "pending", version |-> version]]
             \/ answer.is # "ok" /\ UNCHANGED server
  BY DEF ReprocessServe
<1>2. PICK answer \in Reply(p.token, Answered(version)) :
          /\ posts' = (posts \ {p}) \cup {[p EXCEPT !.doc = answer]}
          /\ \/ server' = [server EXCEPT ![p.id] = [status |-> "pending", version |-> version]]
             \/ answer.is # "ok" /\ UNCHANGED server
  BY <1>1
<1>3. version \in Nat /\ version >= server[p.id].version
  BY <1>1 DEF ServerOK
<1>4. answer.is = "ok" => answer.what = version
  BY DEF Reply, Denied, Broken, Answered
<1>5. CASE server' = [server EXCEPT ![p.id] = [status |-> "pending", version |-> version]]
  <2>1. ServerGrows
    BY <1>3, <1>5 DEF ServerOK, ServerGrows
  <2>2. server'[p.id].version = version
    BY <1>5 DEF ServerOK
  <2> QED
    BY <1>2, <1>3, <1>4, <2>1, <2>2
<1>6. CASE answer.is # "ok" /\ UNCHANGED server
  BY <1>2, <1>6, ServerStays
<1> QED
  BY <1>2, <1>5, <1>6

LEMMA ListGrows == ASSUME ServerOK, ListStep PROVE ServerGrows
<1>1. ASSUME NEW id \in Ids, Settle(id) PROVE ServerGrows
  BY <1>1 DEF Settle, ServerOK, ServerGrows
<1>2. CASE SubmitServe
  <2>1. PICK id \in Ids :
          \/ server' = [server EXCEPT ![id] = [status |-> "pending", version |-> @.version + 1]]
          \/ UNCHANGED server
    BY <1>2 DEF SubmitServe, IngestURL
  <2>2. CASE server' = [server EXCEPT ![id] = [status |-> "pending", version |-> @.version + 1]]
    BY <2>2 DEF ServerOK, ServerGrows
  <2> QED
    BY <2>1, <2>2, ServerStays
<1>3. CASE Poll \/ handleLoadMore \/ ServeList \/ DeliverList \/ SubmitClick \/ SubmitAck \/ SubmitEnd
  BY <1>3, ServerStays DEF Poll, handleLoadMore, ServeList, DeliverList, SubmitClick, SubmitAck, SubmitEnd
<1> QED
  BY <1>1, <1>2, <1>3 DEF ListStep

\* What the view has stays fresh when the server goes on.
LEMMA OwnStays ==
  ASSUME ServerOK, OwnOK, ServerGrows, UNCHANGED <<own, selected>>,
         ask' # NoAsk \/ detail' # NoDetail => selected \in Ids
  PROVE  OwnOK'
BY DEF ServerOK, OwnOK, ServerGrows

LEMMA DetailStays ==
  ASSUME ServerOK, OwnOK, DetailFresh, ServerGrows, UNCHANGED <<own, selected, detail>>
  PROVE  DetailFresh'
BY DEF ServerOK, OwnOK, DetailFresh, ServerGrows

LEMMA AskStays ==
  ASSUME ServerOK, OwnOK, AskFresh, ServerGrows, UNCHANGED <<own, selected, detail, ask>>
  PROVE  AskFresh'
<1>1. CASE ask = NoAsk
  BY <1>1 DEF AskFresh, NoAsk
<1>2. CASE ask # NoAsk
  BY <1>2 DEF ServerOK, OwnOK, AskFresh, ServerGrows
<1> QED
  BY <1>1, <1>2

LEMMA PostsStay ==
  ASSUME ServerOK, PostsFresh, ServerGrows, posts' \subseteq posts
  PROVE  PostsFresh'
BY DEF ServerOK, PostsFresh, ServerGrows

LEMMA ContentStays ==
  ASSUME ContentFresh, UNCHANGED <<content, detail>>, ask'.kind = "content" <=> ask.kind = "content"
  PROVE  ContentFresh'
BY DEF ContentFresh, ContentOfReady

\* A view that was just opened, or closed.
LEMMA AbandonedFresh ==
  ASSUME PostsOwned, PostsFresh, server' = server, posts' = Abandoned
  PROVE  PostsFresh'
<1>1. ASSUME NEW p \in posts, NEW q, q = [p EXCEPT !.mine = FALSE]
      PROVE  q.id = p.id /\ q.doc = p.doc
  <2>1. PICK a, b, c, d : p = [id |-> a, token |-> b, mine |-> c, doc |-> d]
    BY DEF PostsOwned, IsPost
  <2>2. q = [id |-> a, token |-> b, mine |-> FALSE, doc |-> d]
    BY <1>1, <2>1
  <2> QED
    BY <2>1, <2>2
<1>2. \A q \in posts' : \E p \in posts : q.id = p.id /\ q.doc = p.doc
  BY <1>1 DEF Abandoned
<1> QED
  BY <1>2 DEF PostsFresh

LEMMA BackFresh ==
  ASSUME Owned, Fresh, handleBackToList, server' = server
  PROVE  Fresh'
<1> USE DEF Fresh, handleBackToList
<1>1. ServerOK' /\ OwnOK' /\ DetailFresh'
  BY DEF ServerOK, OwnOK, DetailFresh, NoId, Ids
<1>2. PostsFresh'
  BY AbandonedFresh DEF Owned
<1>3. AskFresh' /\ ContentFresh'
  BY DEF AskFresh, ContentFresh, ContentOfReady, NoAsk, IdleContent, NoDetail
<1> QED
  BY <1>1, <1>2, <1>3

LEMMA SelectFresh ==
  ASSUME Owned, Fresh, NEW id \in Ids, handleSelectReading(id)
  PROVE  Fresh'
<1> USE DEF Fresh, handleSelectReading
<1>1. ServerOK' /\ OwnOK' /\ DetailFresh'
  BY DEF ServerOK, OwnOK, DetailFresh
<1>2. PostsFresh'
  BY AbandonedFresh DEF Owned
<1>3. AskFresh' /\ ContentFresh'
  BY DEF AskFresh, ContentFresh, ContentOfReady, NoDetail, IdleContent, fetchDetail, Waiting
<1> QED
  BY <1>1, <1>2, <1>3

LEMMA ServeDetailFresh ==
  ASSUME Owned, Fresh, ServeDetail
  PROVE  Fresh'
<1> USE DEF Fresh
<1>1. /\ ask # NoAsk /\ ask.id = selected /\ selected \in Ids
      /\ UNCHANGED <<server, selected, detail, content, posts, own>>
  BY DEF ServeDetail, Owned, AskOwned, OwnOK
<1>2. PICK would \in IF ask.kind = "detail" THEN {Answered(d) : d \in Details(ask.id)}
                     ELSE {Content(ask.id)} :
        \E answer \in Reply(ask.token, would) : ask' = [ask EXCEPT !.doc = answer]
  BY DEF ServeDetail
<1>3. PICK answer \in Reply(ask.token, would) : ask' = [ask EXCEPT !.doc = answer]
  BY <1>2
<1>4. ask'.kind = ask.kind /\ ask'.doc = answer /\ ask' # NoAsk
  <2>1. PICK kind, id, t, doc : ask = [kind |-> kind, id |-> id, token |-> t, doc |-> doc]
    BY <1>1 DEF Owned, AskOwned, IsAsk
  <2>2. ask' = [kind |-> kind, id |-> id, token |-> t, doc |-> answer]
    BY <1>3, <2>1
  <2> QED
    BY <2>1, <2>2 DEF NoAsk
<1>5. answer.is = "ok" => answer = would
  BY DEF Reply, Denied, Broken
<1>6. ASSUME ask.kind = "detail", answer.is = "ok"
      PROVE  answer.what.version = server[selected].version
  <2>1. PICK d \in Details(selected) : answer = Answered(d)
    BY <1>1, <1>2, <1>5, <1>6
  <2> QED
    BY <2>1 DEF Details, Answered
<1>7. ASSUME ask.kind = "content", answer.is = "ok"
      PROVE  answer.what = server[selected].version
  <2>1. answer = Content(selected)
    BY <1>1, <1>2, <1>5, <1>7
  <2> QED
    BY <1>7, <2>1 DEF Content, Answered, Missing
<1>8. ServerOK' /\ ServerGrows
  BY <1>1, ServerStays DEF ServerGrows
<1>9. AskFresh'
  <2>1. server[selected].version \in Nat /\ own \in Nat /\ own <= server[selected].version
    BY <1>1 DEF ServerOK, OwnOK
  <2>2. ask.kind = "content" => detail.version \in Nat /\ detail.version <= server[selected].version
    BY <2>1 DEF ContentFresh, ContentOfReady, DetailFresh, NoDetail
  <2> QED
    BY <1>1, <1>4, <1>6, <1>7, <2>1, <2>2 DEF AskFresh
<1> QED
  BY <1>1, <1>4, <1>8, <1>9, OwnStays, DetailStays, PostsStay, ContentStays

LEMMA DeliverDetailFresh ==
  ASSUME Owned, Fresh, DeliverDetail
  PROVE  Fresh'
<1> USE DEF Fresh
<1>1. /\ ask # NoAsk /\ ask.kind = "detail" /\ selected \in Ids
      /\ UNCHANGED <<server, selected, posts, own>>
  BY DEF DeliverDetail, OwnOK, NoAsk, listVars
<1>2. ServerGrows /\ PostsFresh' /\ OwnOK'
  BY <1>1, ServerStays, PostsStay, OwnStays
<1>3. CASE ask.doc.is # "ok"
  <2>1. ask' = NoAsk /\ UNCHANGED <<detail, content>>
    BY <1>3 DEF DeliverDetail
  <2>2. AskFresh' /\ ask'.kind # "content"
    BY <2>1 DEF AskFresh, NoAsk
  <2> QED
    BY <1>1, <1>2, <2>1, <2>2, DetailStays, ContentStays DEF ServerGrows
<1>4. CASE ask.doc.is = "ok"
  <2>1. detail' = ask.doc.what /\ detail'.version \in own .. server[selected].version
    BY <1>1, <1>4 DEF DeliverDetail, AskFresh
  <2>2. DetailFresh'
    BY <1>1, <2>1 DEF DetailFresh
  <2>3. CASE detail'.status = "ready"
    <3>1. fetchContent(ask.id)
      BY <1>4, <2>3 DEF DeliverDetail
    <3>2. AskFresh' /\ ContentFresh'
      BY <2>3, <3>1 DEF AskFresh, ContentFresh, ContentOfReady, fetchContent, Waiting
    <3> QED
      BY <1>2, <2>2, <3>2 DEF ServerGrows
  <2>4. CASE detail'.status # "ready"
    <3>1. ask' = NoAsk /\ content' = IdleContent
      BY <1>4, <2>4 DEF DeliverDetail
    <3>2. AskFresh' /\ ContentFresh'
      BY <2>4, <3>1 DEF AskFresh, ContentFresh, ContentOfReady, NoAsk, IdleContent
    <3> QED
      BY <1>2, <2>2, <3>2 DEF ServerGrows
  <2> QED
    BY <2>3, <2>4
<1> QED
  BY <1>3, <1>4

LEMMA DeliverContentFresh ==
  ASSUME Fresh, DeliverContent
  PROVE  Fresh'
<1> USE DEF Fresh
<1>1. /\ ask.kind = "content" /\ ask' = NoAsk
      /\ UNCHANGED <<server, selected, detail, posts, own>>
  BY DEF DeliverContent, listVars
<1>2. ServerGrows /\ PostsFresh' /\ OwnOK' /\ DetailFresh'
  BY <1>1, ServerStays, PostsStay, OwnStays, DetailStays DEF OwnOK
<1>3. AskFresh' /\ ask'.kind # "content"
  BY <1>1 DEF AskFresh, NoAsk
<1>4. \/ ask.doc.is = "ok" /\ content' = [state |-> "ready", version |-> ask.doc.what]
      \/ content'.state \in {"missing", "error"}
  BY DEF DeliverContent
<1>5. ContentFresh'
  BY <1>1, <1>3, <1>4 DEF AskFresh, ContentFresh, ContentOfReady
<1> QED
  BY <1>2, <1>3, <1>5 DEF ServerGrows

LEMMA RetryFresh ==
  ASSUME Fresh, handleRetryContent
  PROVE  Fresh'
<1> USE DEF Fresh
<1>1. /\ selected # NoId /\ detail.status = "ready" /\ fetchContent(selected)
      /\ UNCHANGED <<server, selected, detail, posts, own>>
  BY DEF handleRetryContent
<1>2. ServerGrows /\ PostsFresh' /\ OwnOK' /\ DetailFresh'
  BY <1>1, ServerStays, PostsStay, OwnStays, DetailStays DEF OwnOK
<1>3. AskFresh' /\ ContentFresh'
  BY <1>1 DEF AskFresh, ContentFresh, ContentOfReady, fetchContent, Waiting
<1> QED
  BY <1>2, <1>3 DEF ServerGrows

LEMMA PollDetailFresh ==
  ASSUME Fresh, PollDetail
  PROVE  Fresh'
<1> USE DEF Fresh
<1>1. /\ selected # NoId /\ detail.status = "pending" /\ fetchDetail(selected)
      /\ UNCHANGED <<server, selected, detail, content, posts, own>>
  BY DEF PollDetail, listVars
<1>2. ServerGrows /\ PostsFresh' /\ OwnOK' /\ DetailFresh'
  BY <1>1, ServerStays, PostsStay, OwnStays, DetailStays DEF OwnOK
<1>3. AskFresh' /\ ContentFresh'
  BY <1>1 DEF AskFresh, ContentFresh, ContentOfReady, fetchDetail, Waiting
<1> QED
  BY <1>2, <1>3 DEF ServerGrows

LEMMA ReprocessClickFresh ==
  ASSUME Fresh, ReprocessClick
  PROVE  PostsFresh'
<1> DEFINE new == [id |-> selected, token |-> token, mine |-> TRUE, doc |-> Waiting]
<1>1. posts' = posts \cup {new} /\ server' = server /\ selected \in Ids
  BY DEF ReprocessClick, Fresh, OwnOK
<1>2. new.id \in Ids /\ new.doc.is # "ok"
  BY <1>1, WaitingIsNoAnswer
<1> HIDE DEF new
<1> QED
  BY <1>1, <1>2 DEF Fresh, PostsFresh

LEMMA ReprocessServeFresh ==
  ASSUME Owned, Fresh, NEW p \in posts, ReprocessServe(p)
  PROVE  PostsFresh' /\ ServerGrows
<1> USE DEF Fresh
<1>1. p.id \in Ids
  BY DEF PostsFresh
<1>2. ServerGrows
  BY <1>1, ReprocessGrows
<1>3. PICK answer, version :
        /\ posts' = (posts \ {p}) \cup {[p EXCEPT !.doc = answer]}
        /\ answer.is = "ok" => answer.what = version /\ version \in 0 .. server'[p.id].version
  BY <1>1, ReprocessGrows
<1> DEFINE new == [p EXCEPT !.doc = answer]
<1>4. new.id = p.id /\ new.doc = answer
  <2>1. PICK a, b, c, d : p = [id |-> a, token |-> b, mine |-> c, doc |-> d]
    BY DEF Owned, PostsOwned, IsPost
  <2>2. new = [id |-> a, token |-> b, mine |-> c, doc |-> answer]
    BY <2>1
  <2> QED
    BY <2>1, <2>2
<1>5. new.id \in Ids /\ (new.doc.is = "ok" => new.doc.what \in 0 .. server'[new.id].version)
  BY <1>1, <1>3, <1>4
<1>6. posts' \subseteq posts \cup {new}
  BY <1>3
<1> HIDE DEF new
<1>7. \A q \in posts : q.id \in Ids /\ (q.doc.is = "ok" => q.doc.what \in 0 .. server'[q.id].version)
  BY <1>2 DEF PostsFresh, ServerGrows, ServerOK
<1> QED
  BY <1>2, <1>5, <1>6, <1>7 DEF PostsFresh

LEMMA ReprocessAckFresh ==
  ASSUME Owned, Fresh, NEW p \in posts, ReprocessAck(p)
  PROVE  Fresh'
<1> USE DEF Fresh
<1>1. UNCHANGED <<server, selected>> /\ posts' \subseteq posts /\ p.doc.is = "ok"
  BY DEF ReprocessAck
<1>2. ServerGrows /\ PostsFresh'
  BY <1>1, ServerStays, PostsStay
<1>3. CASE p.token = token /\ p.mine
  <2> DEFINE version == p.doc.what
  <2>1. p.id = selected /\ detail # NoDetail /\ selected \in Ids /\ version \in 0 .. server[selected].version
    BY <1>1, <1>3 DEF Owned, PostsOwned, OwnOK, PostsFresh
  <2>2. ResetDetail(version)
    BY <1>3 DEF ReprocessAck
  <2>3. PICK a, b, c : detail = [id |-> a, status |-> b, version |-> c]
    BY <2>1 DEF Owned, DetailOwned, IsDetail
  <2>4. detail' = [id |-> a, status |-> "pending", version |-> version]
    BY <2>2, <2>3 DEF ResetDetail
  <2>5. own' = version /\ ask' = NoAsk /\ content' = IdleContent
    BY <2>2 DEF ResetDetail
  <2> HIDE DEF version
  <2>6. server[selected].version \in Nat
    BY <2>1 DEF ServerOK
  <2>7. OwnOK' /\ DetailFresh'
    BY <1>1, <2>1, <2>4, <2>5, <2>6 DEF OwnOK, DetailFresh
  <2>8. AskFresh' /\ ContentFresh'
    BY <2>4, <2>5 DEF AskFresh, ContentFresh, ContentOfReady, NoAsk, IdleContent
  <2> QED
    BY <1>2, <2>7, <2>8 DEF ServerGrows
<1>4. CASE ~(p.token = token /\ p.mine)
  <2>1. UNCHANGED <<detail, content, ask, own>>
    BY <1>4 DEF ReprocessAck
  <2> QED
    BY <1>1, <1>2, <2>1, OwnStays, DetailStays, AskStays, ContentStays DEF ServerGrows, OwnOK
<1> QED
  BY <1>3, <1>4

\* The steps that leave the detail view alone.
LEMMA ViewStays ==
  ASSUME Fresh, ServerGrows, PostsFresh', UNCHANGED <<selected, detail, content, ask, own>>
  PROVE  Fresh'
BY OwnStays, DetailStays, AskStays, ContentStays DEF Fresh, ServerGrows, OwnOK

LEMMA DetailNextFresh == ASSUME Owned, Fresh, DetailNext PROVE Fresh'
<1>0. ServerOK /\ PostsFresh
  BY DEF Fresh
<1>1. CASE DeliverRaw \/ handleDownloadRaw
  <2>1. UNCHANGED <<server, selected, detail, content, ask, own, posts>>
    BY <1>1 DEF DeliverRaw, handleDownloadRaw, listVars
  <2> QED
    BY <1>0, <2>1, ServerStays, PostsStay, ViewStays
<1>2. CASE Back
  BY <1>2, BackFresh DEF Back
<1>3. CASE ReprocessClick
  <2>1. UNCHANGED <<server, selected, detail, content, ask, own>>
    BY <1>3 DEF ReprocessClick
  <2> QED
    BY <1>0, <1>3, <2>1, ReprocessClickFresh, ServerStays, ViewStays
<1>4. ASSUME NEW t, SaveToken(t)
      PROVE  Fresh'
  <2>1. server' = server
    BY <1>4 DEF SaveToken
  <2>2. CASE t # token
    BY <1>4, <2>1, <2>2, BackFresh DEF SaveToken
  <2>3. CASE t = token
    BY <1>0, <1>4, <2>1, <2>3, ServerStays, PostsStay, ViewStays DEF SaveToken, detailVars
  <2> QED
    BY <2>2, <2>3
<1>5. ASSUME NEW p \in posts, ReprocessServe(p)
      PROVE  Fresh'
  <2>1. UNCHANGED <<selected, detail, content, ask, own>>
    BY <1>5 DEF ReprocessServe
  <2> QED
    BY <1>5, <2>1, ReprocessServeFresh, ViewStays
<1>6. ASSUME NEW p \in posts, ReprocessFail(p)
      PROVE  Fresh'
  <2>1. UNCHANGED <<server, selected, detail, content, ask, own>> /\ posts' \subseteq posts
    BY <1>6 DEF ReprocessFail, listVars
  <2> QED
    BY <1>0, <2>1, ServerStays, PostsStay, ViewStays
<1> QED
  BY <1>1, <1>2, <1>3, <1>4, <1>5, <1>6, ServeDetailFresh, DeliverDetailFresh, DeliverContentFresh,
     PollDetailFresh, RetryFresh, SelectFresh, ReprocessAckFresh DEF DetailNext

LEMMA InitFresh == Init => Fresh
<1> SUFFICES ASSUME Init PROVE Fresh
  OBVIOUS
<1>1. ServerOK
  BY DEF Init, ListInit, ServerOK, Absent
<1>2. OwnOK
  BY DEF Init, OwnOK, NoId, Ids
<1>3. DetailFresh /\ AskFresh /\ PostsFresh /\ ContentFresh
  BY DEF Init, DetailFresh, AskFresh, PostsFresh, ContentFresh, ContentOfReady,
         NoAsk, NoDetail, IdleContent
<1> QED
  BY <1>1, <1>2, <1>3 DEF Fresh

LEMMA NextFresh == Owned /\ Fresh /\ [Next]_vars => Fresh'
<1> SUFFICES ASSUME Owned, Fresh, [Next]_vars PROVE Fresh'
  OBVIOUS
<1>1. ServerOK /\ PostsFresh
  BY DEF Fresh
<1>2. CASE UNCHANGED vars
  BY <1>1, <1>2, ServerStays, PostsStay, ViewStays DEF vars, listVars, detailVars
<1>3. CASE ListNext
  BY <1>1, <1>3, ListGrows, PostsStay, ViewStays DEF ListNext, detailVars
<1> QED
  BY <1>2, <1>3, DetailNextFresh DEF Next

LEMMA FreshShows == Fresh => ContentOfReady /\ DetailReadsYourWrites
<1> SUFFICES ASSUME Fresh PROVE ContentOfReady /\ DetailReadsYourWrites
  OBVIOUS
<1>1. ContentOfReady
  BY DEF Fresh, ContentFresh
<1>2. detail # NoDetail => own \in Nat /\ detail.version \in Nat /\ detail.version >= own
  BY DEF Fresh, OwnOK, DetailFresh
<1>3. content.state = "ready" => content.version \in Nat /\ content.version >= detail.version /\ detail # NoDetail
  BY <1>1 DEF Fresh, ContentFresh, ContentOfReady, NoDetail
<1> QED
  BY <1>1, <1>2, <1>3 DEF DetailReadsYourWrites

\* A reading that is ready is shown with its content, loading or loaded, and
\* the text is never older than the reading it is shown with, whatever answers
\* are overtaken (App.tsx fetchDetail, fetchContent).
THEOREM ContentCorrect == Spec => []ContentOfReady
<1>1. Spec => [](Owned /\ Fresh)
  BY InitOwned, NextOwns, InitFresh, NextFresh, PTL DEF Spec
<1> QED
  BY <1>1, FreshShows, PTL

-----------------------------------------------------------------------------
(* What the list shows: pages, and not too old ones *)

RowSet == [id : Ids, status : {"pending", "ready", "failed"}, version : Nat \ {0}]

\* What was acknowledged of every reading: an answer on its way is not older.
\* A row that is shown is not older either, but for those that an acknowledged
\* submit found on the screen: they are not older than the last reset.
Acked == [id \in Ids |-> Later(past.reset[id], past.submitted[id])]
Floor == [id \in Ids |-> IF id \in past.kept THEN past.reset[id] ELSE Acked[id]]

\* The readings there are.
Have == {id \in Ids : server[id] # Absent}

\* Rows one below the other, none left out, none older than what was
\* acknowledged of it.
RowsOK(rows, have, acked) ==
  /\ rows \in Seq(RowSet)
  /\ \A i \in DOMAIN rows : /\ rows[i].id \in have /\ rows[i].id = rows[1].id + 1 - i
                            /\ rows[i].version >= acked[rows[i].id]

CursorOK(c, have) == c = NoCursor \/ c \in have \ {1}

\* What the server answers when it is asked for the page at a cursor.
PageOK(page, c, have, acked) ==
  /\ page = [rows |-> page.rows, next |-> page.next]
  /\ RowsOK(page.rows, have, acked) /\ Len(page.rows) <= PageSize
  /\ c # NoCursor => page.rows # << >> /\ page.rows[1].id = c - 1
  /\ CursorOK(page.next, have)
  /\ page.next # NoCursor => Len(page.rows) = PageSize /\ page.next = page.rows[PageSize].id

\* Nothing that is known is above them.
Covers(rows, known) == rows # << >> => \A id \in known : id <= rows[1].id

\* The cursors are where the pages below the first one start.
Cuts(cursors, rows) ==
  /\ cursors \in Seq(Ids) /\ Len(cursors) < MaxId
  /\ \A i \in DOMAIN cursors : i * PageSize \in DOMAIN rows /\ cursors[i] = rows[i * PageSize].id

\* The ids some part of the client has come to know.
Known == ShownIds \cup {selected} \cup {p.id : p \in posts} \cup {id \in Ids : Acked[id] > 0}

ServerPaged ==
  /\ ServerOK
  /\ \A id \in Ids : server[id] = Absent \/ (server[id].status # "none" /\ server[id].version > 0)
  /\ \E top \in 0 .. MaxId : Have = 1 .. top

PastType == [reset : [Ids -> Nat], submitted : [Ids -> Nat], kept : SUBSET Ids, dropped : BOOLEAN]

PastPaged ==
  /\ past \in PastType
  /\ \A id \in Ids : Acked[id] <= server[id].version
  /\ Known \subseteq Have \cup {NoId}
  /\ \A p \in posts : p.doc.is = "ok" => p.token = "good" /\ p.doc.what \in 1 .. server[p.id].version

FormPaged ==
  /\ submit.at \in {"sent", "done"} => submit.pages \in 1 .. MaxId
  /\ submit.at = "done" => /\ submit.token = "good" /\ submit.id \in Have
                           /\ submit.version \in 1 .. server[submit.id].version

BusyPaged == busy \in BOOLEAN /\ (busy <=> current # NoRequest)

\* What is shown: pages from the first one to where the next one starts.
ShownOK(rows, next, cursors, have, acked) ==
  /\ RowsOK(rows, have, acked)
  /\ cursors \in Seq(Ids) /\ Len(cursors) < MaxId
  /\ rows # << >> =>
       /\ Cuts(cursors, rows)
       /\ PageSize * Len(cursors) < Len(rows) /\ Len(rows) <= PageSize * (Len(cursors) + 1)
  /\ CursorOK(next, have)
  /\ next # NoCursor => Len(rows) = PageSize * (Len(cursors) + 1) /\ next = rows[Len(rows)].id

\* All of the list is there, as far as the client knows.
Settled(q) == q = NoRequest \/ q.kind = "more"

ViewPaged ==
  /\ ShownOK(view.readings, view.next, view.cursors, Have, Floor)
  /\ ~past.dropped /\ Settled(current) => Covers(view.readings, Known)

\* Whole pages, and the cursor of the one below them.
Pieces(rows, cursors, c, have, acked) ==
  /\ RowsOK(rows, have, acked) /\ Cuts(cursors, rows) /\ Len(rows) = PageSize * Len(cursors)
  /\ c = IF rows = << >> THEN NoCursor ELSE rows[Len(rows)].id

\* The pages a refresh has by now.
PagesOK(q, have, acked, known) ==
  /\ Pieces(q.rows, q.cursors, q.cursor, have, acked) /\ Covers(q.rows, known)
  /\ Len(q.cursors) + q.pages <= MaxId

AnswerOK(doc, c, have, acked, known) ==
  doc.is = "ok" => PageOK(doc.what, c, have, acked) /\ (c = NoCursor => Covers(doc.what.rows, known))

RequestOK(q, next, have, acked, known) ==
  /\ q.kind \in {"first", "more", "refresh"}
  /\ q.pages \in 1 .. MaxId
  /\ CursorOK(q.cursor, have)
  /\ q.kind = "more" => ~q.bypass /\ q.cursor # NoCursor /\ q.cursor = next
  /\ q.kind # "more" => PagesOK(q, have, acked, known)
  /\ AnswerOK(q.own, q.cursor, have, acked, known)

\* The request a request for a page is made for.
Awaits(q, f) == q # NoRequest /\ ~q.bypass /\ Same(f, q)

SharedOK(requests, q, t, have, acked, known) ==
  /\ \A f, g \in requests : Same(f, g) => f = g
  /\ \A f \in requests :
       /\ CursorOK(f.cursor, have)
       /\ AnswerOK(f.doc, f.cursor, have, acked, known)
       /\ f.cursor = NoCursor /\ f.token = "good" => t # "good" \/ Awaits(q, f)

Paged ==
  /\ ServerPaged /\ PastPaged /\ FormPaged /\ BusyPaged /\ ViewPaged
  /\ current = NoRequest \/ RequestOK(current, view.next, Have, Acked, Known)
  /\ SharedOK(shared, current, token, Have, Acked, Known)

-----------------------------------------------------------------------------
(* What was acknowledged *)

LEMMA LaterIs ==
  ASSUME NEW i \in Nat, NEW j \in Nat
  PROVE  Later(i, j) \in Nat /\ Later(i, j) >= i /\ Later(i, j) >= j /\ Later(i, j) \in {i, j}
BY DEF Later

LEMMA PastIs ==
  ASSUME past \in PastType
  PROVE  /\ Acked \in [Ids -> Nat] /\ Floor \in [Ids -> Nat]
         /\ \A id \in Ids : /\ past.reset[id] \in Nat /\ past.submitted[id] \in Nat
                            /\ Acked[id] = Later(past.reset[id], past.submitted[id])
                            /\ Floor[id] = IF id \in past.kept THEN past.reset[id] ELSE Acked[id]
                            /\ past.reset[id] <= Floor[id] /\ Floor[id] <= Acked[id]
<1>1. \A id \in Ids : /\ past.reset[id] \in Nat /\ past.submitted[id] \in Nat
                      /\ Acked[id] = Later(past.reset[id], past.submitted[id])
                      /\ Floor[id] = IF id \in past.kept THEN past.reset[id] ELSE Acked[id]
  BY DEF PastType, Acked, Floor
<1>2. \A id \in Ids : Acked[id] \in Nat /\ past.reset[id] <= Acked[id]
  BY <1>1 DEF Later
<1>3. \A id \in Ids : Floor[id] \in Nat /\ past.reset[id] <= Floor[id] /\ Floor[id] <= Acked[id]
  BY <1>1, <1>2
<1> QED
  BY <1>1, <1>2, <1>3 DEF Acked, Floor

LEMMA PastSame == ASSUME past' = past PROVE Acked' = Acked /\ Floor' = Floor
BY DEF Acked, Floor

-----------------------------------------------------------------------------
(* What the operators of the list compute *)

LEMMA CountUpTo == ASSUME NEW n \in Nat PROVE Cardinality(1 .. n) = n
<1>1. Cardinality(1 .. n) = IF 1 > n THEN 0 ELSE n - 1 + 1
  BY FS_Interval
<1> QED
  BY <1>1

LEMMA NthOfAll ==
  ASSUME NEW n \in Nat, NEW k \in 1 .. n
  PROVE  Nth(1 .. n, k) = k
<1>1. ASSUME NEW i \in 1 .. n
      PROVE  Cardinality({m \in 1 .. n : m < i}) = i - 1
  <2>1. {m \in 1 .. n : m < i} = 1 .. (i - 1)
    OBVIOUS
  <2> DEFINE b == i - 1
  <2>2. Cardinality(1 .. b) = b
    <3>1. b \in Nat
      OBVIOUS
    <3> HIDE DEF b
    <3> QED
      BY <3>1, CountUpTo
  <2> QED
    BY <2>1, <2>2
<1>2. \A i \in 1 .. n : Cardinality({m \in 1 .. n : m < i}) = k - 1 <=> i = k
  BY <1>1
<1> QED
  BY <1>2 DEF Nth

LEMMA RowsAre ==
  ASSUME NEW rows, NEW have, NEW acked, RowsOK(rows, have, acked)
  PROVE  /\ rows \in Seq(RowSet) /\ Len(rows) \in Nat /\ DOMAIN rows = 1 .. Len(rows)
         /\ rows = << >> <=> Len(rows) = 0
         /\ \A i \in 1 .. Len(rows) :
              /\ rows[i] \in RowSet /\ rows[i].id \in Nat \ {0} /\ rows[i].id <= MaxId
              /\ rows[i].id \in have /\ rows[i].id = rows[1].id + 1 - i
         /\ Len(rows) <= MaxId
<1>1. rows \in Seq(RowSet) /\ Len(rows) \in Nat /\ DOMAIN rows = 1 .. Len(rows)
  BY DEF RowsOK
<1>2. \A i \in 1 .. Len(rows) :
        /\ rows[i] \in RowSet /\ rows[i].id \in have /\ rows[i].id = rows[1].id + 1 - i
  BY <1>1 DEF RowsOK
<1>3. \A i \in 1 .. Len(rows) : rows[i].id \in Nat \ {0} /\ rows[i].id <= MaxId
  BY <1>2, ClientConstants DEF RowSet, Ids
<1>4. Len(rows) <= MaxId
  <2>1. CASE Len(rows) = 0
    BY <2>1, ClientConstants
  <2>2. CASE Len(rows) # 0
    <3>1. 1 \in 1 .. Len(rows) /\ Len(rows) \in 1 .. Len(rows)
      BY <1>1, <2>2
    <3>2. /\ rows[1].id \in Nat /\ rows[1].id <= MaxId
          /\ rows[Len(rows)].id \in Nat \ {0} /\ rows[Len(rows)].id = rows[1].id + 1 - Len(rows)
      BY <1>2, <1>3, <3>1
    <3> QED
      BY <1>1, <3>2, ClientConstants
  <2> QED
    BY <2>1, <2>2
<1>5. rows = << >> <=> Len(rows) = 0
  BY <1>1
<1> QED
  BY <1>1, <1>2, <1>3, <1>4, <1>5

\* Rows that go on where others end are appended to them.
LEMMA AppendIs ==
  ASSUME NEW rows, NEW more, rows \in Seq(RowSet), more \in Seq(RowSet),
         \A i \in DOMAIN rows, j \in DOMAIN more : rows[i].id # more[j].id
  PROVE  appendUnique(rows, more) = rows \o more
<1>1. Len(more) \in Nat /\ DOMAIN more = 1 .. Len(more)
  OBVIOUS
<1> DEFINE new == {j \in DOMAIN more : {i \in DOMAIN rows : rows[i].id = more[j].id} = {}}
           old == [i \in DOMAIN rows |->
                     IF {j \in DOMAIN more : more[j].id = rows[i].id} = {} THEN rows[i]
                     ELSE more[CHOOSE j \in {j \in DOMAIN more : more[j].id = rows[i].id} : TRUE]]
           rest == [k \in 1 .. Cardinality(new) |-> more[Nth(new, k)]]
<1>2. appendUnique(rows, more) = old \o rest
  BY DEF appendUnique
<1>3. old = rows
  <2>1. \A i \in DOMAIN rows : {j \in DOMAIN more : more[j].id = rows[i].id} = {}
    OBVIOUS
  <2>2. old = [i \in DOMAIN rows |-> rows[i]]
    BY <2>1
  <2> QED
    BY <2>2
<1>4. new = 1 .. Len(more)
  BY <1>1
<1> HIDE DEF new
<1>5. Cardinality(new) = Len(more)
  BY <1>1, <1>4, CountUpTo
<1>6. \A k \in 1 .. Len(more) : Nth(new, k) = k
  BY <1>1, <1>4, NthOfAll
<1>7. rest = [k \in DOMAIN more |-> more[k]]
  BY <1>1, <1>5, <1>6
<1>8. rest = more
  <2>1. more = [k \in DOMAIN more |-> more[k]]
    OBVIOUS
  <2> QED
    BY <1>7, <2>1
<1> HIDE DEF old, rest
<1> QED
  BY <1>2, <1>3, <1>8

\* Rows, and then more rows.
Together(new, rows, more) ==
  /\ Len(new) = Len(rows) + Len(more)
  /\ \A i \in 1 .. Len(rows) : new[i] = rows[i]
  /\ \A j \in 1 .. Len(more) : new[Len(rows) + j] = more[j]

LEMMA Joined ==
  ASSUME NEW rows, NEW more, NEW have, NEW acked,
         RowsOK(rows, have, acked), RowsOK(more, have, acked),
         rows # << >> /\ more # << >> => more[1].id = rows[Len(rows)].id - 1,
         NEW new, new = appendUnique(rows, more)
  PROVE  RowsOK(new, have, acked) /\ Together(new, rows, more)
<1> DEFINE m == Len(rows)
           n == Len(more)
<1>1. /\ rows \in Seq(RowSet) /\ m \in Nat /\ DOMAIN rows = 1 .. m /\ (rows = << >> <=> m = 0)
      /\ \A i \in 1 .. m : rows[i].id \in Nat /\ rows[i].id = rows[1].id + 1 - i
  BY RowsAre
<1>2. /\ more \in Seq(RowSet) /\ n \in Nat /\ DOMAIN more = 1 .. n /\ (more = << >> <=> n = 0)
      /\ \A j \in 1 .. n : more[j].id \in Nat /\ more[j].id = more[1].id + 1 - j
  BY RowsAre
<1>3. \A i \in 1 .. m, j \in 1 .. n : more[j].id = rows[1].id + 1 - (m + j)
  <2> SUFFICES ASSUME NEW i \in 1 .. m, NEW j \in 1 .. n
               PROVE  more[j].id = rows[1].id + 1 - (m + j)
    OBVIOUS
  <2>1. m \in 1 .. m /\ 1 \in 1 .. m /\ 1 \in 1 .. n /\ rows # << >> /\ more # << >>
    BY <1>1, <1>2
  <2>2. more[1].id = rows[m].id - 1 /\ rows[m].id = rows[1].id + 1 - m
    BY <1>1, <2>1
  <2>3. rows[1].id \in Nat /\ more[1].id \in Nat /\ more[j].id = more[1].id + 1 - j
    BY <1>1, <1>2, <2>1
  <2> QED
    BY <1>1, <1>2, <2>2, <2>3, SMTT(30)
<1>4. \A i \in 1 .. m, j \in 1 .. n : rows[i].id # more[j].id
  <2> SUFFICES ASSUME NEW i \in 1 .. m, NEW j \in 1 .. n
               PROVE  rows[i].id # more[j].id
    OBVIOUS
  <2>1. rows[1].id \in Nat /\ rows[i].id = rows[1].id + 1 - i /\ more[j].id = rows[1].id + 1 - (m + j)
    BY <1>1, <1>3
  <2> QED
    BY <1>1, <1>2, <2>1
<1>5. new = rows \o more
  <2>1. \A i \in DOMAIN rows, j \in DOMAIN more : rows[i].id # more[j].id
    BY <1>1, <1>2, <1>4
  <2> QED
    BY <1>1, <1>2, <2>1, AppendIs
<1>6. /\ new \in Seq(RowSet) /\ Len(new) = m + n /\ DOMAIN new = 1 .. (m + n)
      /\ \A i \in 1 .. m : new[i] = rows[i]
      /\ \A j \in 1 .. n : new[m + j] = more[j]
  BY <1>1, <1>2, <1>5
<1>7. ASSUME NEW i \in DOMAIN new
      PROVE  /\ new[i].id \in have /\ new[i].id = new[1].id + 1 - i
             /\ new[i].version >= acked[new[i].id]
  <2>1. CASE i \in 1 .. m
    <3>1. new[i] = rows[i] /\ new[1] = rows[1]
      BY <1>1, <1>6, <2>1
    <3> QED
      BY <1>1, <2>1, <3>1 DEF RowsOK
  <2>2. CASE i \notin 1 .. m
    <3> DEFINE j == i - m
    <3>1. j \in 1 .. n /\ i = m + j
      <4>1. i \in 1 .. (m + n) /\ m \in Nat /\ n \in Nat
        BY <1>1, <1>2, <1>6
      <4> HIDE DEF m, n
      <4> QED
        BY <2>2, <4>1
    <3> HIDE DEF j
    <3>2. new[i] = more[j]
      BY <1>6, <3>1
    <3>3. CASE m = 0
      <4>1. new[1] = more[1] /\ i = j
        <5>1. 1 \in 1 .. n /\ m + 1 = 1 /\ m + j = j
          BY <1>2, <3>1, <3>3
        <5> QED
          BY <1>6, <3>1, <5>1
      <4> QED
        BY <1>2, <3>1, <3>2, <4>1 DEF RowsOK
    <3>4. CASE m # 0
      <4>1. 1 \in 1 .. m /\ new[1] = rows[1]
        BY <1>1, <1>6, <3>4
      <4>2. more[j].id = rows[1].id + 1 - i
        BY <1>3, <3>1, <4>1
      <4> QED
        BY <1>2, <3>1, <3>2, <4>1, <4>2 DEF RowsOK
    <3> QED
      BY <3>3, <3>4
  <2> QED
    BY <2>1, <2>2
<1> QED
  BY <1>6, <1>7 DEF RowsOK, Together

\* The server cuts its readings into pages.
LEMMA Served ==
  ASSUME ServerPaged, PastPaged, NEW c, CursorOK(c, Have)
  PROVE  AnswerOK(Answered(Page(c)), c, Have, Acked, Known)
<1>1. PICK top \in 0 .. MaxId : Have = 1 .. top
  BY DEF ServerPaged
<1> DEFINE n    == IF c = NoCursor THEN top ELSE c - 1
           ids  == {id \in Ids : server[id] # Absent /\ (c # NoCursor => id < c)}
           size == IF n > PageSize THEN PageSize ELSE n
           rows == [i \in 1 .. size |-> Row(n + 1 - i)]
           next == IF n > PageSize THEN n + 1 - PageSize ELSE NoCursor
<1>2. /\ n \in Nat /\ n <= top /\ size \in Nat /\ size <= n /\ size <= PageSize
      /\ PageSize \in Nat \ {0} /\ (c # NoCursor => n # 0)
  BY <1>1, ClientConstants DEF CursorOK, NoCursor
<1>3. ids = 1 .. n
  <2>1. \A id : id \in ids <=> id \in Have /\ (c # NoCursor => id < c)
    BY DEF Have
  <2>2. c # NoCursor => c \in Nat
    BY <1>1 DEF CursorOK
  <2>3. \A id : id \in ids <=> id \in 1 .. n
    BY <1>1, <1>2, <2>1, <2>2, ClientConstants
  <2> HIDE DEF ids, n
  <2> QED
    BY <2>3
<1>4. Page(c) = [rows |-> rows, next |-> next]
  <2> DEFINE k == Cardinality(ids)
             sz == IF k > PageSize THEN PageSize ELSE k
  <2>1. Page(c) = [rows |-> [i \in 1 .. sz |-> Row(Nth(ids, k + 1 - i))],
                   next |-> IF k > PageSize THEN Nth(ids, k + 1 - PageSize) ELSE NoCursor]
    BY DEF Page
  <2> HIDE DEF ids
  <2>2. k = n
    <3> HIDE DEF n
    <3> QED
      BY <1>2, <1>3, CountUpTo
  <2> HIDE DEF k
  <2>3. sz = size
    BY <2>2
  <2>4. \A i \in 1 .. n : Nth(ids, n + 1 - i) = n + 1 - i
    <3> SUFFICES ASSUME NEW i \in 1 .. n PROVE Nth(ids, n + 1 - i) = n + 1 - i
      OBVIOUS
    <3> DEFINE j == n + 1 - i
    <3>1. j \in 1 .. n
      BY <1>2
    <3> HIDE DEF j, n
    <3>2. Nth(1 .. n, j) = j
      BY <1>2, <3>1, NthOfAll
    <3> QED
      BY <1>3, <3>2 DEF j
  <2>5. \A i \in 1 .. size : i \in 1 .. n
    BY <1>2
  <2>6. n > PageSize => PageSize \in 1 .. n
    BY <1>2
  <2> HIDE DEF n, sz, size
  <2>7. [i \in 1 .. sz |-> Row(Nth(ids, k + 1 - i))] = rows
    BY <2>2, <2>3, <2>4, <2>5
  <2>8. (IF k > PageSize THEN Nth(ids, k + 1 - PageSize) ELSE NoCursor) = next
    BY <2>2, <2>4, <2>6
  <2> QED
    BY <2>1, <2>7, <2>8
<1>5. \A id \in Have : Row(id) \in RowSet /\ Row(id).id = id /\ Row(id).version >= Acked[id]
  <2> SUFFICES ASSUME NEW id \in Have
               PROVE  Row(id) \in RowSet /\ Row(id).id = id /\ Row(id).version >= Acked[id]
    OBVIOUS
  <2>1. id \in Ids /\ server[id].status \in {"pending", "ready", "failed"} /\ server[id].version \in Nat \ {0}
    BY DEF Have, ServerPaged, ServerOK
  <2>2. Acked[id] <= server[id].version
    BY <2>1 DEF PastPaged
  <2>3. Acked[id] \in Nat
    BY <2>1, PastIs DEF PastPaged
  <2> QED
    BY <2>1, <2>2, <2>3 DEF Row, RowSet
<1>6. \A i \in 1 .. size : n + 1 - i \in Have
  BY <1>1, <1>2
<1> HIDE DEF n, size, next
<1>7. \A i \in 1 .. size : rows[i] = Row(n + 1 - i) /\ rows[i].id = n + 1 - i
  BY <1>5, <1>6
<1>8. rows \in Seq(RowSet) /\ Len(rows) = size /\ DOMAIN rows = 1 .. size
  <2>1. \A i \in 1 .. size : Row(n + 1 - i) \in RowSet
    BY <1>5, <1>6
  <2> QED
    BY <1>2, <2>1
<1> HIDE DEF rows
<1>9. RowsOK(rows, Have, Acked)
  <2> SUFFICES ASSUME NEW i \in 1 .. size
               PROVE  /\ rows[i].id \in Have /\ rows[i].id = rows[1].id + 1 - i
                      /\ rows[i].version >= Acked[rows[i].id]
    BY <1>8 DEF RowsOK
  <2>1. rows[i].id = n + 1 - i /\ rows[i] = Row(n + 1 - i) /\ n + 1 - i \in Have
    BY <1>6, <1>7
  <2>2. rows[1].id = n
    <3>1. 1 \in 1 .. size /\ n + 1 - 1 = n
      BY <1>2
    <3> QED
      BY <1>7, <3>1
  <2>3. rows[i].version >= Acked[rows[i].id]
    BY <1>5, <2>1
  <2> QED
    BY <1>2, <2>1, <2>2, <2>3
<1>10. rows # << >> => rows[1].id = n
  <2> SUFFICES ASSUME rows # << >> PROVE rows[1].id = n
    OBVIOUS
  <2>1. size # 0
    BY <1>8
  <2>2. 1 \in 1 .. size /\ n + 1 - 1 = n
    BY <1>2, <2>1
  <2> QED
    BY <1>7, <2>2
<1>11. c # NoCursor => rows # << >> /\ n = c - 1
  <2> SUFFICES ASSUME c # NoCursor PROVE rows # << >> /\ n = c - 1
    OBVIOUS
  <2>1. n = c - 1 /\ n # 0
    BY <1>2 DEF n
  <2>2. size # 0
    BY <1>2, <2>1 DEF size
  <2> QED
    BY <1>8, <2>1, <2>2
<1>12. CursorOK(next, Have) /\ (next # NoCursor => size = PageSize /\ next = rows[PageSize].id)
  <2>1. CASE n > PageSize
    <3>1. size = PageSize /\ next = n + 1 - PageSize /\ PageSize \in 1 .. size
      BY <1>2, <2>1 DEF size, next
    <3>2. next \in Have \ {1}
      BY <1>1, <1>2, <2>1, <3>1
    <3> QED
      BY <1>7, <3>1, <3>2 DEF CursorOK
  <2>2. CASE ~(n > PageSize)
    BY <2>2 DEF next, CursorOK
  <2> QED
    BY <2>1, <2>2
<1>13. c = NoCursor => Covers(rows, Known)
  <2> SUFFICES ASSUME c = NoCursor, rows # << >>, NEW id \in Known PROVE id <= rows[1].id
    BY DEF Covers
  <2>1. n = top
    BY DEF n
  <2>2. id \in Have \/ id = NoId
    BY DEF PastPaged
  <2> QED
    BY <1>1, <1>10, <2>1, <2>2 DEF NoId
<1> DEFINE page == [rows |-> rows, next |-> next]
<1>14. page.rows = rows /\ page.next = next /\ Page(c) = page
  BY <1>4
<1> HIDE DEF page
<1>15. PageOK(Page(c), c, Have, Acked) /\ (c = NoCursor => Covers(Page(c).rows, Known))
  <2>1. page = [rows |-> page.rows, next |-> page.next]
    BY <1>14 DEF page
  <2>2. Len(rows) <= PageSize
    BY <1>2, <1>8
  <2> QED
    BY <1>8, <1>9, <1>10, <1>11, <1>12, <1>13, <1>14, <2>1, <2>2 DEF PageOK
<1> QED
  BY <1>15 DEF AnswerOK, Answered

-----------------------------------------------------------------------------
(* What stays when the server goes on and no more is known *)

LEMMA RowsStay ==
  ASSUME NEW rows, NEW have, NEW acked, RowsOK(rows, have, acked),
         NEW more, have \subseteq more
  PROVE  RowsOK(rows, more, acked)
BY DEF RowsOK

\* Rows that are as new as all that was acknowledged may be shown.
LEMMA MayBeShown ==
  ASSUME past \in PastType, NEW rows, NEW have, have \subseteq Ids
  PROVE  /\ RowsOK(rows, have, Acked) => RowsOK(rows, have, Floor)
         /\ \A next, cursors : ShownOK(rows, next, cursors, have, Acked) => ShownOK(rows, next, cursors, have, Floor)
<1>1. ASSUME RowsOK(rows, have, Acked) PROVE RowsOK(rows, have, Floor)
  <2> SUFFICES ASSUME NEW i \in DOMAIN rows PROVE rows[i].version >= Floor[rows[i].id]
    BY <1>1 DEF RowsOK
  <2>1. rows[i] \in RowSet /\ rows[i].id \in Ids /\ rows[i].version >= Acked[rows[i].id]
    BY <1>1 DEF RowsOK
  <2>2. rows[i].version \in Nat
    BY <2>1 DEF RowSet
  <2>3. /\ Acked[rows[i].id] \in Nat /\ Floor[rows[i].id] \in Nat
        /\ Floor[rows[i].id] <= Acked[rows[i].id]
    BY <2>1, PastIs
  <2> QED
    BY <2>1, <2>2, <2>3
<1> QED
  BY <1>1 DEF ShownOK

LEMMA HaveIds == Have \subseteq Ids
BY DEF Have

LEMMA CoversStays ==
  ASSUME NEW rows, NEW have, NEW acked, RowsOK(rows, have, acked), NEW known, Covers(rows, known),
         NEW other, other \subseteq known \cup {NoId}
  PROVE  Covers(rows, other)
<1> SUFFICES ASSUME rows # << >>, NEW id \in other PROVE id <= rows[1].id
  BY DEF Covers
<1>1. 1 \in 1 .. Len(rows)
  BY RowsAre
<1>2. rows[1].id \in Nat
  BY <1>1, RowsAre
<1> QED
  BY <1>2 DEF Covers, NoId

LEMMA AnswerStays ==
  ASSUME NEW doc, NEW c, NEW have, NEW acked, NEW known, AnswerOK(doc, c, have, acked, known),
         NEW more, have \subseteq more, NEW other, other \subseteq known \cup {NoId}
  PROVE  AnswerOK(doc, c, more, acked, other)
<1> SUFFICES ASSUME doc.is = "ok"
             PROVE  PageOK(doc.what, c, more, acked) /\ (c = NoCursor => Covers(doc.what.rows, other))
  BY DEF AnswerOK
<1>1. PageOK(doc.what, c, have, acked) /\ (c = NoCursor => Covers(doc.what.rows, known))
  BY DEF AnswerOK
<1>2. RowsOK(doc.what.rows, have, acked)
  BY <1>1 DEF PageOK
<1>3. PageOK(doc.what, c, more, acked)
  BY <1>1, <1>2, RowsStay DEF PageOK, CursorOK
<1>4. c = NoCursor => Covers(doc.what.rows, other)
  BY <1>1, <1>2, CoversStays
<1> QED
  BY <1>3, <1>4

LEMMA RequestStays ==
  ASSUME NEW q, NEW next, NEW have, NEW acked, NEW known, RequestOK(q, next, have, acked, known),
         NEW more, have \subseteq more, NEW other, other \subseteq known \cup {NoId}
  PROVE  RequestOK(q, next, more, acked, other)
<1>1. PagesOK(q, have, acked, known) => PagesOK(q, more, acked, other)
  BY RowsStay, CoversStays DEF PagesOK, Pieces
<1>2. AnswerOK(q.own, q.cursor, more, acked, other)
  BY AnswerStays DEF RequestOK
<1> QED
  BY <1>1, <1>2 DEF RequestOK, CursorOK

LEMMA SharedStays ==
  ASSUME NEW requests, NEW q, NEW t, NEW have, NEW acked, NEW known,
         SharedOK(requests, q, t, have, acked, known),
         NEW more, have \subseteq more, NEW other, other \subseteq known \cup {NoId}
  PROVE  SharedOK(requests, q, t, more, acked, other)
<1>1. \A f \in requests : AnswerOK(f.doc, f.cursor, more, acked, other)
  BY AnswerStays DEF SharedOK
<1>2. \A f \in requests : CursorOK(f.cursor, more)
  BY DEF SharedOK, CursorOK
<1> QED
  BY <1>1, <1>2 DEF SharedOK

LEMMA ShownStays ==
  ASSUME NEW rows, NEW next, NEW cursors, NEW have, NEW acked, ShownOK(rows, next, cursors, have, acked),
         NEW more, have \subseteq more
  PROVE  ShownOK(rows, next, cursors, more, acked)
BY RowsStay DEF ShownOK, CursorOK

\* The steps that leave the list alone.
LEMMA PagedStays ==
  ASSUME Paged, ServerPaged', PastPaged', FormPaged', BusyPaged', Have \subseteq Have', Known' \subseteq Known \cup {NoId},
         UNCHANGED <<token, view, current, shared, past>>
  PROVE  Paged'
<1> USE DEF Paged
<1>1. ShownOK(view.readings, view.next, view.cursors, Have', Floor)
  BY ShownStays DEF ViewPaged
<1>2. ~past.dropped /\ Settled(current) => Covers(view.readings, Known')
  <2>1. RowsOK(view.readings, Have, Floor)
    BY DEF ViewPaged, ShownOK
  <2> QED
    BY <2>1, CoversStays DEF ViewPaged
<1>0. Acked' = Acked /\ Floor' = Floor
  BY PastSame
<1>3. ViewPaged'
  BY <1>0, <1>1, <1>2 DEF ViewPaged
<1>4. current = NoRequest \/ RequestOK(current, view.next, Have', Acked, Known')
  BY RequestStays
<1>5. SharedOK(shared, current, token, Have', Acked, Known')
  BY SharedStays
<1> QED
  BY <1>0, <1>3, <1>4, <1>5

-----------------------------------------------------------------------------
(* The fields of a request and of a view *)

LEMMA RequestWithOwn ==
  ASSUME NEW q, IsRequest(q), NEW x, NEW r, r = [q EXCEPT !.own = x]
  PROVE  /\ r.kind = q.kind /\ r.token = q.token /\ r.cursor = q.cursor /\ r.bypass = q.bypass
         /\ r.own = x /\ r.pages = q.pages /\ r.rows = q.rows /\ r.cursors = q.cursors
         /\ IsRequest(r) /\ r # NoRequest
<1>1. PICK a, b, c, d, e, f, g, h :
        /\ a # "none"
        /\ q = [kind |-> a, token |-> b, cursor |-> c, bypass |-> d,
                own |-> e, pages |-> f, rows |-> g, cursors |-> h]
  BY DEF IsRequest
<1>2. r = [kind |-> a, token |-> b, cursor |-> c, bypass |-> d,
           own |-> x, pages |-> f, rows |-> g, cursors |-> h]
  BY <1>1
<1>3. IsRequest(r)
  BY <1>1, <1>2, RequestRecord
<1>4. r # NoRequest
  BY <1>1, <1>2 DEF NoRequest
<1> QED
  BY <1>1, <1>2, <1>3, <1>4

\* A request is sent: its answer is to come, and the requests that others may
\* join have at most one more.
LEMMA Asked ==
  ASSUME NEW req, IsRequest(req), NEW requests, Ask(req, requests),
         NEW next, NEW t, NEW have, NEW acked, NEW known,
         req.kind \in {"first", "more", "refresh"}, req.pages \in 1 .. MaxId,
         CursorOK(req.cursor, have),
         req.kind = "more" => ~req.bypass /\ req.cursor # NoCursor /\ req.cursor = next,
         req.kind # "more" => PagesOK(req, have, acked, known),
         \A f \in requests : IsShared(f) /\ CursorOK(f.cursor, have) /\ AnswerOK(f.doc, f.cursor, have, acked, known),
         \A f, g \in requests : Same(f, g) => f = g,
         \A f \in requests : f.cursor = NoCursor /\ f.token = "good" =>
                              t # "good" \/ (~req.bypass /\ Same(f, req))
  PROVE  /\ current' # NoRequest /\ current'.kind = req.kind /\ current'.rows = req.rows
         /\ RequestOK(current', next, have, acked, known)
         /\ SharedOK(shared', current', t, have, acked, known)
<1>1. /\ current'.kind = req.kind /\ current'.token = req.token /\ current'.cursor = req.cursor
      /\ current'.bypass = req.bypass /\ current'.own = Waiting /\ current'.pages = req.pages
      /\ current'.rows = req.rows /\ current'.cursors = req.cursors /\ current' # NoRequest
  BY RequestWithOwn DEF Ask
<1>2. PagesOK(req, have, acked, known) => PagesOK(current', have, acked, known)
  BY <1>1 DEF PagesOK, Pieces
<1>3. AnswerOK(Waiting, req.cursor, have, acked, known)
  BY WaitingIsNoAnswer DEF AnswerOK
<1>4. RequestOK(current', next, have, acked, known)
  BY <1>1, <1>2, <1>3 DEF RequestOK
<1> DEFINE new == [token |-> req.token, cursor |-> req.cursor, doc |-> Waiting]
<1>5. \/ shared' = requests
      \/ shared' = requests \cup {new} /\ ~req.bypass /\ \A f \in requests : ~Same(f, req)
  BY DEF Ask
<1>6. new.token = req.token /\ new.cursor = req.cursor /\ new.doc = Waiting
  OBVIOUS
<1> HIDE DEF new
<1>7. \A f \in shared' : CursorOK(f.cursor, have) /\ AnswerOK(f.doc, f.cursor, have, acked, known)
  BY <1>3, <1>5, <1>6
<1>8. \A f, g \in shared' : Same(f, g) => f = g
  BY <1>5, <1>6 DEF Same
<1>9. \A f \in shared' : f.cursor = NoCursor /\ f.token = "good" => t # "good" \/ Awaits(current', f)
  BY <1>1, <1>5, <1>6 DEF Same, Awaits
<1> QED
  BY <1>1, <1>4, <1>7, <1>8, <1>9 DEF SharedOK

\* A refresh has no pages at first.
LEMMA NoPages ==
  ASSUME NEW q, q.rows = << >>, q.cursors = << >>, q.cursor = NoCursor, q.pages \in 1 .. MaxId,
         NEW have, NEW acked, NEW known
  PROVE  PagesOK(q, have, acked, known)
<1>1. RowsOK(<< >>, have, acked) /\ Covers(<< >>, known)
  BY DEF RowsOK, Covers
<1>2. Cuts(<< >>, << >>) /\ Len(<< >>) = PageSize * Len(<< >>)
  BY ClientConstants DEF Cuts
<1> QED
  BY <1>1, <1>2 DEF PagesOK, Pieces

LEMMA NothingShown ==
  ASSUME NEW cursors, cursors \in Seq(Ids), Len(cursors) < MaxId, NEW have, NEW acked, NEW known
  PROVE  ShownOK(<< >>, NoCursor, cursors, have, acked) /\ Covers(<< >>, known)
BY DEF ShownOK, RowsOK, CursorOK, Covers

\* What the client has come to know, when what was acknowledged stays.
LEMMA PastStays ==
  ASSUME PastPaged, server' = server, selected' \in {selected, NoId},
         \A p \in posts' : \E q \in posts : p.id = q.id /\ p.token = q.token /\ p.doc = q.doc,
         past' \in PastType, Acked' = Acked, NEW floor, RowsOK(view'.readings, Have, floor)
  PROVE  PastPaged' /\ Have' = Have
<1>1. Have' = Have
  BY DEF Have
<1>2. ShownIds' \subseteq Have
  BY DEF RowsOK, ShownIds
<1>3. Known' \subseteq Have \cup {NoId}
  BY <1>2 DEF PastPaged, Known
<1> QED
  BY <1>1, <1>3 DEF PastPaged

LEMMA KnownStays ==
  ASSUME selected' \in {selected, NoId}, Acked' = Acked,
         \A p \in posts' : \E q \in posts : p.id = q.id /\ p.token = q.token /\ p.doc = q.doc,
         view'.readings = view.readings \/ view'.readings = << >>
  PROVE  Known' \subseteq Known \cup {NoId}
BY DEF Known, ShownIds

-----------------------------------------------------------------------------
(* The steps of the client, as what the list shows sees them *)

\* The steps in which the client comes to know nothing from the server.
LEMMA SideStays ==
  ASSUME Paged, UNCHANGED <<server, submit>>, selected' \in {selected, NoId},
         \A p \in posts' : \E q \in posts : p.id = q.id /\ p.token = q.token /\ p.doc = q.doc,
         past' \in PastType, Acked' = Acked, NEW floor, RowsOK(view'.readings, Have, floor)
  PROVE  ServerPaged' /\ PastPaged' /\ FormPaged' /\ Have' = Have
<1>1. PastPaged' /\ Have' = Have
  BY PastStays DEF Paged
<1>2. ServerPaged'
  <2>1. ServerPaged
    BY DEF Paged
  <2> QED
    BY <1>1, <2>1 DEF ServerPaged, ServerOK
<1>3. FormPaged'
  BY <1>1 DEF Paged, FormPaged
<1> QED
  BY <1>1, <1>2, <1>3

LEMMA NothingLoads ==
  ASSUME Paged, ~busy, NEW f \in shared, f.cursor = NoCursor, f.token = "good"
  PROVE  token # "good"
BY DEF Paged, BusyPaged, SharedOK, Awaits

LEMMA LoadPaged ==
  ASSUME ListOwned, Paged, NEW t, NEW cursor, loadReadings(t, cursor), token' = t, UNCHANGED <<server, submit>>,
         selected' \in {selected, NoId},
         \A p \in posts' : \E q \in posts : p.id = q.id /\ p.token = q.token /\ p.doc = q.doc,
         past' \in PastType, Acked' = Acked, Floor' = Floor,
         cursor = NoCursor \/ (t = token /\ ~busy /\ cursor = view.next /\ past' = past)
  PROVE  Paged'
<1>1. /\ IsView(view) /\ SharedOwned(shared)
      /\ view.cursors \in Seq(Ids) /\ Len(view.cursors) < MaxId
      /\ ShownOK(view.readings, view.next, view.cursors, Have, Floor)
  BY DEF ListOwned, Paged, ViewPaged, ShownOK
<1>2. SharedOK(shared, current, token, Have, Acked, Known)
  BY DEF Paged
<1>3. CASE t = NoToken
  <2>1. view'.readings = << >> /\ view'.next = NoCursor /\ view'.cursors = << >>
    BY <1>3 DEF loadReadings, EmptyView
  <2>2. current' = NoRequest /\ busy' = FALSE /\ shared' = shared
    BY <1>3 DEF loadReadings
  <2>3. RowsOK(view'.readings, Have, Floor)
    BY <2>1 DEF RowsOK
  <2>4. ServerPaged' /\ PastPaged' /\ FormPaged' /\ Have' = Have
    BY <2>3, SideStays
  <2>5. Known' \subseteq Known \cup {NoId}
    BY <2>1, KnownStays
  <2>6. ViewPaged'
    <3>1. << >> \in Seq(Ids) /\ Len(<< >>) < MaxId
      BY ClientConstants
    <3> QED
      BY <2>1, <3>1, NothingShown DEF ViewPaged
  <2>7. SharedOK(shared, current', t, Have, Acked, Known)
    BY <1>2, <1>3 DEF SharedOK, NoToken
  <2>8. SharedOK(shared, current', t, Have, Acked, Known')
    BY <2>5, <2>7, SharedStays
  <2>9. BusyPaged'
    BY <2>2 DEF BusyPaged
  <2> QED
    BY <2>2, <2>4, <2>6, <2>8, <2>9 DEF Paged
<1>4. CASE t # NoToken /\ cursor = NoCursor
  <2> DEFINE req == Request("first", t, NoCursor)
  <2>1. view'.readings = << >> /\ view'.next = NoCursor /\ view'.cursors = view.cursors
    <3>1. PICK a, b, c, d, e, f :
            view = [readings |-> a, next |-> b, cursors |-> c, loading |-> d, loadingMore |-> e, error |-> f]
      BY <1>1 DEF IsView
    <3>2. view' = [readings |-> << >>, next |-> NoCursor, cursors |-> c,
                   loading |-> TRUE, loadingMore |-> e, error |-> FALSE]
      BY <1>4, <3>1 DEF loadReadings
    <3> QED
      BY <3>1, <3>2
  <2>2. Ask(req, shared) /\ busy' = TRUE
    BY <1>4 DEF loadReadings
  <2>3. /\ IsRequest(req) /\ req.kind = "first" /\ req.token = t /\ req.cursor = NoCursor /\ req.bypass = FALSE
        /\ req.pages = 1 /\ req.rows = << >> /\ req.cursors = << >>
    <3>1. IsRequest(req)
      BY RequestIsRequest
    <3> QED
      BY <3>1 DEF Request
  <2> HIDE DEF req
  <2>4. ServerPaged' /\ PastPaged' /\ FormPaged' /\ Have' = Have
    <3>1. RowsOK(view'.readings, Have, Floor)
      BY <2>1 DEF RowsOK
    <3> QED
      BY <3>1, SideStays
  <2>5. Known' \subseteq Known \cup {NoId}
    BY <2>1, KnownStays
  <2>6. /\ current' # NoRequest
        /\ RequestOK(current', view'.next, Have, Acked, Known')
        /\ SharedOK(shared', current', t, Have, Acked, Known')
    <3>1. req.pages \in 1 .. MaxId
      BY <2>3, ClientConstants
    <3>2. PagesOK(req, Have, Acked, Known')
      BY <2>3, <3>1, NoPages
    <3>3. SharedOK(shared, current, token, Have, Acked, Known')
      BY <1>2, <2>5, SharedStays
    <3>4. \A f \in shared : IsShared(f) /\ CursorOK(f.cursor, Have)
                            /\ AnswerOK(f.doc, f.cursor, Have, Acked, Known')
      BY <1>1, <3>3 DEF SharedOK, SharedOwned
    <3>5. \A f, g \in shared : Same(f, g) => f = g
      BY <1>2 DEF SharedOK
    <3>6. \A f \in shared : f.cursor = NoCursor /\ f.token = "good" =>
                               t # "good" \/ (~req.bypass /\ Same(f, req))
      BY <2>3 DEF Same
    <3>7. CursorOK(req.cursor, Have)
      BY <2>3 DEF CursorOK
    <3>8. req.kind \in {"first", "more", "refresh"} /\ req.kind # "more"
      BY <2>3
    <3>9. req.kind = "more" => ~req.bypass /\ req.cursor # NoCursor /\ req.cursor = view'.next
      BY <3>8
    <3>10. req.kind # "more" => PagesOK(req, Have, Acked, Known')
      BY <3>2
    <3>11. IsRequest(req) /\ Ask(req, shared)
      BY <2>2, <2>3
    <3> QED
      BY <3>1, <3>4, <3>5, <3>6, <3>7, <3>8, <3>9, <3>10, <3>11, Asked
  <2>7. ViewPaged'
    BY <1>1, <2>1, NothingShown DEF ViewPaged
  <2>8. BusyPaged'
    BY <2>2, <2>6 DEF BusyPaged
  <2> QED
    BY <2>1, <2>4, <2>6, <2>7, <2>8 DEF Paged
<1>5. CASE t # NoToken /\ cursor # NoCursor
  <2> DEFINE req == Request("more", t, cursor)
  <2>1. view'.readings = view.readings /\ view'.next = view.next /\ view'.cursors = view.cursors
    <3>1. PICK a, b, c, d, e, f :
            view = [readings |-> a, next |-> b, cursors |-> c, loading |-> d, loadingMore |-> e, error |-> f]
      BY <1>1 DEF IsView
    <3>2. view' = [readings |-> a, next |-> b, cursors |-> c,
                   loading |-> d, loadingMore |-> TRUE, error |-> FALSE]
      BY <1>5, <3>1 DEF loadReadings
    <3> QED
      BY <3>1, <3>2
  <2>2. Ask(req, shared) /\ busy' = TRUE
    BY <1>5 DEF loadReadings
  <2>3. /\ IsRequest(req) /\ req.kind = "more" /\ req.token = t /\ req.cursor = cursor /\ req.bypass = FALSE
        /\ req.pages = 1
    <3>1. IsRequest(req)
      BY RequestIsRequest
    <3> QED
      BY <3>1 DEF Request
  <2> HIDE DEF req
  <2>4. ServerPaged' /\ PastPaged' /\ FormPaged' /\ Have' = Have
    <3>1. RowsOK(view'.readings, Have, Floor)
      BY <1>1, <2>1 DEF ShownOK
    <3> QED
      BY <3>1, SideStays
  <2>5. Known' \subseteq Known \cup {NoId}
    BY <2>1, KnownStays
  <2>6. /\ current' # NoRequest /\ current'.kind = "more"
        /\ RequestOK(current', view.next, Have, Acked, Known')
        /\ SharedOK(shared', current', t, Have, Acked, Known')
    <3>1. req.pages \in 1 .. MaxId
      BY <2>3, ClientConstants
    <3>3. SharedOK(shared, current, token, Have, Acked, Known')
      BY <1>2, <2>5, SharedStays
    <3>4. \A f \in shared : IsShared(f) /\ CursorOK(f.cursor, Have)
                            /\ AnswerOK(f.doc, f.cursor, Have, Acked, Known')
      BY <1>1, <3>3 DEF SharedOK, SharedOwned
    <3>5. \A f, g \in shared : Same(f, g) => f = g
      BY <1>2 DEF SharedOK
    <3>6. \A f \in shared : f.cursor = NoCursor /\ f.token = "good" =>
                               t # "good" \/ (~req.bypass /\ Same(f, req))
      BY <1>5, NothingLoads
    <3>7. CursorOK(req.cursor, Have) /\ req.cursor = view.next /\ req.cursor # NoCursor /\ ~req.bypass
      BY <1>1, <1>5, <2>3 DEF ShownOK
    <3>8. req.kind \in {"first", "more", "refresh"} /\ req.kind = "more"
      BY <2>3
    <3>9. /\ req.kind = "more" => ~req.bypass /\ req.cursor # NoCursor /\ req.cursor = view.next
          /\ req.kind # "more" => PagesOK(req, Have, Acked, Known')
      BY <3>7, <3>8
    <3>10. IsRequest(req) /\ Ask(req, shared) /\ CursorOK(req.cursor, Have)
      BY <2>2, <2>3, <3>7
    <3>11. \A f \in shared : f.cursor = NoCursor /\ f.token = "good" =>
                               t # "good" \/ (~req.bypass /\ Same(f, req))
      BY <3>6
    <3>12. /\ current' # NoRequest /\ current'.kind = req.kind
           /\ RequestOK(current', view.next, Have, Acked, Known')
           /\ SharedOK(shared', current', t, Have, Acked, Known')
      BY <3>1, <3>4, <3>5, <3>8, <3>9, <3>10, <3>11, Asked
    <3> QED
      BY <3>8, <3>12
  <2>7. ViewPaged'
    <3>1. ~past.dropped => Covers(view.readings, Known)
      BY <1>5 DEF Paged, BusyPaged, ViewPaged, Settled
    <3>2. RowsOK(view.readings, Have, Floor)
      BY <1>1 DEF ShownOK
    <3>3. ~past'.dropped => Covers(view'.readings, Known')
      BY <1>5, <2>1, <2>5, <3>1, <3>2, CoversStays
    <3> QED
      BY <1>1, <2>1, <2>4, <3>3 DEF ViewPaged
  <2>8. BusyPaged'
    BY <2>2, <2>6 DEF BusyPaged
  <2> QED
    BY <2>1, <2>4, <2>6, <2>7, <2>8 DEF Paged
<1> QED
  BY <1>3, <1>4, <1>5

\* A refresh, as it is sent.
IsRefresh(q, pages) ==
  /\ IsRequest(q) /\ q.kind = "refresh" /\ q.cursor = NoCursor /\ q.pages = pages
  /\ q.rows = << >> /\ q.cursors = << >>

LEMMA NewRefresh ==
  ASSUME NEW t, NEW pages
  PROVE  /\ IsRefresh([Request("refresh", t, NoCursor) EXCEPT !.pages = pages], pages)
         /\ IsRefresh([Request("refresh", t, NoCursor) EXCEPT !.pages = pages, !.bypass = TRUE], pages)
<1> DEFINE r == Request("refresh", t, NoCursor)
           s == [r EXCEPT !.pages = pages]
           u == [s EXCEPT !.bypass = TRUE]
<1>1. IsRequest(r)
  BY RequestIsRequest
<1>2. IsRequest(s)
  BY <1>1, RequestExcept
<1>3. IsRequest(u)
  BY <1>2, RequestExcept
<1>4. IsRefresh(s, pages)
  BY <1>2 DEF Request, IsRefresh
<1>5. IsRefresh(u, pages)
  BY <1>3 DEF Request, IsRefresh
<1> QED
  BY <1>4, <1>5

LEMMA AskedFirst ==
  ASSUME NEW req, NEW pages \in 1 .. MaxId, IsRefresh(req, pages), NEW requests, Ask(req, requests),
         NEW next, NEW t, NEW have, NEW acked, NEW known,
         \A f \in requests : IsShared(f) /\ CursorOK(f.cursor, have) /\ AnswerOK(f.doc, f.cursor, have, acked, known),
         \A f, g \in requests : Same(f, g) => f = g,
         \A f \in requests : f.cursor = NoCursor /\ f.token = "good" => t # "good"
  PROVE  /\ current' # NoRequest /\ current'.kind = "refresh"
         /\ RequestOK(current', next, have, acked, known)
         /\ SharedOK(shared', current', t, have, acked, known)
<1> USE DEF IsRefresh
<1>1. PagesOK(req, have, acked, known)
  BY NoPages
<1>2. CursorOK(req.cursor, have) /\ req.kind \in {"first", "more", "refresh"} /\ req.kind # "more"
  BY DEF CursorOK
<1>3. /\ req.kind = "more" => ~req.bypass /\ req.cursor # NoCursor /\ req.cursor = next
      /\ req.kind # "more" => PagesOK(req, have, acked, known)
      /\ \A f \in requests : f.cursor = NoCursor /\ f.token = "good" =>
                             t # "good" \/ (~req.bypass /\ Same(f, req))
  BY <1>1, <1>2
<1>4. /\ current' # NoRequest /\ current'.kind = req.kind /\ current'.rows = req.rows
      /\ RequestOK(current', next, have, acked, known)
      /\ SharedOK(shared', current', t, have, acked, known)
  BY <1>2, <1>3, Asked, SMTT(30)
<1> QED
  BY <1>4

LEMMA AskedAlone ==
  ASSUME NEW req, NEW pages \in 1 .. MaxId, IsRefresh(req, pages), Ask(req, {}),
         NEW next, NEW t, NEW have, NEW acked, NEW known
  PROVE  /\ current' # NoRequest /\ current'.kind = "refresh"
         /\ RequestOK(current', next, have, acked, known)
         /\ SharedOK(shared', current', t, have, acked, known)
<1> DEFINE none == {}
<1>1. /\ \A f \in none : IsShared(f) /\ CursorOK(f.cursor, have) /\ AnswerOK(f.doc, f.cursor, have, acked, known)
      /\ \A f, g \in none : Same(f, g) => f = g
      /\ \A f \in none : f.cursor = NoCursor /\ f.token = "good" => t # "good"
  OBVIOUS
<1>2. Ask(req, none)
  OBVIOUS
<1> HIDE DEF none
<1> QED
  BY <1>1, <1>2, AskedFirst

LEMMA PollPaged ==
  ASSUME ListOwned, Paged, Poll, UNCHANGED detailVars
  PROVE  Paged'
<1> DEFINE req == [Request("refresh", token, NoCursor) EXCEPT !.pages = Len(view.cursors) + 1]
<1>1. /\ IsView(view) /\ SharedOwned(shared)
      /\ view.cursors \in Seq(Ids) /\ Len(view.cursors) < MaxId
      /\ ShownOK(view.readings, view.next, view.cursors, Have, Floor)
  BY DEF ListOwned, Paged, ViewPaged, ShownOK
<1>2. SharedOK(shared, current, token, Have, Acked, Known)
  BY DEF Paged
<1>3. view'.readings = view.readings /\ view'.next = view.next /\ view'.cursors = view.cursors
  <2>1. PICK a, b, c, d, e, f :
          view = [readings |-> a, next |-> b, cursors |-> c, loading |-> d, loadingMore |-> e, error |-> f]
    BY <1>1 DEF IsView
  <2>2. view' = [readings |-> a, next |-> b, cursors |-> c, loading |-> d, loadingMore |-> e, error |-> FALSE]
    BY <2>1 DEF Poll
  <2> QED
    BY <2>1, <2>2
<1>4. /\ Ask(req, shared) /\ busy' = TRUE /\ ~busy /\ UNCHANGED <<server, token, submit, past>>
      /\ Acked' = Acked /\ Floor' = Floor
  BY PastSame DEF Poll
<1>5. IsRefresh(req, Len(view.cursors) + 1)
  BY NewRefresh
<1> HIDE DEF req
<1>6. ServerPaged' /\ PastPaged' /\ FormPaged' /\ Have' = Have
  <2>1. RowsOK(view'.readings, Have, Floor)
    BY <1>1, <1>3 DEF ShownOK
  <2>2. past' \in PastType /\ Acked' = Acked
    BY <1>4 DEF Paged, PastPaged
  <2> QED
    BY <1>4, <2>1, <2>2, SideStays DEF detailVars
<1>7. Known' \subseteq Known \cup {NoId}
  BY <1>3, <1>4, KnownStays DEF detailVars
<1>8. /\ current' # NoRequest /\ current'.kind = "refresh"
      /\ RequestOK(current', view'.next, Have, Acked, Known')
      /\ SharedOK(shared', current', token, Have, Acked, Known')
  <2>1. Len(view.cursors) + 1 \in 1 .. MaxId
    BY <1>1, ClientConstants
  <2>3. SharedOK(shared, current, token, Have, Acked, Known')
    BY <1>2, <1>7, SharedStays
  <2>4. \A f \in shared : IsShared(f) /\ CursorOK(f.cursor, Have)
                          /\ AnswerOK(f.doc, f.cursor, Have, Acked, Known')
    BY <1>1, <2>3 DEF SharedOK, SharedOwned
  <2>5. \A f, g \in shared : Same(f, g) => f = g
    BY <1>2 DEF SharedOK
  <2>6. \A f \in shared : f.cursor = NoCursor /\ f.token = "good" => token # "good"
    BY <1>4, NothingLoads
  <2> DEFINE pages == Len(view.cursors) + 1
  <2>7. pages \in 1 .. MaxId /\ IsRefresh(req, pages) /\ Ask(req, shared)
    BY <1>4, <1>5, <2>1
  <2> HIDE DEF pages
  <2> QED
    BY <2>4, <2>5, <2>6, <2>7, AskedFirst
<1>9. ViewPaged'
  <2>1. ~Settled(current')
    BY <1>8 DEF Settled
  <2> QED
    BY <1>1, <1>3, <1>4, <1>6, <2>1 DEF ViewPaged
<1>10. BusyPaged'
  BY <1>4, <1>8 DEF BusyPaged
<1> QED
  BY <1>4, <1>6, <1>8, <1>9, <1>10 DEF Paged

LEMMA AckedGrows ==
  ASSUME PastPaged, ServerOK, NEW id \in Have, NEW version \in 1 .. server[id].version,
         NEW new, new \in [Ids -> Nat], new[id] = Later(Acked[id], version),
         \A i \in Ids : i # id => new[i] = Acked[i]
  PROVE  /\ \A i \in Ids : new[i] <= server[i].version
         /\ {i \in Ids : new[i] > 0} \subseteq {i \in Ids : Acked[i] > 0} \cup {id}
<1>1. /\ Acked \in [Ids -> Nat] /\ id \in Ids /\ server[id].version \in Nat
      /\ \A i \in Ids : Acked[i] <= server[i].version
  BY PastIs DEF PastPaged, Have, ServerOK
<1>2. version \in Nat /\ version <= server[id].version
  BY <1>1
<1>3. Later(Acked[id], version) \in Nat /\ Later(Acked[id], version) <= server[id].version
  BY <1>1, <1>2 DEF Later
<1> QED
  BY <1>1, <1>3

LEMMA AckPaged ==
  ASSUME ListOwned, Paged, SubmitAck, UNCHANGED detailVars
  PROVE  Paged'
<1> USE DEF Paged
<1>0. /\ submit.at = "done" /\ submit.token = "good" /\ submit.id \in Have /\ submit.pages \in 1 .. MaxId
      /\ submit.version \in 1 .. server[submit.id].version
  BY DEF SubmitAck, FormPaged
<1>1. UNCHANGED <<server, token>> /\ UNCHANGED detailVars
  BY DEF SubmitAck
<1>2. Have' = Have /\ ServerPaged'
  BY <1>1 DEF Have, ServerPaged, ServerOK
<1>3. CASE submit.token # token
  <2>1. submit' = NoSubmit /\ UNCHANGED <<view, current, busy, shared, past>>
    BY <1>3 DEF SubmitAck
  <2>0. Acked' = Acked
    BY <2>1, PastSame
  <2>2. Known' = Known
    BY <1>1, <2>0, <2>1 DEF Known, ShownIds, detailVars
  <2>3. PastPaged' /\ BusyPaged' /\ FormPaged'
    BY <1>1, <1>2, <2>0, <2>1, <2>2 DEF PastPaged, BusyPaged, FormPaged, NoSubmit, detailVars
  <2> QED
    BY <1>1, <1>2, <2>1, <2>2, <2>3, PagedStays
<1>4. CASE submit.token = token
  <2> DEFINE req == [Request("refresh", token, NoCursor) EXCEPT !.pages = submit.pages, !.bypass = TRUE]
             acked == [Acked EXCEPT ![submit.id] = Later(@, submit.version)]
  <2>1. /\ submit' = [at |-> "refreshing"] /\ busy' = TRUE
        /\ Acknowledged
        /\ view' = [view EXCEPT !.loading = TRUE, !.loadingMore = FALSE, !.error = FALSE]
        /\ Ask(req, {})
    BY <1>4 DEF SubmitAck
  <2>2. IsView(view) /\ ShownOK(view.readings, view.next, view.cursors, Have, Floor)
    BY DEF ListOwned, ViewPaged
  <2>3. view'.readings = view.readings /\ view'.next = view.next /\ view'.cursors = view.cursors
    <3>1. PICK a, b, c, d, e, f :
            view = [readings |-> a, next |-> b, cursors |-> c, loading |-> d, loadingMore |-> e, error |-> f]
      BY <2>2 DEF IsView
    <3>2. view' = [readings |-> a, next |-> b, cursors |-> c, loading |-> TRUE, loadingMore |-> FALSE, error |-> FALSE]
      BY <2>1, <3>1
    <3> QED
      BY <3>1, <3>2
  <2>12. /\ acked \in [Ids -> Nat] /\ acked[submit.id] = Later(Acked[submit.id], submit.version)
         /\ \A i \in Ids : i # submit.id => acked[i] = Acked[i]
         /\ submit.id \in Ids /\ submit.version \in Nat
    BY <1>0, PastIs DEF PastPaged, ServerPaged, ServerOK, Have, Later
  <2>8. IsRefresh(req, submit.pages)
    BY NewRefresh
  <2> HIDE DEF acked, req
  <2>13. /\ past' \in PastType /\ Acked' = acked
         /\ \A i \in Ids : i # submit.id => Floor'[i] = Floor[i]
         /\ Floor'[submit.id] \in Nat
         /\ \/ Floor'[submit.id] <= Floor[submit.id]
            \/ /\ submit.id \notin past.kept /\ Floor'[submit.id] = acked[submit.id]
               /\ \A i \in DOMAIN view.readings :
                    view.readings[i].id = submit.id => ~(view.readings[i].version < submit.version)
    <3> DEFINE older == \E i \in DOMAIN view.readings :
                          view.readings[i].id = submit.id /\ view.readings[i].version < submit.version
               reset     == past.reset
               submitted == [past.submitted EXCEPT ![submit.id] = Later(@, submit.version)]
               kept      == IF older THEN past.kept \cup {submit.id} ELSE past.kept
    <3>1. past \in [reset : [Ids -> Nat], submitted : [Ids -> Nat], kept : SUBSET Ids, dropped : BOOLEAN]
      BY DEF PastPaged, PastType
    <3>2. past' = [past EXCEPT !.submitted = submitted, !.kept = kept]
      BY <2>1, <3>1 DEF Acknowledged
    <3>3. /\ submitted \in [Ids -> Nat] /\ submitted[submit.id] = Later(past.submitted[submit.id], submit.version)
          /\ \A i \in Ids : i # submit.id => submitted[i] = past.submitted[i]
      BY <2>12, <3>1, LaterIs
    <3>4. /\ kept \in SUBSET Ids /\ (submit.id \in kept <=> older \/ submit.id \in past.kept)
          /\ \A i \in Ids : i # submit.id => (i \in kept <=> i \in past.kept)
      BY <2>12, <3>1
    <3> HIDE DEF submitted, kept, older
    <3>5. /\ past' \in PastType /\ past'.reset = past.reset /\ past'.submitted = submitted /\ past'.kept = kept
      BY <3>1, <3>2, <3>3, <3>4 DEF PastType
    <3>6. \A i \in Ids : /\ Acked'[i] = Later(past.reset[i], submitted[i])
                         /\ Floor'[i] = IF i \in kept THEN past.reset[i] ELSE Acked'[i]
      BY <3>5 DEF Acked, Floor
    <3>7. \A i \in Ids : /\ Acked[i] = Later(past.reset[i], past.submitted[i])
                         /\ Floor[i] = IF i \in past.kept THEN past.reset[i] ELSE Acked[i]
                         /\ past.reset[i] \in Nat /\ past.submitted[i] \in Nat
                         /\ past.reset[i] <= Floor[i]
      BY <3>1, PastIs DEF PastType
    <3>8. Acked'[submit.id] = acked[submit.id]
      BY <2>12, <3>3, <3>6, <3>7 DEF Later
    <3>9. \A i \in Ids : i # submit.id => Acked'[i] = acked[i] /\ Floor'[i] = Floor[i]
      BY <2>12, <3>3, <3>4, <3>6, <3>7
    <3>10. Acked' = acked
      <4>1. Acked' = [i \in Ids |-> Later(past'.reset[i], past'.submitted[i])]
        BY DEF Acked
      <4>2. \A i \in Ids : Acked'[i] = acked[i]
        BY <3>8, <3>9
      <4> QED
        BY <2>12, <4>1, <4>2
    <3>11. CASE submit.id \in kept
      BY <2>12, <3>5, <3>6, <3>7, <3>9, <3>10, <3>11
    <3>12. CASE submit.id \notin kept
      BY <2>12, <3>4, <3>5, <3>6, <3>9, <3>10, <3>12 DEF older
    <3> QED
      BY <3>11, <3>12
  <2>4. /\ \A i \in Ids : acked[i] <= server[i].version
        /\ {i \in Ids : acked[i] > 0} \subseteq {i \in Ids : Acked[i] > 0} \cup {submit.id}
    <3>1. ServerOK /\ PastPaged
      BY DEF ServerPaged
    <3>2. submit.id \in Have /\ submit.version \in 1 .. server[submit.id].version
      BY <1>0
    <3> QED
      BY <2>12, <3>1, <3>2, AckedGrows
  <2>5. RowsOK(view.readings, Have, Floor')
    <3>1. RowsOK(view.readings, Have, Floor)
      BY <2>2 DEF ShownOK
    <3> SUFFICES ASSUME NEW i \in DOMAIN view.readings
                 PROVE  view.readings[i].version >= Floor'[view.readings[i].id]
      BY <3>1 DEF RowsOK
    <3>2. /\ view.readings[i].id \in Ids /\ view.readings[i].version \in Nat
          /\ view.readings[i].version >= Floor[view.readings[i].id]
      <4>1. view.readings[i] \in RowSet
        BY <3>1, RowsAre
      <4> QED
        BY <3>1, <4>1 DEF RowsOK, RowSet
    <3>3. CASE view.readings[i].id # submit.id
      BY <2>13, <3>2, <3>3
    <3>4. CASE view.readings[i].id = submit.id
      <4>1. /\ Floor[submit.id] \in Nat /\ Acked[submit.id] \in Nat
            /\ Floor[submit.id] = IF submit.id \in past.kept THEN past.reset[submit.id] ELSE Acked[submit.id]
        BY <2>12, PastIs DEF PastPaged
      <4>2. Floor'[submit.id] \in Nat
        BY <2>13
      <4>3. CASE Floor'[submit.id] <= Floor[submit.id]
        BY <3>2, <3>4, <4>1, <4>2, <4>3
      <4>4. CASE /\ submit.id \notin past.kept /\ Floor'[submit.id] = acked[submit.id]
                 /\ ~(view.readings[i].version < submit.version)
        BY <2>12, <3>2, <3>4, <4>1, <4>4 DEF Later
      <4> QED
        BY <2>13, <3>4, <4>3, <4>4
    <3> QED
      BY <3>3, <3>4
  <2>6. Known' \subseteq Known \cup {submit.id}
    BY <1>1, <2>3, <2>4, <2>13 DEF Known, ShownIds, detailVars
  <2>7. PastPaged' /\ FormPaged'
    BY <1>0, <1>1, <1>2, <2>1, <2>4, <2>6, <2>13 DEF PastPaged, FormPaged, detailVars
  <2>9. /\ current' # NoRequest /\ current'.kind = "refresh"
        /\ RequestOK(current', view'.next, Have, acked, Known')
        /\ SharedOK(shared', current', token, Have, acked, Known')
    <3>1. submit.pages \in 1 .. MaxId
      BY <1>0
    <3> QED
      BY <2>1, <2>8, <3>1, AskedAlone
  <2>10. ViewPaged'
    <3>1. ~Settled(current')
      BY <2>9 DEF Settled
    <3>2. ShownOK(view'.readings, view'.next, view'.cursors, Have', Floor')
      BY <1>2, <2>2, <2>3, <2>5 DEF ShownOK
    <3> QED
      BY <3>1, <3>2 DEF ViewPaged
  <2>11. BusyPaged'
    BY <2>1, <2>9 DEF BusyPaged
  <2> QED
    BY <1>1, <1>2, <2>13, <2>7, <2>9, <2>10, <2>11
<1> QED
  BY <1>3, <1>4

\* An answer to a page is as good as the server is.
LEMMA ReplyOK ==
  ASSUME ServerPaged, PastPaged, NEW t, NEW c, CursorOK(c, Have), NEW answer \in Reply(t, Answered(Page(c)))
  PROVE  AnswerOK(answer, c, Have, Acked, Known)
<1>1. CASE answer = Answered(Page(c))
  BY <1>1, Served
<1>2. CASE answer # Answered(Page(c))
  <2>1. answer = Broken \/ answer = Denied
    BY <1>2 DEF Reply
  <2> QED
    BY <2>1 DEF AnswerOK, Broken, Denied
<1> QED
  BY <1>1, <1>2

LEMMA ServePaged ==
  ASSUME ListOwned, Paged, ServeList, UNCHANGED detailVars
  PROVE  Paged'
<1>1. /\ UNCHANGED <<server, token, view, busy, submit, past>> /\ UNCHANGED <<selected, posts>>
      /\ Acked' = Acked /\ Floor' = Floor
  BY PastSame DEF ServeList, detailVars
<1>2. ShownOK(view.readings, view.next, view.cursors, Have, Floor) /\ past \in PastType
      /\ RowsOK(view.readings, Have, Floor) /\ SharedOwned(shared)
  BY DEF Paged, ViewPaged, ShownOK, PastPaged, ListOwned
<1>3. ServerPaged' /\ PastPaged' /\ FormPaged' /\ Have' = Have
  BY <1>1, <1>2, SideStays
<1>4. Known' = Known
  BY <1>1 DEF Known, ShownIds
<1>5. ServerPaged /\ PastPaged /\ SharedOK(shared, current, token, Have, Acked, Known)
  BY DEF Paged
<1>6. ASSUME NEW f \in shared, NEW answer \in Reply(f.token, Answered(Page(f.cursor))),
             shared' = (shared \ {f}) \cup {[f EXCEPT !.doc = answer]}, current' = current
      PROVE  Paged'
  <2> DEFINE g == [f EXCEPT !.doc = answer]
  <2>1. g.token = f.token /\ g.cursor = f.cursor /\ g.doc = answer
    BY <1>2 DEF SharedOwned, IsShared
  <2>2. shared' = (shared \ {f}) \cup {g}
    BY <1>6
  <2> HIDE DEF g
  <2>3. CursorOK(f.cursor, Have)
    BY <1>5 DEF SharedOK
  <2>4. AnswerOK(answer, f.cursor, Have, Acked, Known)
    BY <1>5, <2>3, ReplyOK
  <2>5. SharedOK(shared', current, token, Have, Acked, Known)
    <3>1. \A e, h \in shared' : Same(e, h) => e = h
      BY <1>5, <2>1, <2>2 DEF SharedOK, Same
    <3>2. \A e \in shared' : CursorOK(e.cursor, Have) /\ AnswerOK(e.doc, e.cursor, Have, Acked, Known)
      BY <1>5, <2>1, <2>2, <2>3, <2>4 DEF SharedOK
    <3>3. \A e \in shared' : e.cursor = NoCursor /\ e.token = "good" => token # "good" \/ Awaits(current, e)
      BY <1>5, <2>1, <2>2 DEF SharedOK, Awaits, Same
    <3> QED
      BY <3>1, <3>2, <3>3 DEF SharedOK
  <2>6. BusyPaged' /\ ViewPaged'
    BY <1>1, <1>3, <1>4, <1>6 DEF Paged, BusyPaged, ViewPaged
  <2> QED
    BY <1>1, <1>3, <1>4, <1>6, <2>5, <2>6 DEF Paged
<1>7. ASSUME current # NoRequest, NEW answer \in Reply(current.token, Answered(Page(current.cursor))),
             current' = [current EXCEPT !.own = answer], shared' = shared
      PROVE  Paged'
  <2>1. IsRequest(current) /\ RequestOK(current, view.next, Have, Acked, Known)
    BY <1>7 DEF ListOwned, RequestOwned, Paged
  <2>2. /\ current'.kind = current.kind /\ current'.token = current.token /\ current'.cursor = current.cursor
        /\ current'.bypass = current.bypass /\ current'.own = answer /\ current'.pages = current.pages
        /\ current'.rows = current.rows /\ current'.cursors = current.cursors /\ current' # NoRequest
    BY <1>7, <2>1, RequestWithOwn
  <2>3. AnswerOK(answer, current.cursor, Have, Acked, Known)
    <3>1. CursorOK(current.cursor, Have)
      BY <2>1 DEF RequestOK
    <3> QED
      BY <1>5, <1>7, <3>1, ReplyOK
  <2>4. RequestOK(current', view.next, Have, Acked, Known)
    <3>1. PagesOK(current, Have, Acked, Known) => PagesOK(current', Have, Acked, Known)
      BY <2>2 DEF PagesOK, Pieces
    <3> QED
      BY <2>1, <2>2, <2>3, <3>1 DEF RequestOK
  <2>5. SharedOK(shared, current', token, Have, Acked, Known)
    <3>1. \A f \in shared : Awaits(current, f) => Awaits(current', f)
      BY <2>2 DEF Awaits, Same
    <3> QED
      BY <1>5, <3>1 DEF SharedOK
  <2>6. BusyPaged' /\ ViewPaged'
    BY <1>1, <1>3, <1>4, <1>7, <2>2 DEF Paged, BusyPaged, ViewPaged, Settled
  <2> QED
    BY <1>1, <1>3, <1>4, <1>7, <2>4, <2>5, <2>6 DEF Paged
<1> QED
  BY <1>6, <1>7 DEF ServeList

\* What a page adds to the ones above it.
LEMMA Gathered ==
  ASSUME NEW rows, NEW cursors, NEW c, NEW page, NEW have, NEW acked, NEW new,
         Pieces(rows, cursors, c, have, acked),
         PageOK(page, c, have, acked), NEW more, more = page.rows, new = appendUnique(rows, more)
  PROVE  /\ ShownOK(new, page.next, cursors, have, acked)
         /\ rows # << >> => new # << >> /\ new[1] = rows[1]
         /\ rows = << >> => new = page.rows
         /\ page.next # NoCursor =>
              /\ new # << >> /\ page.next = new[Len(new)].id /\ Len(new) = PageSize * (Len(cursors) + 1)
              /\ Len(cursors) + 1 < MaxId => Cuts(Append(cursors, page.next), new)
<1> DEFINE m == Len(rows)
           n == Len(more)
           k == Len(cursors)
<1>0. RowsOK(rows, have, acked) /\ Cuts(cursors, rows)
  BY DEF Pieces
<1>1. /\ rows \in Seq(RowSet) /\ m \in Nat /\ DOMAIN rows = 1 .. m /\ (rows = << >> <=> m = 0)
      /\ \A i \in 1 .. m : rows[i].id \in Nat \ {0}
  BY <1>0, RowsAre
<1>2. RowsOK(more, have, acked) /\ n <= PageSize
  BY DEF PageOK
<1>3. /\ more \in Seq(RowSet) /\ n \in Nat /\ DOMAIN more = 1 .. n /\ (more = << >> <=> n = 0)
  BY <1>2, RowsAre
<1>4. rows # << >> => c # NoCursor /\ more # << >> /\ more[1].id = rows[m].id - 1
  <2> SUFFICES ASSUME rows # << >>
               PROVE  c # NoCursor /\ more # << >> /\ more[1].id = rows[m].id - 1
    OBVIOUS
  <2>1. c = rows[m].id /\ m \in 1 .. m
    BY <1>1 DEF Pieces
  <2>2. c # NoCursor
    BY <1>1, <2>1 DEF NoCursor
  <2> QED
    BY <2>1, <2>2 DEF PageOK
<1>5. /\ RowsOK(new, have, acked) /\ Len(new) = m + n
      /\ \A i \in 1 .. m : new[i] = rows[i]
      /\ \A j \in 1 .. n : new[m + j] = more[j]
  <2>1. RowsOK(more, have, acked)
    BY <1>2
  <2>2. rows # << >> /\ more # << >> => more[1].id = rows[Len(rows)].id - 1
    BY <1>4
  <2>3. RowsOK(new, have, acked) /\ Together(new, rows, more)
    BY <1>0, <2>1, <2>2, Joined
  <2> QED
    BY <2>3 DEF Together
<1>6. /\ new \in Seq(RowSet) /\ DOMAIN new = 1 .. Len(new) /\ (new = << >> <=> Len(new) = 0)
      /\ Len(new) \in Nat /\ Len(new) <= MaxId
  BY <1>5, RowsAre
<1>7. PageSize \in Nat \ {0} /\ k \in Nat /\ cursors \in Seq(Ids) /\ m = PageSize * k /\ k < MaxId
  BY <1>0, ClientConstants DEF Cuts, Pieces
<1>8. PageSize * (k + 1) = m + PageSize /\ (k = 0 => m = 0)
  BY <1>7
<1>9. rows = << >> => new = more
  <2> SUFFICES ASSUME rows = << >> PROVE new = more
    OBVIOUS
  <2>1. m = 0
    BY <1>1
  <2>2. \A j \in 1 .. n : new[j] = more[j]
    <3>1. \A j \in 1 .. n : m + j = j
      BY <1>3, <2>1
    <3> QED
      BY <1>5, <3>1
  <2>3. Len(new) = n
    BY <1>3, <1>5, <2>1
  <2> QED
    BY <1>3, <1>6, <2>2, <2>3
<1>10. rows # << >> => new # << >> /\ new[1] = rows[1]
  <2> SUFFICES ASSUME rows # << >> PROVE new # << >> /\ new[1] = rows[1]
    OBVIOUS
  <2>1. 1 \in 1 .. m /\ m > 0
    BY <1>1
  <2>2. Len(new) > 0
    <3> HIDE DEF m, n
    <3> QED
      BY <1>1, <1>3, <1>5, <2>1
  <2> QED
    BY <1>5, <1>6, <2>1, <2>2
<1> HIDE DEF m, n, k
<1>11. \A i \in DOMAIN cursors : i * PageSize \in DOMAIN new /\ cursors[i] = new[i * PageSize].id
  <2> SUFFICES ASSUME NEW i \in DOMAIN cursors
               PROVE  i * PageSize \in DOMAIN new /\ cursors[i] = new[i * PageSize].id
    OBVIOUS
  <2> DEFINE j == i * PageSize
  <2>1. j \in 1 .. m /\ cursors[i] = rows[j].id
    BY <1>0, <1>1 DEF Cuts
  <2> HIDE DEF j
  <2>2. j \in 1 .. (m + n)
    BY <1>1, <1>3, <2>1
  <2> QED
    BY <1>5, <1>6, <2>1, <2>2 DEF j
<1>12. new # << >> => n > 0
  <2> SUFFICES ASSUME new # << >> PROVE n > 0
    OBVIOUS
  <2>1. CASE rows = << >>
    BY <1>3, <1>9, <2>1
  <2>2. CASE rows # << >>
    BY <1>3, <1>4, <2>2
  <2> QED
    BY <2>1, <2>2
<1>13. page.next # NoCursor =>
         n = PageSize /\ Len(new) = PageSize * (k + 1) /\ new # << >> /\ page.next = new[Len(new)].id
  <2> SUFFICES ASSUME page.next # NoCursor
               PROVE  n = PageSize /\ Len(new) = PageSize * (k + 1) /\ new # << >> /\ page.next = new[Len(new)].id
    OBVIOUS
  <2>1. n = PageSize /\ page.next = more[PageSize].id
    BY DEF PageOK, n
  <2>2. Len(new) = m + PageSize /\ PageSize \in 1 .. n
    BY <1>5, <1>7, <2>1
  <2>3. new[Len(new)] = more[PageSize]
    BY <1>5, <2>2
  <2>4. Len(new) # 0
    BY <1>1, <1>7, <2>2
  <2> QED
    BY <1>6, <1>8, <2>1, <2>2, <2>3, <2>4
<1>14. ShownOK(new, page.next, cursors, have, acked)
  <2>1. new # << >> => Cuts(cursors, new)
    BY <1>7, <1>11 DEF Cuts, k
  <2>2. new # << >> => PageSize * k < Len(new) /\ Len(new) <= PageSize * (k + 1)
    <3>1. PageSize * k = m /\ PageSize * (k + 1) = m + PageSize /\ Len(new) = m + n
      BY <1>5, <1>7, <1>8
    <3>2. m \in Nat /\ n \in Nat /\ PageSize \in Nat /\ n <= PageSize
      BY <1>1, <1>2, <1>3, <1>7 DEF n
    <3>3. new # << >> => m < m + n /\ m + n <= m + PageSize
      BY <1>12, <3>2
    <3> QED
      BY <3>1, <3>3
  <2>3. CursorOK(page.next, have)
    BY DEF PageOK
  <2> QED
    BY <1>5, <1>7, <1>13, <2>1, <2>2, <2>3 DEF ShownOK, k
<1>15. ASSUME page.next # NoCursor, k + 1 < MaxId
       PROVE  Cuts(Append(cursors, page.next), new)
  <2> DEFINE longer == Append(cursors, page.next)
  <2>1. page.next \in Ids
    <3>1. Len(new) \in 1 .. Len(new)
      BY <1>6, <1>13, <1>15
    <3>2. new[Len(new)] \in RowSet
      BY <1>5, <3>1, RowsAre
    <3> QED
      BY <1>13, <1>15, <3>2 DEF RowSet
  <2>2. /\ longer \in Seq(Ids) /\ Len(longer) = k + 1 /\ DOMAIN longer = 1 .. (k + 1)
        /\ longer[k + 1] = page.next /\ \A i \in 1 .. k : longer[i] = cursors[i]
    BY <1>7, <2>1 DEF k
  <2>3. ASSUME NEW i \in DOMAIN longer
        PROVE  i * PageSize \in DOMAIN new /\ longer[i] = new[i * PageSize].id
    <3>1. CASE i = k + 1
      <4>1. i * PageSize = Len(new)
        BY <1>7, <1>13, <1>15, <3>1
      <4>2. Len(new) \in DOMAIN new
        BY <1>6, <1>13, <1>15
      <4> QED
        BY <1>13, <1>15, <2>2, <3>1, <4>1, <4>2
    <3>2. CASE i # k + 1
      <4>1. i \in 1 .. k
        BY <1>7, <2>2, <3>2
      <4>2. i \in DOMAIN cursors
        BY <1>7, <4>1 DEF k
      <4> QED
        BY <1>11, <2>2, <4>1, <4>2
    <3> QED
      BY <3>1, <3>2
  <2>4. Len(longer) < MaxId
    BY <1>15, <2>2
  <2> QED
    BY <2>2, <2>3, <2>4 DEF Cuts, longer
<1> QED
  BY <1>9, <1>10, <1>13, <1>14, <1>15 DEF k

LEMMA FinishFields ==
  ASSUME NEW v, IsView(v), Finish(v)
  PROVE  /\ view'.readings = v.readings /\ view'.next = v.next /\ view'.cursors = v.cursors
         /\ current' = NoRequest /\ busy' = FALSE
<1>1. PICK a, b, c, d, e, f :
        v = [readings |-> a, next |-> b, cursors |-> c, loading |-> d, loadingMore |-> e, error |-> f]
  BY DEF IsView
<1>2. \/ view' = v
      \/ view' = [readings |-> a, next |-> b, cursors |-> c, loading |-> FALSE, loadingMore |-> FALSE, error |-> f]
  BY <1>1 DEF Finish
<1>3. current' = NoRequest /\ busy' = FALSE
  BY DEF Finish
<1> QED
  BY <1>1, <1>2, <1>3

\* What is shown is below the first row.
LEMMA CoversShown ==
  ASSUME NEW rows, NEW have, NEW acked, RowsOK(rows, have, acked), NEW known, Covers(rows, known),
         NEW other, other \subseteq known \cup {NoId} \cup {rows[i].id : i \in DOMAIN rows}
  PROVE  Covers(rows, other)
<1> SUFFICES ASSUME rows # << >>, NEW id \in other PROVE id <= rows[1].id
  BY DEF Covers
<1>1. /\ 1 \in 1 .. Len(rows) /\ DOMAIN rows = 1 .. Len(rows) /\ Len(rows) \in Nat
      /\ \A i \in 1 .. Len(rows) : rows[i].id \in Nat /\ rows[i].id = rows[1].id + 1 - i
  BY RowsAre
<1>2. rows[1].id \in Nat
  BY <1>1
<1>3. CASE id \in known \cup {NoId}
  BY <1>2, <1>3 DEF Covers, NoId
<1>4. CASE \E i \in DOMAIN rows : id = rows[i].id
  BY <1>1, <1>2, <1>4
<1> QED
  BY <1>3, <1>4

\* A request is over, and what is shown are pages.
LEMMA EndPaged ==
  ASSUME ListOwned, Paged, NEW v, IsView(v), Finish(v),
         UNCHANGED <<server, token, submit>>, UNCHANGED detailVars,
         NEW known \in SUBSET shared, shared' = known,
         \A f \in known : f.cursor = NoCursor /\ f.token = "good" => token # "good",
         past' \in PastType, Acked' = Acked,
         ShownOK(v.readings, v.next, v.cursors, Have, Floor'),
         v.readings # << >> => token = "good",
         ~past'.dropped => Covers(v.readings, Known)
  PROVE  Paged'
<1>1. /\ view'.readings = v.readings /\ view'.next = v.next /\ view'.cursors = v.cursors
      /\ current' = NoRequest /\ busy' = FALSE
  BY FinishFields
<1>2. selected' = selected /\ posts' = posts
  BY DEF detailVars
<1>3. RowsOK(v.readings, Have, Floor')
  BY DEF ShownOK
<1>4. ServerPaged' /\ PastPaged' /\ FormPaged' /\ Have' = Have
  BY <1>1, <1>2, <1>3, SideStays
<1> DEFINE ids == {v.readings[i].id : i \in DOMAIN v.readings}
<1>5. Known' \subseteq Known \cup {NoId} \cup ids
  BY <1>1, <1>2 DEF Known, ShownIds
<1>6. ViewPaged'
  <2>1. ~past'.dropped => Covers(v.readings, Known')
    BY <1>3, <1>5, CoversShown
  <2> QED
    BY <1>1, <1>4, <2>1 DEF ViewPaged
<1>7. BusyPaged'
  BY <1>1 DEF BusyPaged
<1>8. SharedOK(shared, current, token, Have, Acked, Known) /\ SharedOwned(shared)
  BY DEF Paged, ListOwned
<1>9. ASSUME NEW f \in known
      PROVE  AnswerOK(f.doc, f.cursor, Have, Acked, Known')
  <2> SUFFICES ASSUME f.doc.is = "ok"
               PROVE  PageOK(f.doc.what, f.cursor, Have, Acked)
                      /\ (f.cursor = NoCursor => Covers(f.doc.what.rows, Known'))
    BY DEF AnswerOK
  <2>1. /\ PageOK(f.doc.what, f.cursor, Have, Acked)
        /\ f.cursor = NoCursor => Covers(f.doc.what.rows, Known)
        /\ f.token = "good"
    BY <1>8 DEF SharedOK, SharedOwned, AnswerOK
  <2>2. ASSUME f.cursor = NoCursor
        PROVE  Covers(f.doc.what.rows, Known')
    <3>1. v.readings = << >>
      BY <2>1, <2>2
    <3>2. Known' \subseteq Known \cup {NoId}
      BY <1>5, <3>1
    <3>3. RowsOK(f.doc.what.rows, Have, Acked)
      BY <2>1 DEF PageOK
    <3> QED
      BY <2>1, <2>2, <3>2, <3>3, CoversStays
  <2> QED
    BY <2>1, <2>2
<1>10. SharedOK(known, NoRequest, token, Have, Acked, Known')
  BY <1>8, <1>9 DEF SharedOK
<1> QED
  BY <1>1, <1>4, <1>6, <1>7, <1>10 DEF Paged

ViewWith(v, readings, next, cursors) ==
  IsView(v) /\ v.readings = readings /\ v.next = next /\ v.cursors = cursors

LEMMA ShownFields ==
  ASSUME NEW v, IsView(v), NEW readings, NEW next, NEW cursors
  PROVE  ViewWith([v EXCEPT !.readings = readings, !.next = next, !.cursors = cursors], readings, next, cursors)
<1>1. PICK a, b, c, d, e, f :
        v = [readings |-> a, next |-> b, cursors |-> c, loading |-> d, loadingMore |-> e, error |-> f]
  BY DEF IsView
<1>2. ASSUME NEW w, w = [v EXCEPT !.readings = readings, !.next = next, !.cursors = cursors]
      PROVE  ViewWith(w, readings, next, cursors)
  <2>1. w = [readings |-> readings, next |-> next, cursors |-> cursors,
             loading |-> d, loadingMore |-> e, error |-> f]
    BY <1>1, <1>2
  <2> QED
    BY <2>1, ViewRecord DEF ViewWith
<1> QED
  BY <1>2

LEMMA FailPaged ==
  ASSUME ListOwned, Paged, current # NoRequest, NEW doc, Fail(doc),
         UNCHANGED <<server, token, submit>>, UNCHANGED detailVars,
         NEW known \in SUBSET shared, shared' = known,
         \A f \in known : f.cursor = NoCursor /\ f.token = "good" => token # "good"
  PROVE  Paged'
<1> DEFINE kept == IF current.kind = "first" \/ (current.kind = "refresh" /\ doc = Denied)
                   THEN Clear(view) ELSE view
           v == [kept EXCEPT !.error = TRUE]
<1>1. PICK a, b, c, d, e, f :
        view = [readings |-> a, next |-> b, cursors |-> c, loading |-> d, loadingMore |-> e, error |-> f]
  BY DEF ListOwned, IsView
<1>2. ShownOK(view.readings, view.next, view.cursors, Have, Floor)
  BY DEF Paged, ViewPaged
<1>3. IsView(kept) /\ ShownOK(kept.readings, kept.next, kept.cursors, Have, Floor)
      /\ (kept.readings # << >> => token = "good")
  <2>1. kept = view \/ kept = [readings |-> << >>, next |-> NoCursor, cursors |-> << >>,
                               loading |-> d, loadingMore |-> e, error |-> f]
    BY <1>1 DEF Clear
  <2> HIDE DEF kept
  <2>2. CASE kept = view
    BY <1>2, <2>2 DEF ListOwned
  <2>3. CASE kept = [readings |-> << >>, next |-> NoCursor, cursors |-> << >>,
                     loading |-> d, loadingMore |-> e, error |-> f]
    <3>1. IsView(kept) /\ kept.readings = << >> /\ kept.next = NoCursor /\ kept.cursors = << >>
      BY <2>3, ViewRecord
    <3>2. << >> \in Seq(Ids) /\ Len(<< >>) < MaxId
      BY ClientConstants
    <3>3. ShownOK(<< >>, NoCursor, << >>, Have, Floor)
      BY <3>2, NothingShown
    <3> QED
      BY <3>1, <3>3
  <2> QED
    BY <2>1, <2>2, <2>3
<1>4. Finish(v) /\ past' = [past EXCEPT !.dropped = TRUE]
  BY DEF Fail
<1> HIDE DEF kept
<1>5. ViewWith(v, kept.readings, kept.next, kept.cursors)
  <2>1. PICK r, s, t, x, y, z :
          kept = [readings |-> r, next |-> s, cursors |-> t, loading |-> x, loadingMore |-> y, error |-> z]
    BY <1>3 DEF IsView
  <2>2. ASSUME NEW w, w = v PROVE ViewWith(w, kept.readings, kept.next, kept.cursors)
    <3>1. w = [readings |-> r, next |-> s, cursors |-> t, loading |-> x, loadingMore |-> y, error |-> TRUE]
      BY <2>1, <2>2
    <3> QED
      BY <2>1, <3>1, ViewRecord DEF ViewWith
  <2> QED
    BY <2>2
<1> HIDE DEF v
<1>6. past' \in PastType /\ Acked' = Acked /\ Floor' = Floor /\ past'.dropped = TRUE
  <2>1. past \in [reset : [Ids -> Nat], submitted : [Ids -> Nat], kept : SUBSET Ids, dropped : BOOLEAN]
    BY DEF Paged, PastPaged, PastType
  <2> QED
    BY <1>4, <2>1 DEF PastType, Acked, Floor
<1> QED
  BY <1>3, <1>4, <1>5, <1>6, EndPaged DEF ViewWith

LEMMA TimesGrows ==
  ASSUME NEW p \in Nat \ {0}, NEW i \in Nat, NEW k \in Nat, i <= k
  PROVE  i * p <= k * p /\ k <= p * k /\ i * p \in Nat /\ k * p \in Nat
<1> DEFINE d == k - i
           q == p - 1
<1>1. d \in Nat /\ k = i + d /\ q \in Nat /\ p = q + 1
  OBVIOUS
<1> HIDE DEF d, q
<1>2. (i + d) * p = i * p + d * p /\ d * p \in Nat /\ i * p \in Nat
  BY <1>1
<1>3. (q + 1) * k = q * k + k /\ q * k \in Nat
  BY <1>1
<1> QED
  BY <1>1, <1>2, <1>3

LEMMA ExtendPaged ==
  ASSUME ListOwned, Paged, current # NoRequest, current.kind = "more", token = "good",
         NEW page, PageOK(page, current.cursor, Have, Acked), Extend(page),
         UNCHANGED <<server, token, submit>>, UNCHANGED detailVars,
         NEW known \in SUBSET shared, shared' = known,
         \A f \in known : f.cursor = NoCursor /\ f.token = "good" => token # "good"
  PROVE  Paged'
<1> DEFINE rows == view.readings
           k    == Len(view.cursors)
           more == page.rows
           new  == appendUnique(rows, more)
           cursors == IF Contains(view.cursors, current.cursor) THEN view.cursors
                      ELSE Append(view.cursors, current.cursor)
           v == [view EXCEPT !.readings = new, !.next = page.next, !.cursors = cursors]
<1>2. /\ ShownOK(rows, view.next, view.cursors, Have, Floor) /\ RowsOK(rows, Have, Floor)
      /\ ~past.dropped => Covers(rows, Known)
      /\ view.next # NoCursor /\ current.cursor = view.next
  BY DEF Paged, ViewPaged, ShownOK, RequestOK, Settled
<1>3. Finish(v) /\ past' = past
  BY DEF Extend
<1>4. /\ rows \in Seq(RowSet) /\ Len(rows) \in Nat /\ DOMAIN rows = 1 .. Len(rows)
      /\ (rows = << >> <=> Len(rows) = 0)
      /\ \A i \in 1 .. Len(rows) : rows[i].id \in Nat \ {0} /\ rows[i].id <= MaxId /\ rows[i].id = rows[1].id + 1 - i
  BY <1>2, RowsAre
<1>5. /\ view.cursors \in Seq(Ids) /\ k \in Nat /\ k < MaxId /\ DOMAIN view.cursors = 1 .. k
      /\ Len(rows) = PageSize * (k + 1) /\ view.next = rows[Len(rows)].id
      /\ view.next \in Have \ {1}
  BY <1>2 DEF ShownOK, CursorOK
<1>6. PageSize \in Nat \ {0} /\ MaxId \in Nat
  BY ClientConstants
<1>7. Len(rows) >= k + 1 /\ rows # << >> /\ Len(rows) \in 1 .. Len(rows) /\ 1 \in 1 .. Len(rows)
  <2> DEFINE l == k + 1
  <2>0. l \in Nat /\ l <= l
    BY <1>5
  <2> HIDE DEF l
  <2>1. PageSize * l >= l
    BY <1>6, <2>0, TimesGrows
  <2>2. Len(rows) >= k + 1
    BY <1>5, <2>1 DEF l
  <2> QED
    BY <1>4, <1>5, <2>2
<1>8. Cuts(view.cursors, rows)
  BY <1>2, <1>7 DEF ShownOK
<1>9. k + 1 < MaxId
  <2>1. rows[Len(rows)].id \in Nat /\ rows[Len(rows)].id # 0 /\ rows[Len(rows)].id # 1
    BY <1>4, <1>5, <1>7
  <2>2. rows[1].id \in Nat /\ rows[1].id <= MaxId /\ rows[Len(rows)].id = rows[1].id + 1 - Len(rows)
    BY <1>4, <1>7
  <2>3. Len(rows) < MaxId
    BY <1>4, <1>6, <2>1, <2>2
  <2> HIDE DEF k
  <2> QED
    BY <1>4, <1>5, <1>6, <1>7, <2>3
<1>10. cursors = Append(view.cursors, view.next)
  <2>1. ASSUME NEW i \in 1 .. k
        PROVE  view.cursors[i] # view.next
    <3> DEFINE j == i * PageSize
    <3>1. j \in 1 .. Len(rows) /\ view.cursors[i] = rows[j].id
      BY <1>4, <1>5, <1>8 DEF Cuts
    <3>2. j < Len(rows)
      <4>1. i * PageSize <= k * PageSize
        <5>1. i \in Nat /\ i <= k
          BY <1>5
        <5> HIDE DEF k
        <5> QED
          BY <1>5, <1>6, <5>1, TimesGrows
      <4>2. PageSize * (k + 1) = k * PageSize + PageSize
        BY <1>5, <1>6
      <4>3. k * PageSize \in Nat /\ j \in Nat
        BY <1>5, <1>6
      <4> QED
        BY <1>5, <1>6, <4>1, <4>2, <4>3
    <3> HIDE DEF j
    <3>3. rows[j].id = rows[1].id + 1 - j /\ rows[Len(rows)].id = rows[1].id + 1 - Len(rows) /\ rows[1].id \in Nat
      BY <1>4, <1>7, <3>1
    <3> DEFINE a == rows[1].id
               l == Len(rows)
    <3>4. a \in Nat /\ l \in Nat /\ j \in Nat /\ j < l
      BY <1>4, <3>1, <3>2, <3>3
    <3>5. rows[j].id = a + 1 - j /\ view.next = a + 1 - l
      BY <1>5, <3>3
    <3> HIDE DEF a, l
    <3>6. a + 1 - j # a + 1 - l
      BY <3>4
    <3> QED
      BY <3>1, <3>5, <3>6
  <2>2. ~Contains(view.cursors, current.cursor)
    BY <1>2, <1>5, <2>1 DEF Contains
  <2> QED
    BY <1>2, <2>2
<1> HIDE DEF cursors, new, more
<1>11. Pieces(rows, cursors, current.cursor, Have, Floor)
  <2>1. view.next \in Ids
    BY <1>5 DEF Have
  <2>2. /\ cursors \in Seq(Ids) /\ Len(cursors) = k + 1 /\ DOMAIN cursors = 1 .. (k + 1)
        /\ cursors[k + 1] = view.next /\ \A i \in 1 .. k : cursors[i] = view.cursors[i]
    BY <1>5, <1>10, <2>1
  <2>3. ASSUME NEW i \in DOMAIN cursors
        PROVE  i * PageSize \in DOMAIN rows /\ cursors[i] = rows[i * PageSize].id
    <3>1. CASE i = k + 1
      <4>1. i * PageSize = Len(rows)
        BY <1>5, <1>6, <3>1
      <4> QED
        BY <1>4, <1>5, <1>7, <2>2, <3>1, <4>1
    <3>2. CASE i # k + 1
      <4>1. i \in 1 .. k
        BY <1>5, <2>2, <3>2
      <4> QED
        BY <1>5, <1>8, <2>2, <4>1 DEF Cuts
    <3> QED
      BY <3>1, <3>2
  <2>4. Cuts(cursors, rows)
    BY <1>9, <2>2, <2>3 DEF Cuts
  <2> QED
    BY <1>2, <1>5, <1>7, <2>2, <2>4 DEF Pieces
<1>12. /\ ShownOK(new, page.next, cursors, Have, Floor)
       /\ rows # << >> => new # << >> /\ new[1] = rows[1]
  <2>1. PageOK(page, current.cursor, Have, Floor)
    BY HaveIds, MayBeShown DEF PageOK, Paged, PastPaged
  <2> QED
    BY <1>11, <2>1, Gathered DEF more, new
<1>13. IsView(v) /\ v.readings = new /\ v.next = page.next /\ v.cursors = cursors
  <2>1. IsView(view)
    BY DEF ListOwned
  <2>2. ViewWith(v, new, page.next, cursors)
    BY <2>1, ShownFields
  <2> HIDE DEF v
  <2> QED
    BY <2>2 DEF ViewWith
<1>14. ~past'.dropped => Covers(new, Known)
  BY <1>2, <1>3, <1>7, <1>12 DEF Covers
<1> HIDE DEF v
<1>15. past' \in PastType /\ Acked' = Acked /\ Floor' = Floor
  BY <1>3, PastSame DEF Paged, PastPaged
<1> QED
  BY <1>3, <1>12, <1>13, <1>14, <1>15, EndPaged

\* What a refresh, or a first load, has with the page that came.
LEMMA GatheredSoFar ==
  ASSUME NEW q, NEW have, NEW acked, NEW known, PagesOK(q, have, acked, known), q.pages \in 1 .. MaxId,
         NEW page, PageOK(page, q.cursor, have, acked), q.cursor = NoCursor => Covers(page.rows, known),
         NEW new, new = appendUnique(q.rows, page.rows)
  PROVE  /\ ShownOK(new, page.next, q.cursors, have, acked) /\ Covers(new, known)
         /\ page.next # NoCursor =>
              /\ new # << >> /\ page.next = new[Len(new)].id /\ Len(new) = PageSize * (Len(q.cursors) + 1)
              /\ q.pages > 1 => Cuts(Append(q.cursors, page.next), new)
<1> DEFINE rows    == q.rows
           cursors == q.cursors
           c       == q.cursor
           more    == page.rows
<1>1. Pieces(rows, cursors, c, have, acked) /\ PageOK(page, c, have, acked) /\ new = appendUnique(rows, more)
  BY DEF PagesOK
<1>2. more = page.rows
  OBVIOUS
<1>3. c = IF rows = << >> THEN NoCursor ELSE rows[Len(rows)].id
  BY <1>1 DEF Pieces
<1>4. (rows # << >> => Covers(rows, known)) /\ (rows = << >> => Covers(page.rows, known))
  BY <1>3 DEF PagesOK
<1>5. cursors \in Seq(Ids) /\ Len(cursors) + q.pages <= MaxId
  BY <1>1 DEF PagesOK, Pieces, Cuts
<1> HIDE DEF rows, cursors, c, more
<1>6. /\ ShownOK(new, page.next, cursors, have, acked)
      /\ rows # << >> => new # << >> /\ new[1] = rows[1]
      /\ rows = << >> => new = page.rows
      /\ page.next # NoCursor =>
           /\ new # << >> /\ page.next = new[Len(new)].id /\ Len(new) = PageSize * (Len(cursors) + 1)
           /\ Len(cursors) + 1 < MaxId => Cuts(Append(cursors, page.next), new)
  BY <1>1, <1>2, Gathered
<1>7. Covers(new, known)
  BY <1>4, <1>6 DEF Covers
<1>8. q.pages > 1 => Len(cursors) + 1 < MaxId
  BY <1>5, ClientConstants
<1> QED
  BY <1>6, <1>7, <1>8 DEF cursors

\* The next page is asked for.
LEMMA ContinuePaged ==
  ASSUME ListOwned, Paged, current # NoRequest, current.kind # "more", current.pages > 1,
         NEW page, PageOK(page, current.cursor, Have, Acked), page.next # NoCursor,
         current.cursor = NoCursor => Covers(page.rows, Known),
         NEW known \in SUBSET shared,
         \A f \in known : f.cursor = NoCursor /\ f.token = "good" => token # "good",
         Ask([current EXCEPT !.rows = appendUnique(@, page.rows), !.cursor = page.next,
                             !.pages = @ - 1, !.cursors = Append(@, page.next)], known),
         UNCHANGED <<server, token, submit, view, busy, past>>, UNCHANGED detailVars
  PROVE  Paged'
<1> DEFINE rows    == appendUnique(current.rows, page.rows)
           pages   == current.pages - 1
           cursors == Append(current.cursors, page.next)
           req     == [current EXCEPT !.rows = rows, !.cursor = page.next, !.pages = pages, !.cursors = cursors]
<1>1. Ask(req, known)
  OBVIOUS
<1>2. IsRequest(current) /\ RequestOK(current, view.next, Have, Acked, Known)
  BY DEF ListOwned, RequestOwned, Paged
<1>3. PagesOK(current, Have, Acked, Known) /\ current.pages \in 1 .. MaxId
      /\ current.kind \in {"first", "more", "refresh"}
  BY <1>2 DEF RequestOK
<1>4. /\ ShownOK(rows, page.next, current.cursors, Have, Acked) /\ Covers(rows, Known)
      /\ rows # << >> /\ page.next = rows[Len(rows)].id /\ Len(rows) = PageSize * (Len(current.cursors) + 1)
      /\ Cuts(cursors, rows)
  BY <1>3, GatheredSoFar
<1>5. pages \in 1 .. MaxId
  BY <1>3, ClientConstants
<1> HIDE DEF rows, pages
<1>6. Len(cursors) = Len(current.cursors) + 1 /\ Len(cursors) + pages <= MaxId
  <2>1. page.next \in Ids
    BY DEF PageOK, CursorOK, Have
  <2>2. current.cursors \in Seq(Ids) /\ Len(current.cursors) + current.pages <= MaxId
    BY <1>3 DEF PagesOK, Pieces, Cuts
  <2>3. Len(cursors) = Len(current.cursors) + 1 /\ Len(current.cursors) \in Nat
    BY <2>1, <2>2
  <2> HIDE DEF cursors
  <2> QED
    BY <1>3, <2>2, <2>3, ClientConstants DEF pages
<1> HIDE DEF cursors
<1>7. /\ IsRequest(req) /\ req.kind = current.kind /\ req.cursor = page.next /\ req.bypass = current.bypass
      /\ req.pages = pages /\ req.rows = rows /\ req.cursors = cursors
  <2> DEFINE Sent(r) == /\ IsRequest(r) /\ r.kind = current.kind /\ r.cursor = page.next /\ r.bypass = current.bypass
                        /\ r.pages = pages /\ r.rows = rows /\ r.cursors = cursors
  <2>1. PICK a, b, c, d, e, f, g, h :
          /\ a # "none"
          /\ current = [kind |-> a, token |-> b, cursor |-> c, bypass |-> d,
                        own |-> e, pages |-> f, rows |-> g, cursors |-> h]
    BY <1>2 DEF IsRequest
  <2>2. ASSUME NEW r, r = req PROVE Sent(r)
    <3>1. r = [kind |-> a, token |-> b, cursor |-> page.next, bypass |-> d,
               own |-> e, pages |-> pages, rows |-> rows, cursors |-> cursors]
      BY <2>1, <2>2
    <3>2. IsRequest(r)
      BY <2>1, <3>1, RequestRecord
    <3> QED
      BY <2>1, <3>1, <3>2
  <2> HIDE DEF Sent
  <2>3. Sent(req)
    BY <2>2
  <2> HIDE DEF req
  <2> QED
    BY <2>3 DEF Sent
<1> HIDE DEF req
<1>8. /\ Known' = Known /\ past \in PastType /\ Acked' = Acked /\ Floor' = Floor
      /\ RowsOK(view.readings, Have, Floor)
  <2>1. Acked' = Acked /\ Floor' = Floor
    BY PastSame
  <2> QED
    BY <2>1 DEF Known, ShownIds, detailVars, Paged, PastPaged, ViewPaged, ShownOK
<1>9. ServerPaged' /\ PastPaged' /\ FormPaged' /\ Have' = Have
  BY <1>8, SideStays DEF detailVars
<1>10. SharedOK(shared, current, token, Have, Acked, Known) /\ SharedOwned(shared)
  BY DEF Paged, ListOwned
<1>11. /\ current' # NoRequest /\ current'.kind = req.kind /\ current'.rows = req.rows
       /\ RequestOK(current', view.next, Have, Acked, Known)
       /\ SharedOK(shared', current', token, Have, Acked, Known)
  <2>1. PagesOK(req, Have, Acked, Known)
    <3>1. RowsOK(rows, Have, Acked)
      BY <1>4 DEF ShownOK
    <3>2. Len(rows) = PageSize * Len(cursors)
      BY <1>4, <1>6
    <3>3. Pieces(rows, cursors, page.next, Have, Acked)
      BY <1>4, <3>1, <3>2 DEF Pieces
    <3> QED
      BY <1>4, <1>6, <1>7, <3>3 DEF PagesOK
  <2>2. CursorOK(req.cursor, Have)
    BY <1>7 DEF PageOK
  <2>3. \A f \in known : IsShared(f) /\ CursorOK(f.cursor, Have)
                         /\ AnswerOK(f.doc, f.cursor, Have, Acked, Known)
    BY <1>10 DEF SharedOK, SharedOwned
  <2>4. \A f, g \in known : Same(f, g) => f = g
    BY <1>10 DEF SharedOK
  <2>5. /\ req.kind \in {"first", "more", "refresh"} /\ req.pages \in 1 .. MaxId /\ req.kind # "more"
    BY <1>3, <1>5, <1>7
  <2>6. /\ req.kind = "more" => ~req.bypass /\ req.cursor # NoCursor /\ req.cursor = view.next
        /\ req.kind # "more" => PagesOK(req, Have, Acked, Known)
    BY <2>1, <2>5
  <2>7. \A f \in known : f.cursor = NoCursor /\ f.token = "good" =>
                            token # "good" \/ (~req.bypass /\ Same(f, req))
    OBVIOUS
  <2> QED
    BY <1>1, <1>7, <2>2, <2>3, <2>4, <2>5, <2>6, <2>7, Asked
<1>12. ViewPaged' /\ BusyPaged'
  <2>1. ~Settled(current')
    BY <1>7, <1>11 DEF Settled
  <2>2. busy' # FALSE
    BY DEF Paged, BusyPaged
  <2> QED
    BY <1>8, <1>9, <1>11, <2>1, <2>2 DEF Paged, ViewPaged, BusyPaged
<1> QED
  BY <1>8, <1>9, <1>11, <1>12 DEF Paged

LEMMA ShowPaged ==
  ASSUME ListOwned, Paged, current # NoRequest, current.kind # "more", token = "good",
         NEW page, PageOK(page, current.cursor, Have, Acked), Show(page),
         current.cursor = NoCursor => Covers(page.rows, Known),
         UNCHANGED <<server, token, submit>>, UNCHANGED detailVars,
         NEW known \in SUBSET shared, shared' = known,
         \A f \in known : f.cursor = NoCursor /\ f.token = "good" => token # "good"
  PROVE  Paged'
<1> DEFINE new == appendUnique(current.rows, page.rows)
           v   == [view EXCEPT !.readings = new, !.next = page.next, !.cursors = current.cursors]
<1>1. Finish(v) /\ past' = [past EXCEPT !.dropped = FALSE, !.kept = {}]
  BY DEF Show
<1>2. PagesOK(current, Have, Acked, Known) /\ current.pages \in 1 .. MaxId
  BY DEF Paged, RequestOK
<1>3. ShownOK(new, page.next, current.cursors, Have, Acked) /\ Covers(new, Known)
  BY <1>2, GatheredSoFar
<1> HIDE DEF new
<1>4. IsView(v) /\ v.readings = new /\ v.next = page.next /\ v.cursors = current.cursors
  <2>1. IsView(view)
    BY DEF ListOwned
  <2>2. ViewWith(v, new, page.next, current.cursors)
    BY <2>1, ShownFields
  <2> HIDE DEF v
  <2> QED
    BY <2>2 DEF ViewWith
<1> HIDE DEF v
<1>5. past' \in PastType /\ Acked' = Acked /\ Floor' = Acked
  <2>1. past \in [reset : [Ids -> Nat], submitted : [Ids -> Nat], kept : SUBSET Ids, dropped : BOOLEAN]
    BY DEF Paged, PastPaged, PastType
  <2>2. /\ past' \in PastType /\ past'.reset = past.reset /\ past'.submitted = past.submitted
        /\ past'.kept = {}
    BY <1>1, <2>1 DEF PastType
  <2>3. Acked' = Acked
    BY <2>2 DEF Acked
  <2>4. Floor' = [id \in Ids |-> Acked[id]]
    BY <2>2, <2>3 DEF Floor
  <2> QED
    BY <2>1, <2>2, <2>3, <2>4, PastIs DEF PastType
<1> QED
  BY <1>1, <1>3, <1>4, <1>5, EndPaged

LEMMA ArrivePaged ==
  ASSUME ListOwned, Paged, current # NoRequest,
         UNCHANGED <<server, token, submit>>, UNCHANGED detailVars,
         NEW doc, AnswerOK(doc, current.cursor, Have, Acked, Known), doc.is = "ok" => token = "good",
         NEW known \in SUBSET shared,
         \A f \in known : f.cursor = NoCursor /\ f.token = "good" => token # "good",
         Arrive(doc, known)
  PROVE  Paged'
<1>1. CASE doc.is # "ok"
  BY <1>1, FailPaged DEF Arrive
<1>2. CASE doc.is = "ok"
  <2> DEFINE page == doc.what
  <2>1. /\ PageOK(page, current.cursor, Have, Acked)
        /\ current.cursor = NoCursor => Covers(page.rows, Known)
    BY <1>2 DEF AnswerOK
  <2>2. \/ current.kind = "more" /\ Extend(page) /\ shared' = known
        \/ /\ current.kind # "more" /\ current.pages > 1 /\ page.next # NoCursor
           /\ Ask([current EXCEPT !.rows = appendUnique(@, page.rows), !.cursor = page.next,
                                  !.pages = @ - 1, !.cursors = Append(@, page.next)], known)
           /\ UNCHANGED <<view, busy, past>>
        \/ current.kind # "more" /\ Show(page) /\ shared' = known
    BY <1>2 DEF Arrive
  <2> HIDE DEF page
  <2> QED
    BY <1>2, <2>1, <2>2, ExtendPaged, ContinuePaged, ShowPaged
<1> QED
  BY <1>1, <1>2

LEMMA DeliverPaged ==
  ASSUME ListOwned, Paged, DeliverList, UNCHANGED detailVars
  PROVE  Paged'
<1>1. UNCHANGED <<server, token, submit>>
  BY DEF DeliverList
<1>2. SharedOK(shared, current, token, Have, Acked, Known) /\ SharedOwned(shared)
  BY DEF Paged, ListOwned
<1>3. ASSUME NEW f \in shared, WaitsFor(f), Arrive(f.doc, shared \ {f})
      PROVE  Paged'
  <2>1. current # NoRequest /\ Same(f, current) /\ f.token = token /\ f.cursor = current.cursor
    BY <1>3 DEF WaitsFor, Same, ListOwned, RequestOwned
  <2>2. AnswerOK(f.doc, current.cursor, Have, Acked, Known) /\ (f.doc.is = "ok" => token = "good")
    BY <1>2, <2>1 DEF SharedOK, SharedOwned
  <2>3. ASSUME NEW g \in shared \ {f}, g.cursor = NoCursor, g.token = "good"
        PROVE  token # "good"
    <3>1. ~Awaits(current, g)
      BY <1>2, <2>1, <2>3 DEF SharedOK, Awaits, Same
    <3> QED
      BY <1>2, <2>3, <3>1 DEF SharedOK
  <2> QED
    BY <1>1, <1>3, <2>1, <2>2, <2>3, ArrivePaged
<1>4. ASSUME NEW f \in shared, ~WaitsFor(f), shared' = shared \ {f}, UNCHANGED <<view, current, busy, past>>
      PROVE  Paged'
  <2>1. /\ RowsOK(view.readings, Have, Floor) /\ past \in PastType
        /\ Acked' = Acked /\ Floor' = Floor
    BY <1>4, PastSame DEF Paged, ViewPaged, ShownOK, PastPaged
  <2>2. ServerPaged' /\ PastPaged' /\ FormPaged' /\ Have' = Have
    BY <1>1, <1>4, <2>1, SideStays DEF detailVars
  <2>3. Known' = Known
    BY <1>4, <2>1 DEF Known, ShownIds, detailVars
  <2>4. SharedOK(shared', current, token, Have, Acked, Known)
    BY <1>2, <1>4 DEF SharedOK
  <2> QED
    BY <1>1, <1>4, <2>1, <2>2, <2>3, <2>4 DEF Paged, ViewPaged, BusyPaged
<1>5. ASSUME current # NoRequest, current.bypass, Arrive(current.own, shared)
      PROVE  Paged'
  <2>1. AnswerOK(current.own, current.cursor, Have, Acked, Known) /\ (current.own.is = "ok" => token = "good")
    BY <1>5 DEF Paged, RequestOK, ListOwned, RequestOwned
  <2>2. \A g \in shared : g.cursor = NoCursor /\ g.token = "good" => token # "good"
    BY <1>2, <1>5 DEF SharedOK, Awaits
  <2> QED
    BY <1>1, <1>5, <2>1, <2>2, ArrivePaged
<1> QED
  BY <1>3, <1>4, <1>5 DEF DeliverList

\* The steps that change neither what is shown nor what is asked for: the
\* server may go on, and the client knows no other readings.
LEMMA OthersStay ==
  ASSUME Paged, PostsFresh, ServerPaged', ServerGrows, Have \subseteq Have', FormPaged',
         UNCHANGED <<token, view, current, busy, shared, past>>,
         selected' \in Known \cup {NoId},
         \A p \in posts' :
           \/ \E q \in posts : p.id = q.id /\ p.token = q.token /\ p.doc = q.doc
           \/ /\ p.id \in Known \cup {NoId}
              /\ p.doc.is = "ok" => p.token = "good" /\ p.doc.what \in 1 .. server'[p.id].version
  PROVE  Paged'
<1>1. PastPaged /\ BusyPaged /\ ServerOK /\ Acked' = Acked
  BY PastSame DEF Paged, ServerPaged
<1>2. Known' \subseteq Known \cup {NoId}
  BY <1>1 DEF Known, ShownIds
<1>3. \A id \in Ids : Acked[id] <= server'[id].version
  <2> SUFFICES ASSUME NEW id \in Ids PROVE Acked[id] <= server'[id].version
    OBVIOUS
  <2>1. Acked[id] \in Nat /\ Acked[id] <= server[id].version
    BY <1>1, PastIs DEF PastPaged
  <2>2. server'[id].version >= server[id].version /\ server[id].version \in Nat /\ server'[id].version \in Nat
    BY <1>1 DEF ServerGrows, ServerOK
  <2> QED
    BY <2>1, <2>2
<1>4. ASSUME NEW p \in posts', p.doc.is = "ok"
      PROVE  p.token = "good" /\ p.doc.what \in 1 .. server'[p.id].version
  <2>1. CASE \E q \in posts : p.id = q.id /\ p.token = q.token /\ p.doc = q.doc
    <3>1. PICK q \in posts : p.id = q.id /\ p.token = q.token /\ p.doc = q.doc
      BY <2>1
    <3>2. q.token = "good" /\ q.doc.what \in 1 .. server[q.id].version /\ q.id \in Ids
      BY <1>1, <1>4, <3>1 DEF PastPaged, PostsFresh
    <3>3. server'[q.id].version >= server[q.id].version /\ server[q.id].version \in Nat /\ server'[q.id].version \in Nat
      BY <1>1, <3>2 DEF ServerGrows, ServerOK
    <3> QED
      BY <3>1, <3>2, <3>3
  <2> QED
    BY <1>4, <2>1
<1>5. PastPaged'
  <2>1. Known' \subseteq Have' \cup {NoId}
    BY <1>1, <1>2 DEF PastPaged
  <2> QED
    BY <1>1, <1>3, <1>4, <2>1 DEF PastPaged
<1>6. BusyPaged'
  BY <1>1 DEF BusyPaged
<1> QED
  BY <1>2, <1>5, <1>6, PagedStays

\* The readings that are there stay, and what the form knows of its one holds.
LEMMA FormStays ==
  ASSUME ServerOK, FormPaged, ServerGrows, Have \subseteq Have', submit' = submit
  PROVE  FormPaged'
<1> SUFFICES ASSUME submit.at = "done" PROVE submit.version \in 1 .. server'[submit.id].version
  BY DEF FormPaged
<1>1. submit.version \in 1 .. server[submit.id].version /\ submit.id \in Ids
  BY DEF FormPaged, Have
<1>2. /\ server'[submit.id].version >= server[submit.id].version
      /\ server[submit.id].version \in Nat /\ server'[submit.id].version \in Nat
  BY <1>1 DEF ServerGrows, ServerOK
<1> QED
  BY <1>1, <1>2

LEMMA SettlePaged ==
  ASSUME Paged, PostsFresh, NEW id \in Ids, Settle(id), UNCHANGED detailVars
  PROVE  Paged'
<1>0. ServerPaged
  BY DEF Paged
<1>1. ServerGrows
  BY <1>0 DEF Settle, ServerPaged, ServerOK, ServerGrows
<1>2. \A i \in Ids : server'[i] = Absent <=> server[i] = Absent
  BY <1>0 DEF Settle, ServerPaged, ServerOK, Absent
<1>3. Have' = Have
  BY <1>2 DEF Have
<1>4. ServerPaged'
  <2>1. \A i \in Ids : server'[i] = Absent \/ (server'[i].status # "none" /\ server'[i].version > 0)
    BY <1>0, <1>2 DEF Settle, ServerPaged, ServerOK
  <2> QED
    BY <1>0, <1>1, <1>3, <2>1 DEF ServerPaged, ServerGrows
<1>5. FormPaged'
  BY <1>0, <1>1, <1>3, FormStays DEF Paged, ServerPaged, Settle
<1>6. selected' = selected /\ posts' = posts /\ selected \in Known
  BY DEF detailVars, Known
<1> QED
  BY <1>1, <1>3, <1>4, <1>5, <1>6, OthersStay DEF Settle

LEMMA SubmitServePaged ==
  ASSUME Paged, PostsFresh, SubmitServe, UNCHANGED detailVars
  PROVE  Paged'
<1>0. ServerPaged /\ FormPaged
  BY DEF Paged
<1>1. PICK id \in Ids, answer \in Reply(submit.token, [is |-> "ok"]) :
        /\ submit' = IF answer.is = "ok"
                     THEN [at |-> "done", token |-> submit.token, pages |-> submit.pages,
                           id |-> id, version |-> server'[id].version]
                     ELSE [at |-> "failed"]
        /\ IngestURL(id) \/ (answer.is # "ok" /\ UNCHANGED server)
  BY DEF SubmitServe
<1>2. /\ UNCHANGED <<token, view, current, busy, shared, past>> /\ submit.at = "sent"
      /\ selected' = selected /\ posts' = posts
  BY DEF SubmitServe, detailVars
<1>3. ServerGrows
  BY <1>0, ListGrows DEF ServerPaged, ListStep
<1>4. ServerPaged' /\ Have \subseteq Have' /\ (answer.is = "ok" => id \in Have')
  <2>0. \/ /\ server[id].status = "failed" \/ \A i \in Ids : server[i] = Absent <=> i >= id
           /\ server' = [server EXCEPT ![id] = [status |-> "pending", version |-> @.version + 1]]
        \/ UNCHANGED server /\ (answer.is = "ok" => server[id] # Absent)
    BY <1>1 DEF IngestURL, Absent
  <2>1. CASE /\ server[id].status = "failed" \/ \A i \in Ids : server[i] = Absent <=> i >= id
             /\ server' = [server EXCEPT ![id] = [status |-> "pending", version |-> @.version + 1]]
    <3>1. /\ server'[id] = [status |-> "pending", version |-> server[id].version + 1]
          /\ \A i \in Ids : i # id => server'[i] = server[i]
      BY <1>0, <2>1 DEF ServerPaged, ServerOK
    <3>2. /\ server'[id] # Absent /\ server'[id].status = "pending"
          /\ server'[id].version = server[id].version + 1 /\ server[id].version \in Nat
      BY <1>0, <3>1 DEF ServerPaged, ServerOK, Absent
    <3>3. \A i \in Ids : server'[i] = Absent \/ (server'[i].status # "none" /\ server'[i].version > 0)
      BY <1>0, <3>1, <3>2 DEF ServerPaged
    <3>4. \E top \in 0 .. MaxId : Have' = 1 .. top
      <4>1. CASE server[id].status = "failed"
        <5>1. \A i \in Ids : server'[i] # Absent <=> server[i] # Absent
          BY <3>1, <3>2, <4>1 DEF Absent
        <5> QED
          BY <1>0, <5>1 DEF Have, ServerPaged
      <4>2. CASE \A i \in Ids : server[i] = Absent <=> i >= id
        <5>1. \A i \in Ids : server'[i] # Absent <=> i <= id
          BY <3>1, <3>2, <4>2 DEF Ids
        <5>2. Have' = {i \in Ids : i <= id}
          BY <5>1 DEF Have
        <5>3. Have' = 1 .. id /\ id \in 0 .. MaxId
          BY <5>2, ClientConstants DEF Ids
        <5> QED
          BY <5>3
      <4> QED
        BY <2>1, <4>1, <4>2
    <3>5. Have \subseteq Have' /\ id \in Have'
      BY <3>1, <3>2 DEF Have
    <3> QED
      BY <1>3, <3>3, <3>4, <3>5 DEF ServerPaged, ServerGrows
  <2>2. CASE UNCHANGED server /\ (answer.is = "ok" => server[id] # Absent)
    <3>1. Have' = Have
      BY <2>2 DEF Have
    <3> QED
      BY <1>0, <2>2, <3>1 DEF ServerPaged, ServerOK, Have
  <2> QED
    BY <2>0, <2>1, <2>2
<1>5. FormPaged'
  <2>1. answer.is = "ok" => submit.token = "good"
    BY DEF Reply, Denied
  <2>2. submit.pages \in 1 .. MaxId
    BY <1>0, <1>2 DEF FormPaged
  <2>3. CASE answer.is = "ok"
    <3>1. /\ submit'.at = "done" /\ submit'.token = submit.token /\ submit'.pages = submit.pages
          /\ submit'.id = id /\ submit'.version = server'[id].version
      BY <1>1, <2>3
    <3>2. server'[id].version \in 1 .. server'[id].version
      BY <1>4, <2>3 DEF ServerPaged, ServerOK, Have
    <3> QED
      BY <1>4, <2>1, <2>2, <2>3, <3>1, <3>2 DEF FormPaged
  <2>4. CASE answer.is # "ok"
    BY <1>1, <2>4 DEF FormPaged
  <2> QED
    BY <2>3, <2>4
<1>6. selected \in Known
  BY DEF Known
<1> QED
  BY <1>2, <1>3, <1>4, <1>5, <1>6, OthersStay

\* Nothing happens to the server either.
LEMMA AsideStays ==
  ASSUME Paged, PostsFresh, FormPaged',
         UNCHANGED <<server, token, view, current, busy, shared, past>>,
         selected' \in Known \cup {NoId},
         \A p \in posts' :
           \/ \E q \in posts : p.id = q.id /\ p.token = q.token /\ p.doc = q.doc
           \/ p.id \in Known \cup {NoId} /\ p.doc.is # "ok"
  PROVE  Paged'
<1>1. ServerPaged /\ ServerOK
  BY DEF Paged, ServerPaged
<1>2. Have' = Have
  BY DEF Have
<1>3. ServerPaged' /\ ServerGrows
  BY <1>1, <1>2, ServerStays DEF ServerPaged, ServerGrows
<1> QED
  BY <1>2, <1>3, OthersStay

LEMMA SubmitPaged ==
  ASSUME Paged, PostsFresh, SubmitClick \/ SubmitEnd, UNCHANGED detailVars
  PROVE  Paged'
<1>1. UNCHANGED <<server, token, view, current, busy, shared, past>>
  BY DEF SubmitClick, SubmitEnd
<1>2. selected' \in Known \cup {NoId} /\ posts' = posts
  BY DEF detailVars, Known
<1>3. FormPaged'
  <2>1. CASE SubmitEnd
    BY <2>1 DEF SubmitEnd, NoSubmit, FormPaged
  <2>2. CASE SubmitClick
    <3>1. submit'.at = "sent" /\ submit'.pages = Len(view.cursors) + 1
      BY <2>2 DEF SubmitClick
    <3>2. Len(view.cursors) < MaxId /\ view.cursors \in Seq(Ids)
      BY DEF Paged, ViewPaged, ShownOK
    <3>3. Len(view.cursors) + 1 \in 1 .. MaxId
      BY <3>2, ClientConstants
    <3> QED
      BY <3>1, <3>3 DEF FormPaged
  <2> QED
    BY <2>1, <2>2
<1> QED
  BY <1>1, <1>2, <1>3, AsideStays

LEMMA ListNextPaged == ASSUME Owned, Fresh, Paged, ListNext PROVE Paged'
<1>1. ListOwned /\ PostsFresh /\ UNCHANGED detailVars /\ ListStep
  BY DEF Owned, Fresh, ListNext
<1>2. CASE handleLoadMore
  <2>1. /\ loadReadings(token, view.next) /\ ~busy /\ UNCHANGED <<server, token, submit, past>>
    BY <1>2 DEF handleLoadMore
  <2>2. past \in PastType /\ Acked' = Acked /\ Floor' = Floor
    BY <2>1, PastSame DEF Paged, PastPaged
  <2> QED
    BY <1>1, <2>1, <2>2, LoadPaged DEF detailVars
<1> QED
  BY <1>1, <1>2, SettlePaged, PollPaged, ServePaged, DeliverPaged, AckPaged, SubmitServePaged, SubmitPaged DEF ListStep

\* A reset of a row that is shown.
LEMMA RestartedIs ==
  ASSUME NEW row \in RowSet, NEW version \in Nat \ {0}, NEW r, r = Restarted(row, version)
  PROVE  r \in RowSet /\ r.id = row.id /\ r.version = Later(row.version, version)
<1>1. row = [id |-> row.id, status |-> row.status, version |-> row.version]
      /\ row.id \in Ids /\ row.version \in Nat \ {0}
  BY DEF RowSet
<1>2. r = [id |-> row.id, status |-> "pending", version |-> Later(row.version, version)]
  BY <1>1 DEF Restarted
<1>3. Later(row.version, version) \in Nat \ {0}
  BY <1>1 DEF Later
<1> QED
  BY <1>1, <1>2, <1>3 DEF RowSet

\* The rows that are shown, with one of them reset; and what was acknowledged.
IsReset(new, rows, id, version) ==
  new = [i \in DOMAIN rows |-> IF rows[i].id # id THEN rows[i] ELSE Restarted(rows[i], version)]
AckedToo(later, acked, id, version) ==
  /\ acked \in [Ids -> Nat] /\ later[id] = Later(acked[id], version)
  /\ \A i \in Ids : i # id => later[i] = acked[i]

LEMMA ShownReset ==
  ASSUME NEW rows, NEW next, NEW cursors, NEW have, NEW acked, ShownOK(rows, next, cursors, have, acked),
         NEW id \in Ids, NEW version \in Nat \ {0}, NEW later, AckedToo(later, acked, id, version),
         NEW new, IsReset(new, rows, id, version)
  PROVE  /\ ShownOK(new, next, cursors, have, later)
         /\ new = << >> <=> rows = << >>
         /\ DOMAIN new = DOMAIN rows /\ \A i \in DOMAIN rows : new[i].id = rows[i].id
<1>0. /\ acked \in [Ids -> Nat] /\ later[id] = Later(acked[id], version)
      /\ \A i \in Ids : i # id => later[i] = acked[i]
      /\ new = [i \in DOMAIN rows |-> IF rows[i].id # id THEN rows[i] ELSE Restarted(rows[i], version)]
  BY DEF AckedToo, IsReset
<1>1. RowsOK(rows, have, acked)
  BY DEF ShownOK
<1>2. /\ rows \in Seq(RowSet) /\ Len(rows) \in Nat /\ DOMAIN rows = 1 .. Len(rows)
      /\ \A i \in DOMAIN rows : rows[i] \in RowSet
  BY <1>1, RowsAre
<1>3. ASSUME NEW i \in DOMAIN rows
      PROVE  new[i] \in RowSet /\ new[i].id = rows[i].id /\ new[i].version >= later[new[i].id]
  <2>1. rows[i] \in RowSet /\ rows[i].version >= acked[rows[i].id]
    BY <1>1, <1>2 DEF RowsOK
  <2>2. rows[i].id \in Ids /\ rows[i].version \in Nat /\ acked[rows[i].id] \in Nat
    BY <1>0, <2>1 DEF RowSet
  <2>3. CASE rows[i].id # id
    BY <1>0, <2>1, <2>2, <2>3
  <2>4. CASE rows[i].id = id
    <3>1. new[i] \in RowSet /\ new[i].id = id /\ new[i].version = Later(rows[i].version, version)
      <4>1. new[i] = Restarted(rows[i], version)
        BY <1>0, <2>4
      <4> QED
        BY <2>1, <2>4, <4>1, RestartedIs
    <3> QED
      BY <1>0, <2>1, <2>2, <2>4, <3>1 DEF Later
  <2> QED
    BY <2>3, <2>4
<1>4. new \in Seq(RowSet) /\ Len(new) = Len(rows) /\ DOMAIN new = 1 .. Len(rows)
  <2>1. new = [i \in 1 .. Len(rows) |-> IF rows[i].id # id THEN rows[i] ELSE Restarted(rows[i], version)]
    BY <1>0, <1>2
  <2>2. \A i \in 1 .. Len(rows) : (IF rows[i].id # id THEN rows[i] ELSE Restarted(rows[i], version)) \in RowSet
    BY <1>0, <1>2, <1>3
  <2> QED
    BY <1>2, <2>1, <2>2
<1> HIDE DEF Restarted
<1>5. RowsOK(new, have, later)
  <2> SUFFICES ASSUME NEW i \in DOMAIN new
               PROVE  /\ new[i].id \in have /\ new[i].id = new[1].id + 1 - i
                      /\ new[i].version >= later[new[i].id]
    BY <1>4 DEF RowsOK
  <2>1. i \in DOMAIN rows /\ 1 \in DOMAIN rows
    BY <1>2, <1>4
  <2>2. new[i].id = rows[i].id /\ new[1].id = rows[1].id
    BY <1>3, <2>1
  <2>3. rows[i].id \in have /\ rows[i].id = rows[1].id + 1 - i
    BY <1>1, <2>1 DEF RowsOK
  <2> QED
    BY <1>3, <2>1, <2>2, <2>3
<1>6. new = << >> <=> rows = << >>
  BY <1>2, <1>4
<1>7. Cuts(cursors, rows) => Cuts(cursors, new)
  BY <1>2, <1>3, <1>4 DEF Cuts
<1>8. next # NoCursor => Len(rows) = PageSize * (Len(cursors) + 1) /\ next = rows[Len(rows)].id
  BY DEF ShownOK
<1>9. next # NoCursor => new[Len(rows)].id = rows[Len(rows)].id
  <2> SUFFICES ASSUME next # NoCursor PROVE new[Len(rows)].id = rows[Len(rows)].id
    OBVIOUS
  <2>1. Len(cursors) \in Nat /\ PageSize \in Nat \ {0}
    BY ClientConstants DEF ShownOK
  <2>2. PageSize * (Len(cursors) + 1) # 0
    BY <2>1
  <2>3. Len(rows) \in DOMAIN rows
    BY <1>2, <1>8, <2>2
  <2> QED
    BY <1>3, <2>3
<1>10. ShownOK(new, next, cursors, have, later)
  BY <1>4, <1>5, <1>6, <1>7, <1>8, <1>9 DEF ShownOK
<1> QED
  BY <1>2, <1>3, <1>4, <1>6, <1>10

LEMMA ResetPaged ==
  ASSUME ListOwned, Paged, PostsFresh, NEW p \in posts, p.doc.is = "ok", ListReset(p.id, p.doc.what),
         UNCHANGED <<server, token, submit, selected>>, posts' \subseteq posts
  PROVE  Paged'
<1> DEFINE id      == p.id
           version == p.doc.what
           rows    == view.readings
           new     == [i \in DOMAIN rows |-> IF rows[i].id # id THEN rows[i] ELSE Restarted(rows[i], version)]
           acked   == [Acked EXCEPT ![id] = Later(@, version)]
           floor   == [Floor EXCEPT ![id] = Later(@, version)]
           dropped == past.dropped \/ current # NoRequest
<1>1. /\ ServerPaged /\ PastPaged /\ ServerOK /\ BusyPaged
      /\ ShownOK(rows, view.next, view.cursors, Have, Floor) /\ RowsOK(rows, Have, Floor)
  BY DEF Paged, ServerPaged, ViewPaged, ShownOK
<1>2. id \in Have /\ id \in Ids /\ version \in 1 .. server[id].version /\ version \in Nat \ {0}
  <2>1. id \in Ids /\ id \in Known
    BY DEF PostsFresh, Known
  <2>2. id \in Have
    BY <1>1, <2>1 DEF PastPaged, NoId, Ids
  <2>3. version \in 1 .. server[id].version
    BY <1>1 DEF PastPaged
  <2>4. server[id].version \in Nat
    BY <1>1, <2>1 DEF ServerOK
  <2> QED
    BY <2>1, <2>2, <2>3, <2>4
<1>3. /\ acked \in [Ids -> Nat] /\ acked[id] = Later(Acked[id], version)
      /\ \A i \in Ids : i # id => acked[i] = Acked[i]
      /\ floor \in [Ids -> Nat] /\ floor[id] = Later(Floor[id], version)
      /\ \A i \in Ids : i # id => floor[i] = Floor[i]
      /\ Floor \in [Ids -> Nat]
  BY <1>1, <1>2, PastIs DEF PastPaged, Later
<1>4. Acked' = acked /\ Floor' = floor /\ past' \in PastType /\ (past'.dropped <=> dropped)
  <2> DEFINE reset == [past.reset EXCEPT ![id] = Later(@, version)]
  <2>1. past \in [reset : [Ids -> Nat], submitted : [Ids -> Nat], kept : SUBSET Ids, dropped : BOOLEAN]
    BY <1>1 DEF PastPaged, PastType
  <2>2. past' = [past EXCEPT !.reset = reset, !.dropped = dropped]
    BY <2>1 DEF ListReset
  <2>3. dropped \in BOOLEAN
    BY <2>1
  <2>4. /\ reset \in [Ids -> Nat] /\ reset[id] = Later(past.reset[id], version)
        /\ \A i \in Ids : i # id => reset[i] = past.reset[i]
    BY <1>2, <2>1, LaterIs
  <2> HIDE DEF acked, floor, dropped, reset
  <2>5. /\ past' \in PastType /\ past'.reset = reset /\ past'.submitted = past.submitted
        /\ past'.kept = past.kept /\ past'.dropped = dropped
    BY <2>1, <2>2, <2>3, <2>4 DEF PastType
  <2>6. /\ Acked' = [i \in Ids |-> Later(reset[i], past.submitted[i])]
        /\ Floor' = [i \in Ids |-> IF i \in past.kept THEN reset[i] ELSE Later(reset[i], past.submitted[i])]
    BY <2>5 DEF Acked, Floor
  <2>7. \A i \in Ids : /\ Acked[i] = Later(past.reset[i], past.submitted[i])
                       /\ Floor[i] = IF i \in past.kept THEN past.reset[i] ELSE Acked[i]
                       /\ past.reset[i] \in Nat /\ past.submitted[i] \in Nat
    BY <1>1, PastIs DEF PastPaged
  <2>8. Later(reset[id], past.submitted[id]) = acked[id]
    BY <1>2, <1>3, <2>4, <2>7 DEF Later
  <2>9. \A i \in Ids : Later(reset[i], past.submitted[i]) = acked[i]
    BY <1>3, <2>4, <2>7, <2>8
  <2>10. \A i \in Ids : (IF i \in past.kept THEN reset[i] ELSE acked[i]) = floor[i]
    BY <1>3, <2>4, <2>7
  <2>11. Acked' = acked
    BY <1>3, <2>6, <2>9
  <2>12. Floor' = floor
    BY <1>3, <2>6, <2>9, <2>10
  <2> QED
    BY <2>5, <2>11, <2>12
<1>5. /\ view' = [view EXCEPT !.loading = FALSE, !.loadingMore = FALSE, !.readings = new]
      /\ shared' = {} /\ current' = NoRequest /\ busy' = FALSE
  BY DEF ListReset
<1> HIDE DEF new, acked, floor, dropped
<1>6. view'.readings = new /\ view'.next = view.next /\ view'.cursors = view.cursors
  <2>1. PICK a, b, c, d, e, f :
          view = [readings |-> a, next |-> b, cursors |-> c, loading |-> d, loadingMore |-> e, error |-> f]
    BY DEF ListOwned, IsView
  <2>2. view' = [readings |-> new, next |-> b, cursors |-> c, loading |-> FALSE, loadingMore |-> FALSE, error |-> f]
    BY <1>5, <2>1
  <2> QED
    BY <2>1, <2>2
<1>7. /\ ShownOK(new, view.next, view.cursors, Have, floor) /\ (new = << >> <=> rows = << >>)
      /\ DOMAIN new = DOMAIN rows /\ \A i \in DOMAIN rows : new[i].id = rows[i].id
  <2>1. AckedToo(floor, Floor, id, version)
    BY <1>3 DEF AckedToo
  <2>2. IsReset(new, rows, id, version)
    BY DEF IsReset, new
  <2> HIDE DEF id, version, rows
  <2> QED
    BY <1>1, <1>2, <2>1, <2>2, ShownReset
<1>8. Have' = Have /\ ServerPaged' /\ FormPaged'
  BY <1>1 DEF Have, ServerPaged, ServerOK, Paged, FormPaged
<1>9. Known' \subseteq Known
  <2>1. ShownIds' = ShownIds
    BY <1>6, <1>7 DEF ShownIds
  <2>2. {i \in Ids : acked[i] > 0} \subseteq {i \in Ids : Acked[i] > 0} \cup {id}
    BY <1>3
  <2>3. id \in {q.id : q \in posts}
    OBVIOUS
  <2>4. {q.id : q \in posts'} \subseteq {q.id : q \in posts}
    OBVIOUS
  <2> QED
    BY <1>4, <2>1, <2>2, <2>3, <2>4 DEF Known
<1>10. PastPaged'
  <2>1. \A i \in Ids : acked[i] <= server[i].version
    BY <1>1, <1>2, <1>3, AckedGrows
  <2>2. \A q \in posts' : q.doc.is = "ok" => q.token = "good" /\ q.doc.what \in 1 .. server'[q.id].version
    BY <1>1 DEF PastPaged
  <2>3. Known' \subseteq Have' \cup {NoId}
    BY <1>1, <1>8, <1>9 DEF PastPaged
  <2> QED
    BY <1>4, <2>1, <2>2, <2>3 DEF PastPaged
<1>11. ViewPaged'
  <2>1. ASSUME ~past'.dropped PROVE Covers(new, Known')
    <3>1. Covers(rows, Known)
      BY <1>4, <2>1 DEF dropped, Paged, ViewPaged, Settled
    <3>2. rows # << >> => 1 \in DOMAIN rows
      BY <1>1, RowsAre
    <3> QED
      BY <1>7, <1>9, <3>1, <3>2 DEF Covers
  <2> QED
    BY <1>4, <1>6, <1>7, <1>8, <2>1 DEF ViewPaged
<1>12. BusyPaged' /\ SharedOK(shared, current, token, Have, Acked, Known)'
  BY <1>5 DEF BusyPaged, SharedOK
<1> QED
  BY <1>5, <1>8, <1>10, <1>11, <1>12 DEF Paged

LEMMA ReprocessServePaged ==
  ASSUME Owned, Fresh, Paged, NEW p \in posts, ReprocessServe(p)
  PROVE  Paged'
<1>1. ServerPaged /\ PastPaged /\ ServerOK /\ PostsFresh
  BY DEF Paged, ServerPaged, Fresh
<1>2. p.id \in Ids /\ p.id \in Known /\ IsPost(p)
  BY <1>1 DEF PostsFresh, Known, Owned, PostsOwned
<1>3. p.id \in Have
  BY <1>1, <1>2 DEF PastPaged, NoId, Ids
<1>4. ServerGrows
  BY <1>1, <1>2, ReprocessGrows
<1>5. PICK version \in {server[p.id].version + 1}
                       \cup (IF server[p.id].status = "pending" THEN {server[p.id].version} ELSE {}) :
        \E answer \in Reply(p.token, Answered(version)) :
          /\ posts' = (posts \ {p}) \cup {[p EXCEPT !.doc = answer]}
          /\ \/ server' = [server EXCEPT ![p.id] = [status |-> "pending", version |-> version]]
             \/ answer.is # "ok" /\ UNCHANGED server
  BY DEF ReprocessServe
<1>6. PICK answer \in Reply(p.token, Answered(version)) :
        /\ posts' = (posts \ {p}) \cup {[p EXCEPT !.doc = answer]}
        /\ \/ server' = [server EXCEPT ![p.id] = [status |-> "pending", version |-> version]]
           \/ answer.is # "ok" /\ UNCHANGED server
  BY <1>5
<1>7. version \in Nat \ {0}
  BY <1>1, <1>2, <1>3, <1>5 DEF ServerPaged, ServerOK, Have
<1>8. answer.is = "ok" => answer.what = version /\ p.token = "good"
  BY DEF Reply, Denied, Broken, Answered
<1> DEFINE g == [p EXCEPT !.doc = answer]
<1>9. g.id = p.id /\ g.token = p.token /\ g.doc = answer
  <2>1. PICK a, b, c, d : p = [id |-> a, token |-> b, mine |-> c, doc |-> d]
    BY <1>2 DEF IsPost
  <2>2. ASSUME NEW h, h = [p EXCEPT !.doc = answer] PROVE h.id = p.id /\ h.token = p.token /\ h.doc = answer
    <3>1. h = [id |-> a, token |-> b, mine |-> c, doc |-> answer]
      BY <2>1, <2>2
    <3> QED
      BY <2>1, <3>1
  <2>3. g = [p EXCEPT !.doc = answer]
    OBVIOUS
  <2> HIDE DEF g
  <2> QED
    BY <2>2, <2>3
<1>10. posts' = (posts \ {p}) \cup {g}
  BY <1>6
<1> HIDE DEF g
<1>11. Have' = Have /\ ServerPaged' /\ (answer.is = "ok" => answer.what \in 1 .. server'[p.id].version)
  <2>1. CASE server' = [server EXCEPT ![p.id] = [status |-> "pending", version |-> version]]
    <3>1. /\ server'[p.id] = [status |-> "pending", version |-> version]
          /\ \A i \in Ids : i # p.id => server'[i] = server[i]
      BY <1>1, <1>2, <2>1 DEF ServerOK
    <3>2. server'[p.id] # Absent /\ server'[p.id].status = "pending" /\ server'[p.id].version = version
      BY <3>1 DEF Absent
    <3>3. \A i \in Ids : server'[i] # Absent <=> server[i] # Absent
      BY <1>3, <3>1, <3>2 DEF Have
    <3>4. Have' = Have
      BY <3>3 DEF Have
    <3>5. \A i \in Ids : server'[i] = Absent \/ (server'[i].status # "none" /\ server'[i].version > 0)
      BY <1>1, <1>7, <3>1, <3>2 DEF ServerPaged
    <3> QED
      BY <1>1, <1>4, <1>7, <1>8, <3>2, <3>4, <3>5 DEF ServerPaged, ServerGrows
  <2>2. CASE answer.is # "ok" /\ UNCHANGED server
    <3>1. Have' = Have
      BY <2>2 DEF Have
    <3> QED
      BY <1>1, <2>2, <3>1 DEF ServerPaged, ServerOK
  <2> QED
    BY <1>6, <2>1, <2>2
<1>12. /\ UNCHANGED <<token, view, current, busy, shared, past>>
       /\ selected' \in Known \cup {NoId}
       /\ FormPaged'
  BY <1>1, <1>4, <1>11, FormStays DEF ReprocessServe, Known, Paged
<1>13. \A q \in posts' :
         \/ \E r \in posts : q.id = r.id /\ q.token = r.token /\ q.doc = r.doc
         \/ /\ q.id \in Known \cup {NoId}
            /\ q.doc.is = "ok" => q.token = "good" /\ q.doc.what \in 1 .. server'[q.id].version
  BY <1>2, <1>8, <1>9, <1>10, <1>11
<1> QED
  BY <1>1, <1>4, <1>11, <1>12, <1>13, OthersStay

\* The steps of the detail view that the list has no part in.
LEMMA ViewAside ==
  ASSUME Paged, PostsFresh, UNCHANGED <<server, token, view, current, busy, shared, submit, past>>,
         selected' \in Known \cup {NoId},
         \A p \in posts' :
           \/ \E q \in posts : p.id = q.id /\ p.token = q.token /\ p.doc = q.doc
           \/ p.id \in Known \cup {NoId} /\ p.doc.is # "ok"
  PROVE  Paged'
<1>1. FormPaged'
  BY DEF Paged, FormPaged, Have
<1> QED
  BY <1>1, AsideStays

\* Requests that the view gives up are on their way all the same.
LEMMA AbandonedSame ==
  ASSUME PostsOwned, posts' = Abandoned
  PROVE  \A q \in posts' : \E p \in posts : q.id = p.id /\ q.token = p.token /\ q.doc = p.doc
<1>1. ASSUME NEW p \in posts, NEW q, q = [p EXCEPT !.mine = FALSE]
      PROVE  q.id = p.id /\ q.token = p.token /\ q.doc = p.doc
  <2>1. PICK a, b, c, d : p = [id |-> a, token |-> b, mine |-> c, doc |-> d]
    BY DEF PostsOwned, IsPost
  <2>2. q = [id |-> a, token |-> b, mine |-> FALSE, doc |-> d]
    BY <1>1, <2>1
  <2> QED
    BY <2>1, <2>2
<1> QED
  BY <1>1 DEF Abandoned

LEMMA SaveTokenPaged ==
  ASSUME ListOwned, PostsOwned, Paged, NEW t, SaveToken(t)
  PROVE  Paged'
<1>1. loadReadings(t, NoCursor) /\ token' = t /\ UNCHANGED <<server, submit>>
  BY DEF SaveToken
<1>2. past' \in PastType /\ Acked' = Acked /\ Floor' = Floor
  <2>1. past \in [reset : [Ids -> Nat], submitted : [Ids -> Nat], kept : SUBSET Ids, dropped : BOOLEAN]
    BY DEF Paged, PastPaged, PastType
  <2>2. past' = [past EXCEPT !.dropped = TRUE]
    BY DEF SaveToken
  <2> QED
    BY <2>1, <2>2 DEF PastType, Acked, Floor
<1>3. CASE t # token
  <2>1. posts' = Abandoned /\ selected' = NoId
    BY <1>3 DEF SaveToken, handleBackToList
  <2>2. \A q \in posts' : \E p \in posts : q.id = p.id /\ q.token = p.token /\ q.doc = p.doc
    BY <2>1, AbandonedSame
  <2> QED
    BY <1>1, <1>2, <2>1, <2>2, LoadPaged
<1>4. CASE t = token
  <2>1. UNCHANGED <<posts, selected>>
    BY <1>4 DEF SaveToken, detailVars
  <2> QED
    BY <1>1, <1>2, <2>1, LoadPaged
<1> QED
  BY <1>3, <1>4

LEMMA DetailNextPaged ==
  ASSUME Owned, Fresh, Paged, DetailNext
  PROVE  Paged'
<1>1. ListOwned /\ PostsOwned /\ PostsFresh
  BY DEF Owned, Fresh
<1>2. selected \in Known /\ ShownIds \subseteq Known
  BY DEF Known
<1>3. CASE \/ ServeDetail \/ DeliverDetail \/ DeliverContent \/ PollDetail \/ DeliverRaw
           \/ handleRetryContent \/ handleDownloadRaw
  <2>1. UNCHANGED <<server, token, view, current, busy, shared, submit, past, selected, posts>>
    BY <1>3 DEF ServeDetail, DeliverDetail, DeliverContent, PollDetail, DeliverRaw,
                handleRetryContent, handleDownloadRaw, listVars
  <2> QED
    BY <1>1, <1>2, <2>1, ViewAside
<1>4. ASSUME Back \/ \E id \in Ids : handleSelectReading(id)
      PROVE  Paged'
  <2>1. /\ UNCHANGED <<server, token, view, current, busy, shared, submit, past>>
        /\ posts' = Abandoned /\ selected' \in ShownIds \cup {NoId}
    BY <1>4 DEF Back, handleBackToList, handleSelectReading
  <2>2. \A q \in posts' : \E p \in posts : q.id = p.id /\ q.token = p.token /\ q.doc = p.doc
    BY <1>1, <2>1, AbandonedSame
  <2> QED
    BY <1>1, <1>2, <2>1, <2>2, ViewAside
<1>5. CASE ReprocessClick
  <2> DEFINE new == [id |-> selected, token |-> token, mine |-> TRUE, doc |-> Waiting]
  <2>1. posts' = posts \cup {new} /\ UNCHANGED <<server, token, view, current, busy, shared, submit, past, selected>>
    BY <1>5 DEF ReprocessClick
  <2>2. new.id = selected /\ new.doc.is # "ok"
    BY WaitingIsNoAnswer
  <2> HIDE DEF new
  <2> QED
    BY <1>1, <1>2, <2>1, <2>2, ViewAside
<1>6. ASSUME NEW p \in posts, ReprocessAck(p)
      PROVE  Paged'
  <2>1. p.doc.is = "ok" /\ posts' \subseteq posts /\ UNCHANGED <<server, token, submit, selected>>
    BY <1>6 DEF ReprocessAck
  <2>2. CASE p.token = token
    <3>1. ListReset(p.id, p.doc.what)
      BY <1>6, <2>2 DEF ReprocessAck
    <3> QED
      BY <1>1, <2>1, <3>1, ResetPaged
  <2>3. CASE p.token # token
    <3>1. UNCHANGED <<view, current, busy, shared, past>>
      BY <1>6, <2>3 DEF ReprocessAck
    <3> QED
      BY <1>1, <1>2, <2>1, <3>1, ViewAside
  <2> QED
    BY <2>2, <2>3
<1>7. ASSUME NEW p \in posts, ReprocessFail(p)
      PROVE  Paged'
  <2>1. posts' \subseteq posts /\ UNCHANGED <<server, token, view, current, busy, shared, submit, past, selected>>
    BY <1>7 DEF ReprocessFail, listVars
  <2> QED
    BY <1>1, <1>2, <2>1, ViewAside
<1>8. ASSUME NEW t, SaveToken(t) PROVE Paged'
  BY <1>1, <1>8, SaveTokenPaged
<1>9. ASSUME NEW p \in posts, ReprocessServe(p) PROVE Paged'
  BY <1>9, ReprocessServePaged
<1> QED
  BY <1>3, <1>4, <1>5, <1>6, <1>7, <1>8, <1>9 DEF DetailNext

LEMMA NextPaged == Owned /\ Fresh /\ Paged /\ [Next]_vars => Paged'
<1> SUFFICES ASSUME Owned, Fresh, Paged, [Next]_vars PROVE Paged'
  OBVIOUS
<1>1. CASE UNCHANGED vars
  <2>1. UNCHANGED <<server, token, view, current, busy, shared, submit, past, selected, posts>>
    BY <1>1 DEF vars, listVars, detailVars
  <2>2. PostsFresh /\ selected \in Known
    BY DEF Fresh, Known
  <2> QED
    BY <2>1, <2>2, ViewAside
<1> QED
  BY <1>1, ListNextPaged, DetailNextPaged DEF Next

LEMMA InitPaged == Init => Paged
<1> SUFFICES ASSUME Init PROVE Paged
  OBVIOUS
<1>1. /\ server = [id \in Ids |-> IF id > Ready THEN Absent
                                  ELSE [status |-> IF id \in Failed THEN "failed" ELSE "ready",
                                        version |-> 1]]
      /\ token = "good"
      /\ past = [reset |-> [id \in Ids |-> 0], submitted |-> [id \in Ids |-> 0],
                 kept |-> {}, dropped |-> FALSE]
      /\ busy = TRUE /\ submit = NoSubmit /\ selected = NoId /\ posts = {}
  BY DEF Init, ListInit
<1>2. view.readings = << >> /\ view.next = NoCursor /\ view.cursors = << >>
  <2>1. view = [EmptyView EXCEPT !.loading = TRUE]
    BY DEF Init, ListInit
  <2> QED
    BY <2>1 DEF EmptyView
<1>3. /\ current.kind = "first" /\ current.token = token /\ current.cursor = NoCursor
      /\ current.bypass = FALSE /\ current.own = Waiting
      /\ current.pages = 1 /\ current.rows = << >> /\ current.cursors = << >>
  BY DEF Init, ListInit, Request
<1>4. current # NoRequest
  BY <1>3 DEF NoRequest
<1>5. Have = 1 .. Ready
  <2>1. \A id \in Ids : server[id] # Absent <=> id <= Ready
    BY <1>1, ClientConstants DEF Absent, Ids
  <2> QED
    BY <2>1, ClientConstants DEF Have, Ids
<1>6. ServerPaged
  <2>1. \A id \in Ids : server[id] = Absent \/ (server[id].status # "none" /\ server[id].version > 0)
    BY <1>1
  <2> QED
    BY <1>5, <2>1, InitFresh, ClientConstants DEF ServerPaged, Fresh
<1>7. \A id \in Ids : Acked[id] = 0
  BY <1>1 DEF Acked, Later
<1>8. Known \subseteq {NoId}
  BY <1>1, <1>2, <1>7 DEF Known, ShownIds
<1>9. PastPaged
  <2>1. past \in PastType
    BY <1>1 DEF PastType
  <2>2. \A id \in Ids : Acked[id] <= server[id].version
    BY <1>6, <1>7 DEF ServerPaged, ServerOK
  <2> QED
    BY <1>1, <1>8, <2>1, <2>2 DEF PastPaged
<1>10. FormPaged /\ BusyPaged
  BY <1>1, <1>4 DEF FormPaged, BusyPaged, NoSubmit
<1>11. ViewPaged
  <2>1. << >> \in Seq(Ids) /\ Len(<< >>) < MaxId
    BY ClientConstants
  <2> QED
    BY <1>2, <2>1, NothingShown DEF ViewPaged
<1>12. AnswerOK(Waiting, NoCursor, Have, Acked, Known)
  BY WaitingIsNoAnswer DEF AnswerOK
<1>13. RequestOK(current, view.next, Have, Acked, Known)
  <2>1. current.pages \in 1 .. MaxId
    BY <1>3, ClientConstants
  <2>2. PagesOK(current, Have, Acked, Known)
    BY <1>3, <2>1, NoPages
  <2> QED
    BY <1>3, <1>12, <2>1, <2>2 DEF RequestOK, CursorOK
<1>14. SharedOK(shared, current, token, Have, Acked, Known)
  <2> DEFINE f == [token |-> token, cursor |-> NoCursor, doc |-> Waiting]
  <2>1. shared = {f}
    BY DEF Init, ListInit
  <2>2. f.token = token /\ f.cursor = NoCursor /\ f.doc = Waiting
    OBVIOUS
  <2> HIDE DEF f
  <2> QED
    BY <1>3, <1>4, <1>12, <2>1, <2>2 DEF SharedOK, CursorOK, Awaits, Same
<1> QED
  BY <1>6, <1>9, <1>10, <1>11, <1>13, <1>14 DEF Paged

LEMMA PagedShows == ASSUME Paged PROVE ListIsPages /\ ListReadsYourWrites
<1> DEFINE rows == view.readings
           n == Len(rows)
<1>1. /\ ShownOK(rows, view.next, view.cursors, Have, Floor) /\ RowsOK(rows, Have, Floor)
      /\ BusyPaged /\ PastPaged
  BY DEF Paged, ViewPaged, ShownOK
<1>2. /\ n \in Nat /\ DOMAIN rows = 1 .. n /\ (rows = << >> <=> n = 0)
      /\ \A i \in 1 .. n : rows[i].id \in Nat /\ rows[i].id = rows[1].id + 1 - i
  BY <1>1, RowsAre
<1>3. \A i, j \in DOMAIN rows : i < j => rows[i].id > rows[j].id
  <2> SUFFICES ASSUME NEW i \in DOMAIN rows, NEW j \in DOMAIN rows, i < j PROVE rows[i].id > rows[j].id
    OBVIOUS
  <2>1. i \in 1 .. n /\ j \in 1 .. n /\ 1 \in 1 .. n
    BY <1>2
  <2>2. /\ rows[1].id \in Nat /\ rows[i].id = rows[1].id + 1 - i /\ rows[j].id = rows[1].id + 1 - j
    BY <1>2, <2>1
  <2> HIDE DEF rows, n
  <2> QED
    BY <1>2, <2>1, <2>2
<1>4. rows # << >> => Last(rows) = rows[n] /\ n \in 1 .. n /\ 1 \in 1 .. n
  BY <1>2 DEF Last
<1>5. ListIsPages
  <2>1. view.next # NoCursor => rows # << >> /\ Last(rows).id = view.next
    <3> SUFFICES ASSUME view.next # NoCursor PROVE rows # << >> /\ Last(rows).id = view.next
      OBVIOUS
    <3>1. /\ Len(view.cursors) \in Nat /\ PageSize \in Nat \ {0}
          /\ n = PageSize * (Len(view.cursors) + 1) /\ view.next = rows[n].id
      BY <1>1, ClientConstants DEF ShownOK
    <3>2. n # 0
      BY <3>1
    <3> QED
      BY <1>2, <1>4, <3>1, <3>2
  <2>2. rows # << >> =>
          /\ \A i \in DOMAIN view.cursors : view.cursors[i] = rows[i * PageSize].id
          /\ n <= PageSize * (Len(view.cursors) + 1)
    BY <1>1 DEF ShownOK, Cuts
  <2> QED
    BY <1>3, <2>1, <2>2 DEF ListIsPages
<1>6. ListReadsYourWrites
  <2>0. \A id \in Ids : /\ past.reset[id] \in Nat /\ past.submitted[id] \in Nat /\ Floor[id] \in Nat
                        /\ Acked[id] = Later(past.reset[id], past.submitted[id])
                        /\ Floor[id] = IF id \in past.kept THEN past.reset[id] ELSE Acked[id]
                        /\ past.reset[id] <= Floor[id]
    BY <1>1, PastIs DEF PastPaged
  <2>1. ASSUME NEW i \in DOMAIN rows
        PROVE  /\ rows[i].version >= past.reset[rows[i].id]
               /\ rows[i].version >= past.submitted[rows[i].id] \/ rows[i].id \in past.kept
    <3>1. rows[i].version >= Floor[rows[i].id] /\ rows[i].id \in Ids /\ rows[i].version \in Nat
      <4>1. rows[i] \in RowSet
        BY <1>1, RowsAre
      <4> QED
        BY <1>1, <4>1 DEF RowsOK, RowSet
    <3> DEFINE id == rows[i].id
    <3>2. id \in Ids
      BY <3>1
    <3>4. rows[i].version >= Floor[id] /\ rows[i].version \in Nat
      BY <3>1
    <3> HIDE DEF id, rows
    <3>3. past.submitted[id] <= Acked[id]
      BY <2>0, <3>2 DEF Later
    <3>5. /\ rows[i].version >= past.reset[id]
          /\ rows[i].version >= past.submitted[id] \/ id \in past.kept
      BY <2>0, <3>2, <3>3, <3>4
    <3> QED
      BY <3>5 DEF id
  <2>2. ASSUME ~busy, ~past.dropped, rows # << >>, NEW id \in Ids, Acked[id] > 0,
               ~(id < Last(rows).id)
        PROVE  id \in ShownIds
    <3>1. id <= rows[1].id
      BY <1>1, <2>2 DEF BusyPaged, Paged, ViewPaged, Settled, Covers, Known
    <3> DEFINE i == rows[1].id + 1 - id
    <3>2. rows[1].id \in Nat /\ id \in Nat /\ Last(rows).id = rows[1].id + 1 - n
      <4>1. id \in Nat
        BY ClientConstants DEF Ids
      <4>2. 1 \in 1 .. n /\ n \in 1 .. n /\ Last(rows) = rows[n]
        BY <1>4, <2>2
      <4> HIDE DEF rows, n
      <4> QED
        BY <1>2, <4>1, <4>2
    <3>3. i \in 1 .. n
      <4> HIDE DEF rows, n
      <4> QED
        BY <1>2, <2>2, <3>1, <3>2
    <3>4. rows[i].id = id
      <4>1. rows[i].id = rows[1].id + 1 - i
        BY <1>2, <3>3
      <4> HIDE DEF rows
      <4> QED
        BY <3>2, <4>1
    <3> QED
      BY <1>2, <3>3, <3>4 DEF ShownIds
  <2>3. \A id \in Ids : past.reset[id] > 0 \/ past.submitted[id] > 0 => Acked[id] > 0
    BY <2>0 DEF Later
  <2> QED
    BY <2>1, <2>2, <2>3 DEF ListReadsYourWrites
<1> QED
  BY <1>5, <1>6

\* The list of readings is always pages, from the first one on: newest first,
\* no reading twice, none left out between two, and every page begins where its
\* cursor says, whatever is added, refreshed or appended, and in whatever order
\* answers come (App.tsx refreshVisibleReadings, appendUniqueReadings,
\* mergeReadingsDocuments).
THEOREM ListCorrect == Spec => []ListIsPages
<1>1. Spec => [](Owned /\ Fresh /\ Paged)
  BY InitOwned, NextOwns, InitFresh, NextFresh, InitPaged, NextPaged, PTL DEF Spec
<1>2. Owned /\ Fresh /\ Paged => ListIsPages
  BY PagedShows
<1> QED
  BY <1>1, <1>2, PTL

\* After a submit or a reprocess was acknowledged, no answer to a question from
\* before it comes to be shown: no row is older than the last acknowledged reset
\* of its reading, and only a row that was on the screen when a submit of its
\* reading was acknowledged, with no first load or refresh succeeding since, is
\* older than that submit; nothing in the detail view is older than a reprocess
\* it saw acknowledged; and the reading of a submit is in the list unless its
\* place is further down or the load was given up or failed (App.tsx
\* handleSubmitURL, handleReprocess, listReadingsOnce).
THEOREM WritesRead == Spec => []ReadYourWrites
<1>1. Spec => [](Owned /\ Fresh /\ Paged)
  BY InitOwned, NextOwns, InitFresh, NextFresh, InitPaged, NextPaged, PTL DEF Spec
<1>2. Owned /\ Fresh /\ Paged => ReadYourWrites
  BY PagedShows, FreshShows DEF ReadYourWrites
<1> QED
  BY <1>1, <1>2, PTL

-----------------------------------------------------------------------------
(* The types *)

Statuses == {"pending", "ready", "failed"}

DetailTyped ==
  /\ detail # NoDetail => detail.status \in Statuses
  /\ content.state \in {"idle", "loading", "ready", "missing", "error"}
  /\ ask.kind \in {"none", "detail", "content"}
  /\ ask.kind = "detail" /\ ask.doc.is = "ok" => ask.doc.what.status \in Statuses
  /\ loading \in BOOLEAN /\ fetching \in BOOLEAN

LEMMA ServeTyped ==
  ASSUME Owned, Fresh, Paged, DetailTyped, ServeDetail
  PROVE  DetailTyped'
<1>1. PICK would \in IF ask.kind = "detail" THEN {Answered(d) : d \in Details(ask.id)}
                     ELSE {Content(ask.id)} :
        \E answer \in Reply(ask.token, would) : ask' = [ask EXCEPT !.doc = answer]
  BY DEF ServeDetail
<1>2. PICK answer \in Reply(ask.token, would) : ask' = [ask EXCEPT !.doc = answer]
  BY <1>1
<1>3. ask'.kind = ask.kind /\ ask'.doc = answer
  <2>1. PICK kind, id, t, doc : ask = [kind |-> kind, id |-> id, token |-> t, doc |-> doc]
    BY DEF Owned, AskOwned, IsAsk, ServeDetail
  <2>2. ask' = [kind |-> kind, id |-> id, token |-> t, doc |-> answer]
    BY <1>2, <2>1
  <2> QED
    BY <2>1, <2>2
<1>4. ask.id \in Ids /\ server[ask.id].status \in {"pending", "ready", "failed"}
  <2>1. ask.id = selected /\ selected \in Ids /\ selected \in Known
    BY DEF ServeDetail, Owned, AskOwned, Fresh, OwnOK, Known
  <2>2. selected \in Have
    BY <2>1 DEF Paged, PastPaged, NoId, Ids
  <2>3. server[selected].status # "none" /\ server[selected].status \in {"none", "pending", "ready", "failed"}
    BY <2>1, <2>2 DEF Paged, ServerPaged, ServerOK, Have
  <2> QED
    BY <2>1, <2>3
<1>5. ask.kind = "detail" /\ answer.is = "ok" => answer.what.status \in Statuses
  <2> SUFFICES ASSUME ask.kind = "detail", answer.is = "ok" PROVE answer.what.status \in Statuses
    OBVIOUS
  <2>1. PICK d \in Details(ask.id) : would = Answered(d)
    BY <1>1
  <2>2. answer = would
    BY DEF Reply, Denied, Broken
  <2>3. d.status \in Statuses
    BY <1>4 DEF Details, Statuses
  <2> QED
    BY <2>1, <2>2, <2>3 DEF Answered
<1>6. UNCHANGED <<detail, content, loading, fetching>>
  BY DEF ServeDetail
<1> QED
  BY <1>3, <1>5, <1>6 DEF DetailTyped

LEMMA DetailStepTyped ==
  ASSUME Owned, Fresh, Paged, DetailTyped, DetailNext
  PROVE  DetailTyped'
<1>1. Waiting.is # "ok"
  BY WaitingIsNoAnswer
<1>2. NoAsk.kind = "none"
  BY DEF NoAsk
<1>3. CASE DeliverDetail
  <2>1. CASE ask.doc.is # "ok"
    BY <1>2, <1>3, <2>1 DEF DeliverDetail, DetailTyped
  <2>2. CASE ask.doc.is = "ok"
    <3>1. detail'.status \in Statuses /\ loading' = FALSE /\ fetching' = FALSE
      BY <1>3, <2>2 DEF DeliverDetail, DetailTyped
    <3>2. CASE fetchContent(ask.id)
      BY <1>1, <3>1, <3>2 DEF fetchContent, DetailTyped
    <3>3. CASE ask' = NoAsk /\ content' = IdleContent
      BY <1>2, <3>1, <3>3 DEF IdleContent, DetailTyped
    <3> QED
      BY <1>3, <2>2, <3>2, <3>3 DEF DeliverDetail
  <2> QED
    BY <2>1, <2>2
<1>4. CASE DeliverContent
  BY <1>2, <1>4 DEF DeliverContent, DetailTyped
<1>5. CASE PollDetail
  BY <1>1, <1>5 DEF PollDetail, fetchDetail, DetailTyped
<1>6. CASE handleRetryContent
  BY <1>1, <1>6 DEF handleRetryContent, fetchContent, DetailTyped
<1>7. CASE DeliverRaw \/ handleDownloadRaw \/ ReprocessClick
  BY <1>7 DEF DeliverRaw, handleDownloadRaw, ReprocessClick, DetailTyped
<1>8. ASSUME handleBackToList PROVE DetailTyped'
  BY <1>2, <1>8 DEF handleBackToList, IdleContent, DetailTyped
<1>9. ASSUME NEW id, handleSelectReading(id) PROVE DetailTyped'
  BY <1>1, <1>9 DEF handleSelectReading, fetchDetail, IdleContent, DetailTyped
<1>10. ASSUME NEW t, SaveToken(t) PROVE DetailTyped'
  BY <1>8, <1>10 DEF SaveToken, detailVars, DetailTyped
<1>11. ASSUME NEW p, ReprocessServe(p) \/ ReprocessFail(p) PROVE DetailTyped'
  BY <1>11 DEF ReprocessServe, ReprocessFail, DetailTyped
<1>12. ASSUME NEW p \in posts, ReprocessAck(p) PROVE DetailTyped'
  <2>1. CASE p.token = token /\ p.mine
    <3>1. /\ detail' = [detail EXCEPT !.status = "pending", !.version = p.doc.what]
          /\ content' = IdleContent /\ ask' = NoAsk /\ fetching' = FALSE /\ loading' = loading
      BY <1>12, <2>1 DEF ReprocessAck, ResetDetail
    <3>2. detail'.status = "pending"
      <4>1. detail # NoDetail /\ (detail = NoDetail \/ IsDetail(detail))
        BY <2>1 DEF Owned, PostsOwned, DetailOwned
      <4>2. PICK id, status, version : detail = [id |-> id, status |-> status, version |-> version]
        BY <4>1 DEF IsDetail
      <4>3. detail' = [id |-> id, status |-> "pending", version |-> p.doc.what]
        BY <3>1, <4>2
      <4> QED
        BY <4>3
    <3> QED
      BY <1>2, <3>1, <3>2 DEF IdleContent, Statuses, DetailTyped
  <2>2. CASE ~(p.token = token /\ p.mine)
    BY <1>12, <2>2 DEF ReprocessAck, DetailTyped
  <2> QED
    BY <2>1, <2>2
<1> QED
  BY ServeTyped, <1>3, <1>4, <1>5, <1>6, <1>7, <1>8, <1>9, <1>10, <1>11, <1>12 DEF DetailNext, Back

LEMMA NextTyped == Owned /\ Fresh /\ Paged /\ DetailTyped /\ [Next]_vars => DetailTyped'
<1> SUFFICES ASSUME Owned, Fresh, Paged, DetailTyped, [Next]_vars PROVE DetailTyped'
  OBVIOUS
<1>1. CASE UNCHANGED detailVars
  BY <1>1 DEF detailVars, DetailTyped
<1> QED
  BY <1>1, DetailStepTyped DEF Next, ListNext, vars

LEMMA InitTyped == Init => DetailTyped
<1> SUFFICES ASSUME Init PROVE DetailTyped
  OBVIOUS
<1>1. /\ detail = NoDetail /\ content.state = "idle" /\ ask.kind = "none"
      /\ loading = FALSE /\ fetching = FALSE
  BY DEF Init, NoAsk, IdleContent
<1> QED
  BY <1>1 DEF DetailTyped

LEMMA TypedShows == Owned /\ Fresh /\ Paged /\ DetailTyped => TypeOK
<1> SUFFICES ASSUME Fresh, Paged, DetailTyped PROVE TypeOK
  OBVIOUS
<1>1. ShownIds \subseteq Ids
  BY DEF Paged, ViewPaged, ShownOK, RowsOK, ShownIds, Have
<1>2. current # NoRequest => current.kind \in {"first", "more", "refresh"} /\ current.pages \in 1 .. MaxId
  BY DEF Paged, RequestOK
<1> QED
  BY <1>1, <1>2 DEF TypeOK, Paged, BusyPaged, Fresh, OwnOK, DetailTyped, Statuses

\* What the client keeps is always well formed: the statuses and states are
\* those its code has branches for, and no refresh asks for more pages than
\* there can be (App.tsx, the state of the component).
THEOREM ClientTypes == Spec => []TypeOK
<1>1. Spec => [](Owned /\ Fresh /\ Paged /\ DetailTyped)
  BY InitOwned, NextOwns, InitFresh, NextFresh, InitPaged, NextPaged, InitTyped, NextTyped, PTL DEF Spec
<1> QED
  BY <1>1, TypedShows, PTL
================================================================================
