------------------------------- MODULE Inertia ------------------------------
(***************************************************************************)
(* fanest.inertia: the visits of one browser to an Inertia application.    *)
(* A request passes MethodOverrideMiddleware, InertiaCsrfMiddleware,       *)
(* InertiaMiddleware and the session middleware, which may be inside or    *)
(* outside the others; its handler renders a page, redirects, flashes      *)
(* errors, returns nothing or raises; the browser follows the answer.      *)
(* The session is the default one, kept whole in a signed cookie.          *)
(*                                                                         *)
(* The application has one page.  The browser makes one request at a time: *)
(* what concurrent requests do to a session is the subject of Stores.      *)
(***************************************************************************)
EXTENDS Naturals, FiniteSets

CONSTANTS
  PropKinds,  \* the props of the page, each with its wrapper
  Handlers,   \* what a submission's handler may do
  SessionInside, \* BOOLEANs: where the session middleware may be
  MaxVisits, MaxBuilds

Props == DOMAIN PropKinds
Kinds == {"plain", "lazy", "always", "defer", "merge", "once"}
Verbs == {"POST", "PUT"}

ASSUME InertiaAssumption ==
  /\ \A p \in Props : PropKinds[p] \in Kinds
  /\ SessionInside \subseteq BOOLEAN /\ MaxVisits \in Nat /\ MaxBuilds \in Nat

VARIABLES
  build,    \* the asset version the server has
  inside,   \* whether the session middleware is inside InertiaMiddleware
  session,  \* the browser's session cookie: the flash it holds, 0 when none
  xsrf,     \* whether the browser has the XSRF-TOKEN cookie
  client,   \* the page the browser shows: its version, the props it has,
            \* those the server deferred, and the once-props it caches
  request,  \* its request on the way, Nobody when none
  answer,   \* the answer on the way back, Silence when none
  visits,   \* visits made
  flashed,  \* flashes made
  owed,     \* history: the flash the next page must show, 0 when none
  shown,    \* history: the flash the last page showed
  handled,  \* history: how often the handler of the last own submission ran
  reloads   \* history: full reloads the server forced

inertiaVars == <<build, inside, session, xsrf, client, request, answer, visits, flashed,
                 owed, shown, handled, reloads>>

NoPage == [version |-> 0, have |-> {}, deferred |-> {}, once |-> {}]
Nobody == [method |-> "none", spoofed |-> FALSE]
Silence == [status |-> 0, page |-> NoPage, method |-> "none"]

-----------------------------------------------------------------------------
(* Requests, as the Inertia client makes them (external) *)

FullLoad == [method |-> "GET", spoofed |-> FALSE, inertia |-> FALSE, version |-> 0,
             only |-> {}, except |-> {}, once |-> {}, xsrf |-> xsrf, does |-> "render"]

Visiting == [FullLoad EXCEPT !.inertia = TRUE, !.version = client.version, !.once = client.once]

\* The verb the application sees: a POST whose _method field says PUT.
MethodOf(r) == IF r.spoofed THEN "PUT" ELSE r.method

-----------------------------------------------------------------------------
(* Props *)

\* _resolve_props: an empty X-Inertia-Partial-Data header asks for every prop.
Asked(r, p) == r.only = {} \/ p \in r.only

IsPartial(r) == r.inertia /\ (r.only # {} \/ r.except # {})

Sent(r) ==
  {p \in Props :
     \/ PropKinds[p] = "always"
     \/ /\ ~(PropKinds[p] = "once" /\ p \in r.once)
        /\ IF IsPartial(r) THEN Asked(r, p) /\ p \notin r.except
           ELSE PropKinds[p] \notin {"lazy", "defer"}}

\* What the page says it left out.
Deferred(r) == IF IsPartial(r) THEN {} ELSE {p \in Props : PropKinds[p] = "defer"}

\* _render_response: the page object, as JSON or inside a document.
Page(r) == [version |-> build, have |-> Sent(r), deferred |-> Deferred(r),
            once |-> {p \in Sent(r) : PropKinds[p] = "once"}, partial |-> IsPartial(r)]

\* InertiaExceptionFilter renders the error component: none of the page's props.
ErrorPage == [version |-> build, have |-> {}, deferred |-> {}, once |-> {}, partial |-> FALSE]

-----------------------------------------------------------------------------
InertiaInit ==
  /\ build = 1 /\ inside \in SessionInside
  /\ session = 0 /\ xsrf = FALSE
  /\ client = NoPage /\ request = Nobody /\ answer = Silence
  /\ visits = 0 /\ flashed = 0 /\ owed = 0 /\ shown = 0 /\ handled = 1 /\ reloads = 0

Waiting == request = Nobody /\ answer = Silence

\* The browser loads the page, visits it again, fetches what was deferred or
\* reloads some of it (not of an error
\* page, another component), or submits a form, a file upload among them.
Go ==
  /\ Waiting /\ visits < MaxVisits
  /\ visits' = visits + 1
  /\ \/ request' = FullLoad /\ UNCHANGED handled
     \* Another site's form knows no token.
     \/ request' = [FullLoad EXCEPT !.method = "POST", !.xsrf = FALSE] /\ UNCHANGED handled
     \/ /\ client.version # 0
        /\ \/ request' = Visiting /\ UNCHANGED handled
           \/ client.have # {} /\ \E only \in {Props, {p \in Props : PropKinds[p] \in {"lazy", "plain"}}} :
                request' = [Visiting EXCEPT !.only = only] /\ UNCHANGED handled
           \/ client.have # {} /\ \E p \in Props :
                request' = [Visiting EXCEPT !.except = {p}] /\ UNCHANGED handled
           \/ \E verb \in Verbs, spoofed \in BOOLEAN, does \in Handlers :
                /\ spoofed => verb = "POST"
                /\ request' = [Visiting EXCEPT !.method = verb, !.spoofed = spoofed, !.does = does]
                /\ handled' = 0
  /\ UNCHANGED <<build, inside, session, xsrf, client, answer, flashed, owed, shown, reloads>>

\* The client fetches the deferred props of the page it mounted.
FetchDeferred ==
  /\ Waiting /\ client.deferred # {}
  /\ request' = [Visiting EXCEPT !.only = client.deferred]
  /\ UNCHANGED <<build, inside, session, xsrf, client, answer, visits, flashed, owed, shown,
                 handled, reloads>>

Deploy ==
  /\ build < MaxBuilds
  /\ build' = build + 1
  /\ UNCHANGED <<inside, session, xsrf, client, request, answer, visits, flashed, owed, shown,
                 handled, reloads>>

-----------------------------------------------------------------------------
(* InertiaMiddleware and what is inside it *)

Reply(status, page) ==
  [status |-> status, page |-> page, method |-> MethodOf(request)]

\* The answer reaches the browser with the session cookie, unless a redirect
\* of InertiaMiddleware replaced the response that carried it.
Respond(reply, flash, cookie) ==
  /\ answer' = reply
  /\ session' = IF cookie THEN flash ELSE session
  /\ xsrf' = TRUE
  /\ request' = Nobody

\* InertiaCsrfMiddleware: a submission without the token of the cookie is
\* refused, and the refusal carries no cookie.
Refuse ==
  /\ request # Nobody /\ MethodOf(request) \in Verbs /\ ~request.xsrf
  /\ answer' = Reply(419, NoPage)
  /\ request' = Nobody
  /\ UNCHANGED <<build, inside, session, xsrf, client, visits, flashed, owed, shown, handled, reloads>>

Passes == request # Nobody /\ (MethodOf(request) \in Verbs => request.xsrf)

\* A page of another build visits with GET.
Stale(r) == r.inertia /\ MethodOf(r) = "GET" /\ r.version # build

\* The flash a forced reload leaves in the session: one that the middleware
\* consumed on the way in is put back.  Variant: it is not.
Forgotten == IF inside THEN session ELSE 0
Reflashed == session

\* The stale visit is answered 409, and the browser has to load the page anew.
ForceReload ==
  /\ Passes /\ Stale(request)
  /\ Respond(Reply(409, NoPage), Reflashed, TRUE)
  /\ reloads' = reloads + 1
  /\ UNCHANGED <<build, inside, client, visits, flashed, owed, shown, handled>>

Runs == Passes /\ ~Stale(request)
Ran == IF MethodOf(request) \in Verbs THEN handled + 1 ELSE handled

\* The handler renders the page, or raises and the filter renders the error
\* page; rendering consumes the flash, if the middleware did not, and shares
\* its errors.  A server that renders on the server side and fails to is
\* replaced by the client, or raises.
Render ==
  /\ Runs /\ request.does \in {"render", "raise"}
  /\ \E page \in IF request.does = "render" /\ request.inertia THEN {Page(request)}
                 ELSE IF request.does = "raise" THEN {ErrorPage}
                 ELSE {Page(request), ErrorPage} :
       Respond(Reply(IF page = ErrorPage THEN 500 ELSE 200, page), 0, TRUE)
  /\ shown' = session /\ owed' = 0
  /\ handled' = Ran
  /\ UNCHANGED <<build, inside, client, visits, flashed, reloads>>

\* back() chooses 303 after PUT; redirect() answers 302, which the middleware
\* turns into 303 after PUT.
Converted(r) == IF r.inertia /\ MethodOf(r) = "PUT" THEN 303 ELSE 302

\* with_errors: the incoming flash is consumed, the new one stashed, and the
\* browser sent back.
WithErrors ==
  /\ Runs /\ request.does = "errors"
  /\ Respond(Reply(IF MethodOf(request) = "PUT" THEN 303 ELSE 302, NoPage), flashed + 1, TRUE)
  /\ flashed' = flashed + 1 /\ owed' = flashed + 1
  /\ handled' = Ran
  /\ UNCHANGED <<build, inside, client, visits, shown, reloads>>

\* redirect(): the incoming flash is consumed only by a middleware that saw
\* the session.
Redirect ==
  /\ Runs /\ request.does = "redirect"
  /\ Respond(Reply(Converted(request), NoPage), IF inside THEN session ELSE 0, TRUE)
  /\ handled' = Ran
  /\ UNCHANGED <<build, inside, client, visits, flashed, owed, shown, reloads>>

\* The handler returns nothing, after flash() or not: the empty response is
\* replaced by a redirect back, and with it the cookie of a session inside.
ReturnNothing ==
  /\ Runs /\ request.does \in {"nothing", "flash"}
  /\ LET flash == IF request.does = "flash" THEN flashed + 1
                  ELSE IF inside THEN session ELSE 0
     IN /\ Respond(Reply(IF MethodOf(request) = "PUT" THEN 303 ELSE 302, NoPage), flash, ~inside)
        /\ flashed' = IF request.does = "flash" THEN flashed + 1 ELSE flashed
        /\ owed' = IF request.does = "flash" THEN flashed + 1 ELSE owed
  /\ handled' = Ran
  /\ UNCHANGED <<build, inside, client, visits, shown, reloads>>

-----------------------------------------------------------------------------
(* The browser (external) *)

\* A redirect is followed with GET, except a 302 after another verb than POST.
Follow ==
  /\ answer # Silence /\ answer.status \in {302, 303}
  /\ request' = IF answer.status = 303 \/ answer.method = "POST" THEN Visiting
                ELSE [Visiting EXCEPT !.method = answer.method, !.does = "redirect"]
  /\ answer' = Silence
  /\ UNCHANGED <<build, inside, session, xsrf, client, visits, flashed, owed, shown, handled, reloads>>

\* 409: the browser leaves the page, and what it cached, and loads it.
Reload ==
  /\ answer # Silence /\ answer.status = 409
  /\ request' = FullLoad /\ client' = NoPage /\ answer' = Silence
  /\ UNCHANGED <<build, inside, session, xsrf, visits, flashed, owed, shown, handled, reloads>>

\* A partial reload merges into the page, any other page replaces it and keeps
\* the once-props the client has cached.
Show ==
  /\ answer # Silence /\ answer.status \in {200, 419, 500}
  /\ answer' = Silence
  /\ client' =
       IF answer.page = NoPage THEN client
       ELSE IF answer.page.partial
       THEN [client EXCEPT !.have = @ \cup answer.page.have,
                           !.deferred = @ \ answer.page.have,
                           !.once = @ \cup answer.page.once]
       ELSE [version |-> answer.page.version,
             have |-> answer.page.have \cup (IF answer.status = 200 THEN client.once ELSE {}),
             deferred |-> answer.page.deferred,
             once |-> client.once \cup answer.page.once]
  /\ UNCHANGED <<build, inside, session, xsrf, request, visits, flashed, owed, shown, handled, reloads>>

Serve == Refuse \/ ForceReload \/ Render \/ WithErrors \/ Redirect \/ ReturnNothing
Browse == Follow \/ Reload \/ Show

InertiaNext == Go \/ FetchDeferred \/ Deploy \/ Serve \/ Browse

-----------------------------------------------------------------------------
(* Properties *)

\* What a handler flashed is shown by the first page rendered for the browser
\* afterwards and by no later one, wherever the session middleware is
\* (context.py:34) and even when that visit is answered by a forced reload
\* (middleware.py:56).  In this application every GET handler renders: with the
\* session middleware outside, one that redirects, or raises a status outside
\* error_statuses, loses the flash.
FlashShown == [][Render => shown' = owed]_inertiaVars

\* A submission's handler runs exactly once: no stale page's submission is
\* lost to a reload, refused for want of a token, or repeated by a redirect
\* (middleware.py:80), and no other site's runs it at all; and a forced reload
\* leaves the browser on the current build, so that each deployment costs at
\* most one.
SubmittedOnce == (Waiting => handled = 1) /\ reloads <= build - 1

\* Once it has fetched what was deferred, the browser's page has every prop
\* but the lazy ones, whatever partial reloads and once-props it skipped.
PropsComplete ==
  Waiting /\ client.version # 0 /\ client.deferred = {} /\ client.have # {} =>
    {p \in Props : PropKinds[p] # "lazy"} \subseteq client.have

\* What a visitor may rely on: one submission, whole pages, and each flashed
\* message once, with the page that answers.
VisitsKept == [](SubmittedOnce /\ PropsComplete) /\ FlashShown
=============================================================================
