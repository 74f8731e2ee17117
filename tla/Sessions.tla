------------------------------ MODULE Sessions ------------------------------
(***************************************************************************)
(* The sessions table, the two cookies and the forms of one browser with   *)
(* several tabs.  The session cookie outlives the browser, the CSRF cookie *)
(* does not; a page of the catalog or a login page carries the token of    *)
(* the CSRF cookie in its forms, a page behind RequireUser carries the one *)
(* kept with the session.  A request carries the cookies of the moment it  *)
(* is sent, the session middleware looks its session up, the handler runs, *)
(* and the answer's cookies and page take effect when they arrive.         *)
(*                                                                         *)
(* Tokens are numbered as they are made.  A session has an id and a token, *)
(* made together by startSession, and the token stands for both.           *)
(***************************************************************************)
EXTENDS Integers

CONSTANTS
    Tabs,
    Users,
    MaxTokens,  \* bound: tokens made
    None,       \* no user, no token, no cookie
    Keep        \* an answer that leaves a cookie alone

ASSUME SessionsAssumption ==
    /\ MaxTokens \in Nat
    /\ None \notin Users \cup Nat
    /\ Keep \notin Users \cup Nat \cup {None}

Tokens == 1..MaxTokens

VARIABLES
    issued,     \* how many tokens have been made
    rows,       \* sessions that Find returns: there, and not expired
    user,       \* sessions.user_id, None for the token of no session
    sid, csrf,  \* the cookies of the browser
    page,       \* per tab: where its page came from, the token of its forms,
                \* the user it was rendered for
    pc, sent,   \* per tab: how far its request is, and what it carries
    acting,     \* the session LoadSessionMiddleware put in its context
    answer,     \* cookies and page of the answer
    misled,     \* history: has a form of one user's page been accepted for another?
    restarted,  \* history: has the browser been closed?
    crossed     \* history: has an answer set cookies that had changed since
                \* its request was sent?

server  == <<issued, rows, user>>
browser == <<sid, csrf, page>>
traffic == <<pc, sent, acting, answer>>
history == <<misled, restarted, crossed>>
vars    == <<server, browser, traffic, history>>

Blank == [from |-> "nowhere", token |-> None, user |-> None]

NoRequest == [ask |-> "nothing", sid |-> None, csrf |-> None, form |-> Blank]

NoAnswer == [sid |-> Keep, csrf |-> Keep, page |-> Blank]

Init ==
    /\ issued = 0
    /\ rows = {}
    /\ user = [n \in Tokens |-> None]
    /\ sid = None
    /\ csrf = None
    /\ page = [t \in Tabs |-> Blank]
    /\ pc = [t \in Tabs |-> "idle"]
    /\ sent = [t \in Tabs |-> NoRequest]
    /\ acting = [t \in Tabs |-> None]
    /\ answer = [t \in Tabs |-> NoAnswer]
    /\ misled = FALSE
    /\ restarted = FALSE
    /\ crossed = FALSE

-----------------------------------------------------------------------------
(* The browser sends. *)

\* browse: product pages, login and register pages.  view: cart, orders.
\* post: the cart's forms and the order's.
Asks == {"browse", "view", "post", "login", "logout"}

\* The forms on a page: who is not logged in is not offered the logout, and
\* only the login and register pages offer a login.
Offered(p) ==
    CASE p.from = "browse" -> {"post", "login"} \cup (IF p.user # None THEN {"logout"} ELSE {})
      [] p.from = "view" -> {"post", "logout"}
      [] OTHER -> {}

Send(t, ask) ==
    /\ pc[t] = "idle"
    /\ ask \in {"browse", "view"} \cup Offered(page[t])
    /\ sent' = [sent EXCEPT ![t] = [ask |-> ask, sid |-> sid, csrf |-> csrf, form |-> page[t]]]
    /\ pc' = [pc EXCEPT ![t] = "sent"]
    /\ UNCHANGED <<server, browser, acting, answer, history>>

-----------------------------------------------------------------------------
(* The server. *)

\* LoadSessionMiddleware: Find, which takes an expired row for none.  When the
\* database fails, the request goes on as that of nobody.
Load(t) ==
    /\ pc[t] = "sent"
    /\ acting' = [acting EXCEPT ![t] = IF sent[t].sid \in rows THEN sent[t].sid ELSE None]
    /\ pc' = [pc EXCEPT ![t] = "loaded"]
    /\ UNCHANGED <<server, browser, sent, answer, history>>

LoadFails(t) ==
    /\ pc[t] = "sent" /\ sent[t].sid # None
    /\ acting' = [acting EXCEPT ![t] = None]
    /\ pc' = [pc EXCEPT ![t] = "loaded"]
    /\ UNCHANGED <<server, browser, sent, answer, history>>

Asked(t, ask) == pc[t] = "loaded" /\ sent[t].ask = ask

ActingUser(t) == IF acting[t] = None THEN None ELSE user[acting[t]]

\* VerifyCSRF: the cookie is there and the form carries the same.
Verified(t) == sent[t].csrf # None /\ sent[t].csrf = sent[t].form.token

Respond(t, s, c, p) ==
    /\ answer' = [answer EXCEPT ![t] = [sid |-> s, csrf |-> c, page |-> p]]
    /\ pc' = [pc EXCEPT ![t] = "answered"]
    /\ UNCHANGED <<browser, sent, acting, restarted, crossed>>

BrowsePage(t, n) == [from |-> "browse", token |-> n, user |-> ActingUser(t)]

\* A new token.
Make == issued < MaxTokens /\ issued' = issued + 1

\* ensureCSRFToken: the cookie's token, or a new one in a new cookie.
Browse(t) ==
    /\ Asked(t, "browse")
    /\ \/ /\ sent[t].csrf # None
          /\ Respond(t, Keep, Keep, BrowsePage(t, sent[t].csrf))
          /\ UNCHANGED issued
       \/ /\ sent[t].csrf = None
          /\ Make
          /\ Respond(t, Keep, issued + 1, BrowsePage(t, issued + 1))
    /\ UNCHANGED <<rows, user, misled>>

\* RequireUser: to the login page.
ToLogin(t) ==
    /\ Asked(t, "view") \/ Asked(t, "post")
    /\ acting[t] = None
    /\ Respond(t, Keep, Keep, Blank)
    /\ UNCHANGED <<server, misled>>

\* NewPageData: the token of the session, whatever the CSRF cookie.
View(t) ==
    /\ Asked(t, "view")
    /\ acting[t] # None
    /\ Respond(t, Keep, Keep, [from |-> "view", token |-> acting[t], user |-> ActingUser(t)])
    /\ UNCHANGED <<server, misled>>

\* CSRFProtect: 403.
Forbid(t) ==
    /\ Asked(t, "login") \/ Asked(t, "logout") \/ (Asked(t, "post") /\ acting[t] # None)
    /\ ~Verified(t)
    /\ Respond(t, Keep, Keep, Blank)
    /\ UNCHANGED <<server, misled>>

\* Mistake: no return after the page that tells of the failure.
LoginFailsFallsThrough(t) ==
    /\ Asked(t, "login") /\ Verified(t)
    /\ Make
    /\ rows' = rows \cup {issued + 1}
    /\ Respond(t, issued + 1, issued + 1, BrowsePage(t, sent[t].csrf))
    /\ UNCHANGED <<user, misled>>

\* Wrong password or address taken: the form once more.  Not an administrator:
\* 401.
LoginFails(t) ==
    /\ Asked(t, "login") /\ Verified(t)
    /\ \E p \in {Blank, BrowsePage(t, sent[t].csrf)} : Respond(t, Keep, Keep, p)
    /\ UNCHANGED <<server, misled>>

\* Mistake: the CSRF cookie stays as it is.
LoginKeepsCookie(t, u) ==
    /\ Asked(t, "login") /\ Verified(t)
    /\ Make
    /\ rows' = rows \cup {issued + 1}
    /\ user' = [user EXCEPT ![issued + 1] = u]
    /\ Respond(t, issued + 1, Keep, Blank)
    /\ UNCHANGED misled

\* Mistake: IssueCSRFCookie instead of WriteCSRFCookie, a token of its own.
LoginIssuesCookie(t, u) ==
    /\ Asked(t, "login") /\ Verified(t)
    /\ issued + 1 < MaxTokens /\ issued' = issued + 2
    /\ rows' = rows \cup {issued + 1}
    /\ user' = [user EXCEPT ![issued + 1] = u]
    /\ Respond(t, issued + 1, issued + 2, Blank)
    /\ UNCHANGED misled

\* startSession: a new session next to any the browser has, and both cookies.
Login(t, u) ==
    /\ Asked(t, "login") /\ Verified(t)
    /\ Make
    /\ rows' = rows \cup {issued + 1}
    /\ user' = [user EXCEPT ![issued + 1] = u]
    /\ Respond(t, issued + 1, issued + 1, Blank)
    /\ UNCHANGED misled

\* Logout deletes the row of the session it acts under, if it has one, and
\* takes the session cookie away, but not the CSRF cookie.
Logout(t) ==
    /\ Asked(t, "logout") /\ Verified(t)
    /\ rows' = rows \ {acting[t]}
    /\ Respond(t, None, Keep, Blank)
    /\ UNCHANGED <<issued, user, misled>>

\* A cart or order handler runs for the acting user.  It redirects, leaves the
\* page as it is, or replaces a row of it.
Post(t) ==
    /\ Asked(t, "post") /\ acting[t] # None /\ Verified(t)
    /\ misled' = (misled \/ sent[t].form.user \notin {None, ActingUser(t)})
    /\ \E p \in {Blank, page[t], [from |-> "view", token |-> acting[t], user |-> ActingUser(t)]} :
            Respond(t, Keep, Keep, p)
    /\ UNCHANGED server

\* The database fails the statement of Create or Delete: 500, nothing is done.
HandlerFails(t) ==
    /\ Asked(t, "login") \/ (Asked(t, "logout") /\ acting[t] # None)
    /\ Verified(t)
    /\ Respond(t, Keep, Keep, Blank)
    /\ UNCHANGED <<server, misled>>

\* A session expires, and so does its cookie, by the clock of the browser.
Expire(n) ==
    /\ n \in rows
    /\ rows' = rows \ {n}
    /\ sid' \in IF sid = n THEN {n, None} ELSE {sid}
    /\ UNCHANGED <<issued, user, csrf, page, traffic, history>>

-----------------------------------------------------------------------------
(* The browser receives. *)

SetCookie(jar, value) == IF value = Keep THEN jar ELSE value

Receive(t) ==
    /\ pc[t] = "answered"
    /\ sid' = SetCookie(sid, answer[t].sid)
    /\ csrf' = SetCookie(csrf, answer[t].csrf)
    /\ page' = [page EXCEPT ![t] = answer[t].page]
    /\ crossed' = (crossed \/ /\ <<sid, csrf>> # <<sent[t].sid, sent[t].csrf>>
                              /\ <<sid, csrf>>' # <<sid, csrf>>)
    /\ pc' = [pc EXCEPT ![t] = "idle"]
    /\ sent' = [sent EXCEPT ![t] = NoRequest]
    /\ acting' = [acting EXCEPT ![t] = None]
    /\ answer' = [answer EXCEPT ![t] = NoAnswer]
    /\ UNCHANGED <<server, misled, restarted>>

\* The browser is closed and opened again: tabs, requests and the CSRF cookie,
\* which has no expiry, are gone.
BrowserRestart ==
    /\ csrf' = None
    /\ page' = [t \in Tabs |-> Blank]
    /\ pc' = [t \in Tabs |-> "idle"]
    /\ sent' = [t \in Tabs |-> NoRequest]
    /\ acting' = [t \in Tabs |-> None]
    /\ answer' = [t \in Tabs |-> NoAnswer]
    /\ restarted' = TRUE
    /\ UNCHANGED <<server, sid, misled, crossed>>

Handle(t) ==
    \/ Browse(t) \/ ToLogin(t) \/ View(t) \/ Forbid(t)
    \/ LoginFails(t) \/ (\E u \in Users : Login(t, u)) \/ Logout(t)
    \/ Post(t) \/ HandlerFails(t)

Next ==
    \/ \E t \in Tabs :
        \/ \E ask \in Asks : Send(t, ask)
        \/ Load(t) \/ LoadFails(t)
        \/ Handle(t)
        \/ Receive(t)
    \/ \E n \in Tokens : Expire(n)
    \/ BrowserRestart

Spec == Init /\ [][Next]_vars
-----------------------------------------------------------------------------
(* Properties. *)

Somebody == Users \cup {None}
Cookie == (1..issued) \cup {None}
Page == [from : {"nowhere", "browse", "view"}, token : Cookie, user : Somebody]

\* Cookies, forms and rows hold tokens that were made, and every session is
\* somebody's.
TypeOK ==
    /\ issued \in 0..MaxTokens
    /\ rows \subseteq 1..issued
    /\ user \in [Tokens -> Somebody]
    /\ \A n \in rows : user[n] # None
    /\ sid \in Cookie
    /\ csrf \in Cookie
    /\ page \in [Tabs -> Page]
    /\ pc \in [Tabs -> {"idle", "sent", "loaded", "answered"}]
    /\ sent \in [Tabs -> [ask : Asks \cup {"nothing"}, sid : Cookie, csrf : Cookie, form : Page]]
    /\ acting \in [Tabs -> Cookie]
    /\ answer \in [Tabs -> [sid : Cookie \cup {Keep}, csrf : Cookie \cup {Keep}, page : Page]]
    /\ misled \in BOOLEAN
    /\ restarted \in BOOLEAN
    /\ crossed \in BOOLEAN

\* A form shown to one user is never accepted for another, whatever the tabs
\* do in whatever order: logging in as somebody else makes the forms of all
\* older pages invalid.  Only an answer that brings cookies after they have
\* changed can undo that.
PostsActForPage ==
    ~crossed => ~misled

\* The forms of a session's pages are accepted, because the session's token is
\* the cookie's, as long as the browser stays open and answers do not cross.
TokensAgree ==
    ~crossed /\ ~restarted /\ sid \in rows => csrf = sid

\* "The CSRF token in the session is made to agree with the cookie's".
SessionAndCookieAgree ==
    ~crossed /\ sid \in rows => csrf = sid
=============================================================================
