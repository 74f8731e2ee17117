--------------------------- MODULE SessionsProofs ---------------------------
(***************************************************************************)
(* What the two cookies guarantee for any number of tabs, users and        *)
(* tokens.  Browser and requests carry pairs of a session and a token, and *)
(* forms carry a token and were shown to a user.  The inductive invariant  *)
(* says that a session's own token is only ever carried with that session  *)
(* and only ever stands in forms of its user, and that, until answers      *)
(* cross, any other token is carried with one session only and stands in   *)
(* forms of that session's user only.  A new token on its way to the       *)
(* browser is nowhere else.                                                *)
(***************************************************************************)
EXTENDS Sessions, TLAPS

Carried == {<<sid, csrf>>} \cup {<<sent[t].sid, sent[t].csrf>> : t \in Tabs}

Forms == {page[t] : t \in Tabs} \cup {sent[t].form : t \in Tabs} \cup {answer[t].page : t \in Tabs}

\* A request acts under the session it carries, or under none, once loaded, and
\* is answered once handled.
ActsAsCarried ==
    \A t \in Tabs :
        /\ acting[t] # None => acting[t] = sent[t].sid /\ user[acting[t]] # None
        /\ pc[t] \in {"idle", "sent"} => acting[t] = None
        /\ pc[t] # "answered" => answer[t] = NoAnswer

\* Nobody has the session of a token to come.
NotMade == \A n \in Tokens : n > issued => user[n] = None

\* The token of a session is carried with that session.
SessionPair(c) ==
    c[1] # None /\ c[2] # None => (user[c[2]] # None => c[1] = c[2])

\* The token of a session stands in forms of its user.
SessionForm(p) ==
    p.token # None /\ p.user # None => (user[p.token] # None => user[p.token] = p.user)

\* Two that carry one token carry one session.
SamePair(c, d) ==
    c[2] # None /\ c[2] = d[2] /\ c[1] # None /\ d[1] # None => c[1] = d[1]

\* Who carries the token of a form carries a session of the form's user.
PairOfForm(c, p) ==
    c[2] # None /\ c[2] = p.token /\ c[1] # None /\ p.user # None => user[c[1]] = p.user

\* A token that only this answer has, made for a request without one.
Fresh(t) ==
    /\ answer[t].sid = Keep
    /\ answer[t].csrf \in 1..issued
    /\ user[answer[t].csrf] = None
    /\ sent[t].csrf = None
    /\ \A c \in Carried : c[2] # answer[t].csrf
    /\ \A x \in Tabs :
        /\ page[x].token # answer[t].csrf
        /\ sent[x].form.token # answer[t].csrf
        /\ x # t => answer[x].page.token # answer[t].csrf /\ answer[x].csrf # answer[t].csrf
    /\ answer[t].page.user # None =>
        sent[t].sid # None /\ user[sent[t].sid] = answer[t].page.user

\* What an answer does to the cookies.
AnswerKind(t) ==
    \/ answer[t].csrf = Keep /\ answer[t].sid \in {Keep, None}
    \/ /\ answer[t].csrf \in 1..issued
       /\ answer[t].sid = answer[t].csrf
       /\ user[answer[t].csrf] # None
    \/ Fresh(t)

IInv ==
    /\ TypeOK
    /\ ActsAsCarried
    /\ NotMade
    /\ \A c \in Carried : SessionPair(c)
    /\ \A p \in Forms : SessionForm(p)
    /\ ~crossed => \A c, d \in Carried : SamePair(c, d)
    /\ ~crossed => \A c \in Carried, p \in Forms : PairOfForm(c, p)
    /\ \A t \in Tabs : AnswerKind(t)
    /\ PostsActForPage
    /\ TokensAgree

\* None is no token and no user, Keep is neither.
LEMMA Values ==
    /\ \A n \in Nat : n # None /\ n # Keep
    /\ None # Keep
    /\ \A u \in Users : u # None
    /\ Tokens = 1..MaxTokens /\ MaxTokens \in Nat
  BY SessionsAssumption DEF Tokens

\* Forms and pairs have their types.
LEMMA CarriedTypes ==
    ASSUME TypeOK
    PROVE  /\ \A c \in Carried : c[1] \in Cookie /\ c[2] \in Cookie
           /\ \A p \in Forms : p \in Page
  BY DEF TypeOK, Carried, Forms

-----------------------------------------------------------------------------
(* Types. *)

\* Nothing has been made, sent or shown.
LEMMA InitTypes == Init => TypeOK
  <1> SUFFICES ASSUME Init PROVE TypeOK
    OBVIOUS
  <1> USE Values DEF Init
  <1>1. Blank \in Page /\ NoRequest \in [ask : Asks \cup {"nothing"}, sid : Cookie, csrf : Cookie, form : Page]
        /\ NoAnswer \in [sid : Cookie \cup {Keep}, csrf : Cookie \cup {Keep}, page : Page]
    BY DEF Blank, NoRequest, NoAnswer, Page, Cookie, Somebody
  <1>2. issued \in 0..MaxTokens /\ rows \subseteq 1..issued /\ \A n \in rows : user[n] # None
    OBVIOUS
  <1>3. user \in [Tokens -> Somebody] /\ sid \in Cookie /\ csrf \in Cookie /\ acting \in [Tabs -> Cookie]
    BY DEF Somebody, Cookie
  <1> QED
    BY <1>1, <1>2, <1>3 DEF TypeOK

\* Pages the server makes.
LEMMA PageTypes ==
    ASSUME TypeOK, NEW t \in Tabs
    PROVE  /\ Blank \in Page
           /\ ActingUser(t) \in Somebody
           /\ \A n \in Cookie : BrowsePage(t, n) \in Page
           /\ [from |-> "view", token |-> acting[t], user |-> ActingUser(t)] \in Page
  <1>1. ActingUser(t) \in Somebody
    BY Values DEF TypeOK, ActingUser, Somebody, Cookie
  <1> QED
    BY <1>1 DEF TypeOK, Blank, BrowsePage, Page, Somebody, Cookie

\* An answer is given its types.
LEMMA RespondTypes ==
    ASSUME TypeOK, NEW t \in Tabs, NEW s, NEW c, NEW p,
           Respond(t, s, c, p),
           issued' \in issued..MaxTokens,
           rows' \subseteq 1..issued',
           user' \in [Tokens -> Somebody],
           \A n \in rows' : user'[n] # None,
           misled' \in BOOLEAN,
           s \in (1..issued') \cup {None, Keep},
           c \in (1..issued') \cup {None, Keep},
           p \in Page'
    PROVE  TypeOK'
  <1>1. Cookie \subseteq Cookie' /\ Page \subseteq Page' /\ issued' \in 0..MaxTokens
    BY Values DEF TypeOK, Cookie, Page, Somebody
  <1>2. answer' \in [Tabs -> [sid : Cookie \cup {Keep}, csrf : Cookie \cup {Keep}, page : Page]]'
    BY <1>1 DEF TypeOK, Respond, Cookie
  <1>3. pc' \in [Tabs -> {"idle", "sent", "loaded", "answered"}]
    BY DEF TypeOK, Respond
  <1>4. sent' \in [Tabs -> [ask : Asks \cup {"nothing"}, sid : Cookie, csrf : Cookie, form : Page]]'
    BY <1>1 DEF TypeOK, Respond
  <1>5. sid' \in Cookie' /\ csrf' \in Cookie' /\ page' \in [Tabs -> Page'] /\ acting' \in [Tabs -> Cookie']
    BY <1>1 DEF TypeOK, Respond, browser
  <1>6. restarted' \in BOOLEAN /\ crossed' \in BOOLEAN
    BY DEF TypeOK, Respond
  <1> QED
    BY <1>1, <1>2, <1>3, <1>4, <1>5, <1>6 DEF TypeOK

\* The answers of handlers that make no token.
LEMMA QuietTypes ==
    ASSUME TypeOK, NEW t \in Tabs, NEW s \in {Keep, None}, NEW p \in Page,
           Respond(t, s, Keep, p), issued' = issued, user' = user,
           rows' \subseteq rows, misled' \in BOOLEAN
    PROVE  TypeOK'
  <1>1. Page' = Page
    BY DEF Page, Cookie
  <1> QED
    BY <1>1, Values, RespondTypes DEF TypeOK

-----------------------------------------------------------------------------
(* Every step preserves IInv. *)

\* No token has been made.
LEMMA InitIInv == Init => IInv
  <1> SUFFICES ASSUME Init PROVE IInv
    OBVIOUS
  <1> USE Values DEF Init
  <1>1. Carried \subseteq {<<None, None>>} /\ Forms \subseteq {Blank}
    BY DEF Carried, Forms, NoRequest, NoAnswer
  <1>2. /\ \A c \in Carried : SessionPair(c)
        /\ \A p \in Forms : SessionForm(p)
        /\ \A c, d \in Carried : SamePair(c, d)
        /\ \A c \in Carried, p \in Forms : PairOfForm(c, p)
    BY <1>1 DEF SessionPair, SessionForm, SamePair, PairOfForm, Blank
  <1>3. ActsAsCarried /\ \A t \in Tabs : AnswerKind(t)
    BY DEF ActsAsCarried, AnswerKind, NoAnswer, NoRequest
  <1>5. NotMade
    BY DEF NotMade
  <1>4. PostsActForPage /\ TokensAgree
    BY DEF PostsActForPage, TokensAgree
  <1> QED
    BY <1>2, <1>3, <1>4, <1>5, InitTypes DEF IInv

\* A token on its way stays fresh while nobody else gets it.
LEMMA FreshStays ==
    ASSUME IInv, NEW x \in Tabs, Fresh(x),
           answer'[x] = answer[x], sent'[x].csrf = sent[x].csrf, sent'[x].sid = sent[x].sid,
           issued' \in Nat, issued' >= issued,
           \A n \in 1..issued : user'[n] = user[n],
           \A c \in Carried' : c[2] # answer[x].csrf,
           \A y \in Tabs :
                /\ page'[y].token # answer[x].csrf
                /\ sent'[y].form.token # answer[x].csrf
                /\ y # x => answer'[y].page.token # answer[x].csrf /\ answer'[y].csrf # answer[x].csrf
    PROVE  Fresh(x)'
  <1>1. sent[x].sid # None => sent[x].sid \in 1..issued
    BY DEF IInv, TypeOK, Cookie
  <1> QED
    BY <1>1 DEF Fresh, IInv, TypeOK

\* A page that may be shown: its token is made, and all that is carried agrees
\* with it.
Sound(p) ==
    /\ p \in Page
    /\ SessionForm(p)
    /\ ~crossed => \A c \in Carried : PairOfForm(c, p)

\* What the steps that make no pair and no form of their own keep.
LEMMA NothingNew ==
    ASSUME IInv, TypeOK',
           \A n \in 1..issued : user'[n] = user[n],
           \A c \in Carried' : c \in Carried \/ c[1] = None \/ c[2] = None,
           \A p \in Forms' : p \in Forms \/ Sound(p) \/ p.token = None,
           crossed' = FALSE => crossed = FALSE
    PROVE  /\ \A c \in Carried' : SessionPair(c)'
           /\ \A p \in Forms' : SessionForm(p)'
           /\ ~crossed' => \A c, d \in Carried' : SamePair(c, d)
           /\ ~crossed' => \A c \in Carried', p \in Forms' : PairOfForm(c, p)'
  <1> USE Values
  <1>1. TypeOK /\ \A n \in Cookie : n = None \/ (n \in 1..issued /\ user'[n] = user[n])
    BY DEF IInv, Cookie
  <1>2. /\ \A c \in Carried : c[1] \in Cookie /\ c[2] \in Cookie
        /\ \A p \in Forms : p \in Page
    BY <1>1, CarriedTypes
  <1>3. \A p \in Forms' : p.token = None \/ (p.token \in Cookie /\ Sound(p))
    BY <1>2 DEF IInv, Sound, Page
  <1>4. \A c \in Carried' : SessionPair(c)'
    BY <1>1, <1>2 DEF IInv, SessionPair
  <1>5. \A p \in Forms' : SessionForm(p)'
    BY <1>1, <1>3 DEF Sound, SessionForm
  <1>6. ~crossed' => \A c, d \in Carried' : SamePair(c, d)
    BY DEF IInv, SamePair, TypeOK
  <1>7. ~crossed' => \A c \in Carried', p \in Forms' : PairOfForm(c, p)'
    <2> SUFFICES ASSUME ~crossed', NEW c \in Carried', NEW p \in Forms',
                        c[2] # None, c[2] = p.token, c[1] # None, p.user # None
                 PROVE  user'[c[1]] = p.user
      BY DEF PairOfForm
    <2>1. c \in Carried /\ c[1] \in Cookie /\ ~crossed
      BY <1>2 DEF TypeOK
    <2>2. PairOfForm(c, p)
      BY <2>1, <1>3 DEF Sound
    <2> QED
      BY <2>1, <2>2, <1>1 DEF PairOfForm
  <1> QED
    BY <1>4, <1>5, <1>6, <1>7

\* An answer on its way keeps its kind, if its token goes nowhere.
LEMMA AnswerStays ==
    ASSUME IInv, NEW x \in Tabs,
           answer'[x] = answer[x], sent'[x].csrf = sent[x].csrf, sent'[x].sid = sent[x].sid,
           issued' \in Nat, issued' >= issued,
           \A n \in 1..issued : user'[n] = user[n],
           Fresh(x) =>
              /\ \A c \in Carried' : c[2] # answer[x].csrf
              /\ \A y \in Tabs :
                    /\ page'[y].token # answer[x].csrf
                    /\ sent'[y].form.token # answer[x].csrf
                    /\ y # x => answer'[y].page.token # answer[x].csrf /\ answer'[y].csrf # answer[x].csrf
    PROVE  AnswerKind(x)'
  <1>1. CASE answer[x].csrf = Keep /\ answer[x].sid \in {Keep, None}
    BY <1>1 DEF AnswerKind
  <1>2. CASE answer[x].csrf \in 1..issued /\ answer[x].sid = answer[x].csrf /\ user[answer[x].csrf] # None
    BY <1>2 DEF AnswerKind, IInv, TypeOK
  <1>3. CASE Fresh(x)
    BY <1>3, FreshStays DEF AnswerKind
  <1> QED
    BY <1>1, <1>2, <1>3 DEF IInv, AnswerKind

\* What the steps that answer nothing keep.
LEMMA SameAnswers ==
    ASSUME IInv, UNCHANGED <<issued, user, page, answer>>,
           \A c \in Carried' : c \in Carried \/ c[2] = None,
           NEW x \in Tabs, sent'[x].csrf = sent[x].csrf, sent'[x].sid = sent[x].sid,
           \A y \in Tabs : sent'[y].form \in {sent[y].form, page[y]}
    PROVE  AnswerKind(x)'
  <1>1. Fresh(x) => /\ \A c \in Carried' : c[2] # answer[x].csrf
                    /\ \A y \in Tabs : sent'[y].form.token # answer[x].csrf
    BY Values DEF Fresh, IInv, TypeOK
  <1> QED
    BY <1>1, AnswerStays DEF IInv, TypeOK, Fresh

\* The browser sends what it has.
LEMMA SendIInv ==
    ASSUME IInv, NEW t \in Tabs, NEW ask \in Asks, Send(t, ask)
    PROVE  IInv'
  <1> USE Values DEF Send, server, browser, history
  <1>1. TypeOK'
    <2>1. [ask |-> ask, sid |-> sid, csrf |-> csrf, form |-> page[t]]
            \in [ask : Asks \cup {"nothing"}, sid : Cookie, csrf : Cookie, form : Page]
      BY DEF IInv, TypeOK
    <2> QED
      BY <2>1 DEF IInv, TypeOK, Cookie, Page
  <1>2. Carried' \subseteq Carried /\ Forms' \subseteq Forms
    BY DEF IInv, TypeOK, Carried, Forms
  <1>3. ActsAsCarried' /\ NotMade'
    BY DEF IInv, TypeOK, ActsAsCarried, NotMade
  <1>4. \A x \in Tabs : AnswerKind(x)'
    <2> SUFFICES ASSUME NEW x \in Tabs PROVE AnswerKind(x)'
      OBVIOUS
    <2>1. \A y \in Tabs : sent'[y].form \in {sent[y].form, page[y]}
      BY DEF IInv, TypeOK
    <2>2. CASE x # t
      BY <1>2, <2>1, <2>2, SameAnswers DEF IInv, TypeOK
    <2>3. CASE x = t
      BY <2>3 DEF IInv, AnswerKind, ActsAsCarried, NoAnswer
    <2> QED
      BY <2>2, <2>3
  <1>5. PostsActForPage' /\ TokensAgree'
    BY DEF IInv, PostsActForPage, TokensAgree
  <1> QED
    BY <1>1, <1>2, <1>3, <1>4, <1>5, NothingNew DEF IInv, TypeOK

\* The server looks for the session, and finds it or does not.
LEMMA LoadIInv ==
    ASSUME IInv, NEW t \in Tabs, Load(t) \/ LoadFails(t)
    PROVE  IInv'
  <1> USE Values DEF server, browser, history
  <1>1. /\ UNCHANGED <<server, browser, sent, answer, history>>
        /\ pc[t] = "sent" /\ pc' = [pc EXCEPT ![t] = "loaded"]
        /\ \E n \in {None, sent[t].sid} :
              /\ n # None => n \in rows
              /\ acting' = [acting EXCEPT ![t] = n]
    BY DEF Load, LoadFails
  <1>2. TypeOK'
    BY <1>1 DEF IInv, TypeOK, Cookie, Page
  <1>3. Carried' = Carried /\ Forms' = Forms
    BY <1>1 DEF Carried, Forms
  <1>4. ActsAsCarried' /\ NotMade'
    BY <1>1 DEF IInv, TypeOK, ActsAsCarried, NotMade
  <1>5. \A x \in Tabs : AnswerKind(x)'
    BY <1>1, <1>3, SameAnswers
  <1>6. PostsActForPage' /\ TokensAgree'
    BY <1>1 DEF IInv, PostsActForPage, TokensAgree
  <1> QED
    BY <1>1, <1>2, <1>3, <1>4, <1>5, <1>6, NothingNew DEF IInv, TypeOK

\* A session ends; the browser may forget its cookie.
LEMMA ExpireIInv ==
    ASSUME IInv, NEW n \in Tokens, Expire(n)
    PROVE  IInv'
  <1> USE Values DEF Expire, traffic, history
  <1>1. sid' \in {sid, None} /\ (sid' = None \/ sid' = sid)
    OBVIOUS
  <1>2. TypeOK'
    BY <1>1 DEF IInv, TypeOK, Cookie, Page
  <1>3. Forms' = Forms /\ \A c \in Carried' : c \in Carried \/ (c[1] = None /\ c[2] = csrf)
    BY <1>1 DEF Carried, Forms
  <1>4. ActsAsCarried' /\ NotMade'
    BY DEF IInv, TypeOK, ActsAsCarried, NotMade
  <1>5. \A x \in Tabs : AnswerKind(x)'
    <2> SUFFICES ASSUME NEW x \in Tabs PROVE AnswerKind(x)'
      OBVIOUS
    <2>1. Fresh(x) => /\ \A c \in Carried' : c[2] # answer[x].csrf
                      /\ \A y \in Tabs :
                            /\ page[y].token # answer[x].csrf
                            /\ sent[y].form.token # answer[x].csrf
                            /\ y # x => answer[y].page.token # answer[x].csrf /\ answer[y].csrf # answer[x].csrf
      BY <1>3 DEF Fresh, Carried
    <2> QED
      BY <2>1, AnswerStays DEF IInv, TypeOK
  <1>6. PostsActForPage' /\ TokensAgree'
    BY <1>1 DEF IInv, TypeOK, PostsActForPage, TokensAgree
  <1> QED
    BY <1>2, <1>3, <1>4, <1>5, <1>6, NothingNew DEF IInv, TypeOK

\* Nothing is left but the session cookie.
LEMMA BrowserRestartIInv ==
    ASSUME IInv, BrowserRestart
    PROVE  IInv'
  <1> USE Values DEF BrowserRestart, server
  <1>1. TypeOK'
    <2>1. Blank \in Page' /\ NoRequest \in [ask : Asks \cup {"nothing"}, sid : Cookie, csrf : Cookie, form : Page]'
          /\ NoAnswer \in [sid : Cookie \cup {Keep}, csrf : Cookie \cup {Keep}, page : Page]'
      BY DEF Blank, NoRequest, NoAnswer, Page, Cookie, Somebody
    <2> QED
      BY <2>1 DEF IInv, TypeOK, Cookie
  <1>2. (\A c \in Carried' : c[2] = None) /\ (\A p \in Forms' : p.token = None)
    BY DEF Carried, Forms, Blank, NoRequest, NoAnswer
  <1>3. ActsAsCarried' /\ NotMade'
    BY DEF IInv, TypeOK, ActsAsCarried, NotMade
  <1>4. \A x \in Tabs : AnswerKind(x)'
    BY DEF AnswerKind, NoAnswer
  <1>5. PostsActForPage' /\ TokensAgree'
    BY DEF IInv, PostsActForPage, TokensAgree
  <1> QED
    BY <1>1, <1>2, <1>3, <1>4, <1>5, NothingNew DEF IInv, TypeOK

\* An answer with a page that agrees with all that is carried, and no new
\* token.
LEMMA QuietIInv ==
    ASSUME IInv, NEW t \in Tabs, pc[t] = "loaded",
           NEW s \in {Keep, None}, NEW p, Sound(p),
           \A x \in Tabs : x # t /\ Fresh(x) => p.token # answer[x].csrf,
           Respond(t, s, Keep, p),
           issued' = issued, user' = user, rows' \subseteq rows,
           misled' \in BOOLEAN, ~crossed => ~misled'
    PROVE  IInv'
  <1> USE Values
  <1>1. TypeOK'
    BY QuietTypes DEF IInv, Sound
  <1>2. /\ UNCHANGED <<sid, csrf, page, sent, acting, restarted, crossed>>
        /\ answer' = [answer EXCEPT ![t] = [sid |-> s, csrf |-> Keep, page |-> p]]
        /\ pc' = [pc EXCEPT ![t] = "answered"]
    BY DEF Respond, browser
  <1>3. Carried' = Carried /\ Forms' \subseteq Forms \cup {p}
    BY <1>2 DEF IInv, TypeOK, Carried, Forms
  <1>4. ActsAsCarried' /\ NotMade'
    BY <1>2 DEF IInv, TypeOK, ActsAsCarried, NotMade
  <1>5. \A x \in Tabs : AnswerKind(x)'
    <2> SUFFICES ASSUME NEW x \in Tabs PROVE AnswerKind(x)'
      OBVIOUS
    <2>1. CASE x = t
      BY <1>2, <2>1 DEF IInv, TypeOK, AnswerKind
    <2>2. CASE x # t
      <3>1. answer'[x] = answer[x] /\ answer'[t].page = p /\ answer'[t].csrf = Keep
            /\ \A y \in Tabs : y # t => answer'[y] = answer[y]
        BY <1>2, <2>2 DEF IInv, TypeOK
      <3>2. Fresh(x) => \A y \in Tabs :
                /\ page'[y].token # answer[x].csrf
                /\ sent'[y].form.token # answer[x].csrf
                /\ y # x => answer'[y].page.token # answer[x].csrf /\ answer'[y].csrf # answer[x].csrf
        BY <1>2, <2>2, <3>1 DEF Fresh, IInv, TypeOK
      <3>3. Fresh(x) => \A c \in Carried' : c[2] # answer[x].csrf
        BY <1>3 DEF Fresh
      <3>4. /\ issued' \in Nat /\ issued' >= issued
            /\ \A n \in 1..issued : user'[n] = user[n]
            /\ sent'[x].csrf = sent[x].csrf /\ sent'[x].sid = sent[x].sid
        BY <1>2 DEF IInv, TypeOK
      <3> QED
        BY <3>1, <3>2, <3>3, <3>4, AnswerStays
    <2> QED
      BY <2>1, <2>2
  <1>6. PostsActForPage' /\ TokensAgree'
    BY <1>2 DEF IInv, PostsActForPage, TokensAgree
  <1> QED
    BY <1>1, <1>2, <1>3, <1>4, <1>5, <1>6, NothingNew DEF IInv, TypeOK

\* A page without a token goes with everything.
LEMMA BlankSound ==
    ASSUME IInv
    PROVE  Sound(Blank) /\ \A x \in Tabs : Fresh(x) => Blank.token # answer[x].csrf
  BY Values DEF Sound, Blank, Page, Cookie, Somebody, SessionForm, PairOfForm, Fresh

\* So does a page of the catalog, with the token its request carries.
LEMMA BrowsePageSound ==
    ASSUME IInv, NEW t \in Tabs
    PROVE  /\ Sound(BrowsePage(t, sent[t].csrf))
           /\ \A x \in Tabs : Fresh(x) => BrowsePage(t, sent[t].csrf).token # answer[x].csrf
  <1> DEFINE p == BrowsePage(t, sent[t].csrf)
  <1> USE Values
  <1>1. TypeOK /\ sent[t].csrf \in Cookie /\ p.token = sent[t].csrf /\ p.user = ActingUser(t)
    BY DEF IInv, TypeOK, BrowsePage
  <1>2. <<sent[t].sid, sent[t].csrf>> \in Carried
    BY DEF Carried
  <1>3. p.user # None => acting[t] # None /\ acting[t] = sent[t].sid /\ p.user = user[sent[t].sid]
    BY <1>1 DEF IInv, ActsAsCarried, ActingUser
  <1>4. SessionForm(p)
    BY <1>1, <1>2, <1>3 DEF IInv, SessionPair, SessionForm
  <1>5. ~crossed => \A c \in Carried : PairOfForm(c, p)
    BY <1>1, <1>2, <1>3 DEF IInv, SamePair, PairOfForm
  <1>6. \A x \in Tabs : Fresh(x) => p.token # answer[x].csrf
    BY <1>1, <1>2 DEF Fresh
  <1> QED
    BY <1>1, <1>4, <1>5, <1>6, PageTypes DEF Sound

\* So does a page of the acting user, with the token of the session.
LEMMA ViewSound ==
    ASSUME IInv, NEW t \in Tabs, acting[t] # None,
           NEW p, p = [from |-> "view", token |-> acting[t], user |-> ActingUser(t)]
    PROVE  Sound(p) /\ \A x \in Tabs : Fresh(x) => p.token # answer[x].csrf
  <1> USE Values
  <1>1. TypeOK /\ p \in Page /\ p.token = acting[t] /\ p.user = user[acting[t]] /\ user[acting[t]] # None
    BY PageTypes DEF IInv, ActsAsCarried, ActingUser
  <1>2. SessionForm(p) /\ \A c \in Carried : PairOfForm(c, p)
    BY <1>1 DEF IInv, SessionPair, SessionForm, PairOfForm
  <1> QED
    BY <1>1, <1>2 DEF Sound, Fresh

\* So does the page a tab shows.
LEMMA ShownSound ==
    ASSUME IInv, NEW t \in Tabs
    PROVE  Sound(page[t]) /\ \A x \in Tabs : Fresh(x) => page[t].token # answer[x].csrf
  BY CarriedTypes DEF IInv, Sound, Forms, Fresh

\* Every handler but those that make a token.
LEMMA QuietHandlersIInv ==
    ASSUME IInv, NEW t \in Tabs,
           \/ Browse(t) /\ sent[t].csrf # None
           \/ ToLogin(t) \/ View(t) \/ Forbid(t) \/ LoginFails(t)
           \/ Logout(t) \/ Post(t) \/ HandlerFails(t)
    PROVE  IInv'
  <1> USE Values DEF Asked, server
  <1>0. (~crossed => ~misled) /\ misled \in BOOLEAN
    BY DEF IInv, TypeOK, PostsActForPage
  <1>1. CASE Browse(t) /\ sent[t].csrf # None
    BY <1>0, <1>1, BrowsePageSound, QuietIInv DEF Browse, IInv, TypeOK
  <1>2. CASE ToLogin(t) \/ Forbid(t) \/ HandlerFails(t)
    <2>1. pc[t] = "loaded" /\ Respond(t, Keep, Keep, Blank) /\ UNCHANGED <<issued, rows, user, misled>>
      BY <1>2 DEF ToLogin, Forbid, HandlerFails
    <2> QED
      BY <1>0, <2>1, BlankSound, QuietIInv
  <1>3. CASE View(t)
    BY <1>0, <1>3, ViewSound, QuietIInv DEF View, IInv, TypeOK
  <1>4. CASE LoginFails(t)
    BY <1>0, <1>4, BlankSound, BrowsePageSound, QuietIInv DEF LoginFails, IInv, TypeOK
  <1>5. CASE Logout(t)
    BY <1>0, <1>5, BlankSound, QuietIInv DEF Logout, IInv, TypeOK
  <1>6. CASE Post(t)
    <2>1. ~crossed => ~misled'
      <3> SUFFICES ASSUME ~crossed, sent[t].form.user # None
                   PROVE  sent[t].form.user = ActingUser(t)
        BY <1>0, <1>6 DEF Post
      <3>1. /\ <<sent[t].sid, sent[t].csrf>> \in Carried
            /\ sent[t].form \in Forms
        BY DEF Carried, Forms
      <3>2. acting[t] # None /\ acting[t] = sent[t].sid
        BY <1>6 DEF Post, IInv, ActsAsCarried
      <3>3. sent[t].csrf # None /\ sent[t].csrf = sent[t].form.token
        BY <1>6 DEF Post, Verified
      <3> QED
        BY <3>1, <3>2, <3>3 DEF IInv, PairOfForm, ActingUser
    <2>2. misled' \in BOOLEAN
      BY <1>0, <1>6 DEF Post, IInv, TypeOK
    <2>3. PICK p \in {Blank, page[t], [from |-> "view", token |-> acting[t], user |-> ActingUser(t)]} :
                Respond(t, Keep, Keep, p)
      BY <1>6 DEF Post
    <2>4. Sound(p) /\ \A x \in Tabs : Fresh(x) => p.token # answer[x].csrf
      BY <1>6, BlankSound, ShownSound, ViewSound DEF Post
    <2> QED
      BY <1>6, <2>1, <2>2, <2>3, <2>4, QuietIInv DEF Post
  <1> QED
    BY <1>1, <1>2, <1>3, <1>4, <1>5, <1>6

\* A new token goes to one answer, past those on their way.
LEMMA OthersStay ==
    ASSUME IInv, NEW t \in Tabs, NEW x \in Tabs, x # t, NEW s, NEW p,
           issued' = issued + 1, UNCHANGED <<sid, csrf, page, sent>>,
           answer' = [answer EXCEPT ![t] = [sid |-> s, csrf |-> issued + 1, page |-> p]],
           p.token \in {None, issued + 1},
           \A m \in 1..issued : user'[m] = user[m]
    PROVE  AnswerKind(x)'
  <1> USE Values
  <1>1. issued \in Nat /\ answer'[x] = answer[x] /\ answer'[t].page = p /\ answer'[t].csrf = issued + 1
        /\ \A y \in Tabs : y # t => answer'[y] = answer[y]
    BY DEF IInv, TypeOK
  <1>2. Carried' = Carried
    BY DEF Carried
  <1>3. Fresh(x) =>
            /\ \A c \in Carried' : c[2] # answer[x].csrf
            /\ \A y \in Tabs :
                    /\ page'[y].token # answer[x].csrf
                    /\ sent'[y].form.token # answer[x].csrf
                    /\ y # x => answer'[y].page.token # answer[x].csrf /\ answer'[y].csrf # answer[x].csrf
    BY <1>1, <1>2 DEF Fresh
  <1> QED
    BY <1>1, <1>3, AnswerStays

\* An answer with a new token of no session, in its page and in its cookie.
LEMMA BrowseIInv ==
    ASSUME IInv, NEW t \in Tabs, Browse(t)
    PROVE  IInv'
  <1> DEFINE n == issued + 1
             p == BrowsePage(t, n)
  <1> USE Values DEF Asked
  <1>1. CASE sent[t].csrf # None
    BY <1>1, QuietHandlersIInv
  <1>2. CASE sent[t].csrf = None
    <2>1. /\ pc[t] = "loaded" /\ issued < MaxTokens /\ issued' = n
          /\ Respond(t, Keep, n, p) /\ UNCHANGED <<rows, user, misled>>
      BY <1>2 DEF Browse, Make
    <2>2. n \in Nat /\ n \in Tokens /\ user[n] = None /\ issued \in Nat
      BY <2>1 DEF IInv, TypeOK, NotMade
    <2>3. p.token = n /\ p.user = ActingUser(t) /\ p \in Page'
      <3>1. p = [from |-> "browse", token |-> n, user |-> ActingUser(t)] /\ ActingUser(t) \in Somebody
        BY PageTypes DEF BrowsePage, IInv
      <3>2. n \in Cookie' /\ Somebody' = Somebody
        BY <2>1, <2>2 DEF Cookie, Somebody
      <3> QED
        BY <3>1, <3>2 DEF Page
    <2>4. TypeOK'
      <3>1. /\ issued' \in issued..MaxTokens /\ rows' \subseteq 1..issued'
            /\ user' \in [Tokens -> Somebody] /\ \A m \in rows' : user'[m] # None
            /\ misled' \in BOOLEAN /\ n \in 1..issued'
        BY <2>1, <2>2 DEF IInv, TypeOK
      <3> QED
        BY <2>1, <2>3, <3>1, RespondTypes DEF IInv
    <2>5. /\ UNCHANGED <<sid, csrf, page, sent, acting, restarted, crossed, user, rows, misled>>
          /\ answer' = [answer EXCEPT ![t] = [sid |-> Keep, csrf |-> n, page |-> p]]
          /\ pc' = [pc EXCEPT ![t] = "answered"]
      BY <2>1 DEF Respond, browser
    <2>6. Carried' = Carried /\ Forms' \subseteq Forms \cup {p}
      BY <2>5 DEF IInv, TypeOK, Carried, Forms
    <2>7. /\ \A c \in Carried : c[1] # n /\ c[2] # n
          /\ \A f \in Forms : f.token # n
          /\ \A x \in Tabs : answer[x].csrf # n
      BY <2>2, CarriedTypes DEF IInv, TypeOK, Page, Cookie
    <2>8. SessionForm(p) /\ \A c \in Carried : PairOfForm(c, p)
      BY <2>2, <2>3, <2>7 DEF SessionForm, PairOfForm
    <2>9. /\ \A c \in Carried' : SessionPair(c)'
          /\ \A f \in Forms' : SessionForm(f)'
          /\ ~crossed' => \A c, d \in Carried' : SamePair(c, d)
          /\ ~crossed' => \A c \in Carried', f \in Forms' : PairOfForm(c, f)'
      BY <2>5, <2>6, <2>8 DEF IInv, SessionPair, SessionForm, SamePair, PairOfForm
    <2>10. ActsAsCarried' /\ NotMade'
      BY <2>1, <2>2, <2>5 DEF IInv, TypeOK, ActsAsCarried, NotMade
    <2>11. \A x \in Tabs : AnswerKind(x)'
      <3> SUFFICES ASSUME NEW x \in Tabs PROVE AnswerKind(x)'
        OBVIOUS
      <3>1. CASE x # t
        BY <2>1, <2>3, <2>5, <3>1, OthersStay
      <3>2. CASE x = t
        <4>1. answer'[t] = [sid |-> Keep, csrf |-> n, page |-> p] /\ \A y \in Tabs : y # t => answer'[y] = answer[y]
          BY <2>5 DEF IInv, TypeOK
        <4>2. p.user # None => sent[t].sid # None /\ user[sent[t].sid] = p.user
          BY <2>3 DEF IInv, ActsAsCarried, ActingUser
        <4>3. \A y \in Tabs :
                /\ page[y].token # n /\ sent[y].form.token # n
                /\ answer[y].page.token # n /\ answer[y].csrf # n
          BY <2>7 DEF Forms
        <4>4. Fresh(t)'
          BY <1>2, <2>1, <2>2, <2>5, <2>6, <2>7, <4>1, <4>2, <4>3 DEF Fresh
        <4> QED
          BY <3>2, <4>4 DEF AnswerKind
      <3> QED
        BY <3>1, <3>2
    <2>12. PostsActForPage' /\ TokensAgree'
      BY <2>5 DEF IInv, PostsActForPage, TokensAgree
    <2> QED
      BY <2>4, <2>9, <2>10, <2>11, <2>12 DEF IInv
  <1> QED
    BY <1>1, <1>2

\* A new session, and an answer with its cookies.
LEMMA LoginIInv ==
    ASSUME IInv, NEW t \in Tabs, NEW u \in Users, Login(t, u)
    PROVE  IInv'
  <1> DEFINE n == issued + 1
  <1> USE Values DEF Asked
  <1>1. /\ pc[t] = "loaded" /\ issued < MaxTokens /\ issued' = n
        /\ Respond(t, n, n, Blank) /\ rows' = rows \cup {n} /\ misled' = misled
        /\ user' = [user EXCEPT ![n] = u]
    BY DEF Login, Make
  <1>2. n \in Nat /\ n \in Tokens /\ issued \in Nat /\ user'[n] = u
        /\ \A m \in Tokens : m # n => user'[m] = user[m]
    BY <1>1 DEF IInv, TypeOK
  <1>3. TypeOK'
    <2>1. Blank \in Page' /\ user' \in [Tokens -> Somebody] /\ rows' \subseteq 1..issued'
      BY <1>1, <1>2 DEF IInv, TypeOK, Blank, Page, Cookie, Somebody
    <2>2. \A m \in rows' : user'[m] # None
      BY <1>1, <1>2 DEF IInv, TypeOK, Tokens
    <2>3. issued' \in issued..MaxTokens /\ misled' \in BOOLEAN /\ n \in (1..issued') \cup {None, Keep}
      BY <1>1, <1>2 DEF IInv, TypeOK
    <2> QED
      BY <1>1, <2>1, <2>2, <2>3, RespondTypes DEF IInv
  <1>4. /\ UNCHANGED <<sid, csrf, page, sent, acting, restarted, crossed, misled>>
        /\ answer' = [answer EXCEPT ![t] = [sid |-> n, csrf |-> n, page |-> Blank]]
        /\ pc' = [pc EXCEPT ![t] = "answered"]
    BY <1>1 DEF Respond, browser
  <1>5. Carried' = Carried /\ Forms' \subseteq Forms \cup {Blank}
    BY <1>4 DEF IInv, TypeOK, Carried, Forms
  <1>6. ActsAsCarried' /\ NotMade'
    <2>1. \A x \in Tabs : acting[x] = None \/ (acting[x] \in Tokens /\ acting[x] # n)
      BY <1>1, <1>2 DEF IInv, TypeOK, Cookie
    <2>2. ActsAsCarried'
      BY <1>1, <1>2, <1>4, <2>1 DEF IInv, TypeOK, ActsAsCarried
    <2>3. NotMade'
      BY <1>1, <1>2 DEF IInv, NotMade
    <2> QED
      BY <2>2, <2>3
  <1>7. \A x \in Tabs : AnswerKind(x)'
    <2> SUFFICES ASSUME NEW x \in Tabs PROVE AnswerKind(x)'
      OBVIOUS
    <2>1. CASE x # t
      <3>1. Blank.token \in {None, n} /\ \A m \in 1..issued : user'[m] = user[m]
        BY <1>1, <1>2 DEF Blank
      <3> QED
        BY <1>1, <1>4, <2>1, <3>1, OthersStay
    <2>2. CASE x = t
      <3>1. answer'[t] = [sid |-> n, csrf |-> n, page |-> Blank] /\ n \in 1..issued' /\ user'[n] # None
        BY <1>1, <1>2, <1>4 DEF IInv, TypeOK
      <3> QED
        BY <2>2, <3>1 DEF AnswerKind
    <2> QED
      BY <2>1, <2>2
  <1>8. PostsActForPage' /\ TokensAgree'
    <2>1. sid # n
      BY <1>2 DEF IInv, TypeOK, Cookie
    <2> QED
      BY <1>1, <1>4, <2>1 DEF IInv, PostsActForPage, TokensAgree
  <1>9. /\ \A m \in 1..issued : user'[m] = user[m]
        /\ \A p \in Forms' : p \in Forms \/ Sound(p)
    BY <1>1, <1>2, <1>5, BlankSound
  <1>10. /\ \A c \in Carried' : SessionPair(c)'
         /\ \A p \in Forms' : SessionForm(p)'
         /\ ~crossed' => \A c, d \in Carried' : SamePair(c, d)
         /\ ~crossed' => \A c \in Carried', p \in Forms' : PairOfForm(c, p)'
    BY <1>3, <1>4, <1>5, <1>9, NothingNew
  <1> QED
    BY <1>3, <1>6, <1>7, <1>8, <1>10 DEF IInv

\* The browser does not have a token that is on its way.
LEMMA JarNotFresh ==
    ASSUME NEW x \in Tabs, Fresh(x)
    PROVE  csrf # answer[x].csrf
  <1>1. <<sid, csrf>> \in Carried
    BY DEF Carried
  <1>2. \A c \in Carried : c[2] # answer[x].csrf
    BY DEF Fresh
  <1> QED
    BY <1>1, <1>2

\* An answer arrives: the browser has its cookies and its page, and the request
\* is over.
LEMMA ReceiveKeeps ==
    ASSUME IInv, NEW t \in Tabs, Receive(t)
    PROVE  /\ TypeOK' /\ ActsAsCarried' /\ NotMade'
           /\ \A x \in Tabs : AnswerKind(x)'
           /\ \A c \in Carried' : c = <<sid', csrf'>> \/ c \in Carried \/ c[2] = None
           /\ \A p \in Forms' : p \in Forms \/ p = Blank
  <1> USE Values DEF Receive, server
  <1>1. /\ sid' = SetCookie(sid, answer[t].sid) /\ sid' \in Cookie
        /\ csrf' = SetCookie(csrf, answer[t].csrf) /\ csrf' \in Cookie
    BY DEF SetCookie, IInv, TypeOK
  <1>2. Cookie' = Cookie /\ Page' = Page
    BY DEF Cookie, Page
  <1>3. TypeOK'
    <2>1. /\ NoRequest \in [ask : Asks \cup {"nothing"}, sid : Cookie, csrf : Cookie, form : Page]
          /\ NoAnswer \in [sid : Cookie \cup {Keep}, csrf : Cookie \cup {Keep}, page : Page]
      BY DEF Blank, NoRequest, NoAnswer, Page, Cookie, Somebody
    <2>2. page' \in [Tabs -> Page] /\ acting' \in [Tabs -> Cookie]
      BY DEF IInv, TypeOK, Cookie
    <2>3. crossed' \in BOOLEAN
      BY DEF IInv, TypeOK
    <2> QED
      BY <1>1, <1>2, <2>1, <2>2, <2>3 DEF IInv, TypeOK
  <1>4. ActsAsCarried' /\ NotMade'
    BY DEF IInv, TypeOK, ActsAsCarried, NotMade
  <1>5. \A c \in Carried' : c = <<sid', csrf'>> \/ c \in Carried \/ c[2] = None
    BY DEF IInv, TypeOK, Carried, NoRequest
  <1>6. \A p \in Forms' : p \in Forms \/ p = Blank
    BY DEF IInv, TypeOK, Forms, NoRequest, NoAnswer
  <1>7. \A x \in Tabs : AnswerKind(x)'
    <2> SUFFICES ASSUME NEW x \in Tabs PROVE AnswerKind(x)'
      OBVIOUS
    <2>1. /\ answer'[t] = NoAnswer /\ sent'[t] = NoRequest /\ page'[t] = answer[t].page
          /\ \A y \in Tabs : y # t => answer'[y] = answer[y] /\ sent'[y] = sent[y] /\ page'[y] = page[y]
      BY DEF IInv, TypeOK
    <2>2. CASE x = t
      BY <2>1, <2>2 DEF AnswerKind, NoAnswer
    <2>3. CASE x # t
      <3>1. ASSUME Fresh(x)
            PROVE  /\ \A c \in Carried' : c[2] # answer[x].csrf
                   /\ \A y \in Tabs :
                        /\ page'[y].token # answer[x].csrf
                        /\ sent'[y].form.token # answer[x].csrf
                        /\ y # x => answer'[y].page.token # answer[x].csrf /\ answer'[y].csrf # answer[x].csrf
        <4>1. answer[x].csrf \in Nat /\ answer[x].csrf # None /\ answer[x].csrf # Keep
          BY <3>1 DEF Fresh, IInv, TypeOK
        <4>2. csrf # answer[x].csrf /\ answer[t].csrf # answer[x].csrf /\ answer[t].page.token # answer[x].csrf
          BY <2>3, <3>1, JarNotFresh DEF Fresh
        <4>3. \A c \in Carried' : c[2] # answer[x].csrf
          BY <1>1, <1>5, <3>1, <4>1, <4>2 DEF SetCookie, Fresh
        <4>4. /\ NoAnswer.page.token = None /\ NoAnswer.csrf = Keep /\ NoRequest.form.token = None
          BY DEF NoAnswer, NoRequest, Blank
        <4>5. \A y \in Tabs : /\ page[y].token # answer[x].csrf /\ sent[y].form.token # answer[x].csrf
                              /\ y # x => answer[y].page.token # answer[x].csrf /\ answer[y].csrf # answer[x].csrf
          BY <3>1 DEF Fresh
        <4>6. ASSUME NEW y \in Tabs
              PROVE  /\ page'[y].token # answer[x].csrf
                     /\ sent'[y].form.token # answer[x].csrf
                     /\ y # x => answer'[y].page.token # answer[x].csrf /\ answer'[y].csrf # answer[x].csrf
          <5>1. CASE y = t
            BY <2>1, <4>1, <4>2, <4>4, <5>1
          <5>2. CASE y # t
            BY <2>1, <4>5, <5>2
          <5> QED
            BY <5>1, <5>2
        <4> QED
          BY <4>3, <4>6
      <3> QED
        BY <2>1, <2>3, <3>1, AnswerStays DEF IInv, TypeOK
    <2> QED
      BY <2>2, <2>3
  <1> QED
    BY <1>3, <1>4, <1>5, <1>6, <1>7

\* One new pair that agrees with all others and with all forms.
LEMMA OnePair ==
    ASSUME IInv, TypeOK', UNCHANGED <<issued, user>>, crossed' = FALSE => crossed = FALSE,
           NEW j, SessionPair(j),
           \A c \in Carried' : c = j \/ c \in Carried \/ c[2] = None,
           \A p \in Forms' : p \in Forms \/ p.token = None,
           crossed' = FALSE => \A c \in Carried : c \in Carried' => SamePair(j, c),
           crossed' = FALSE => \A p \in Forms : p \in Forms' => PairOfForm(j, p)
    PROVE  /\ \A c \in Carried' : SessionPair(c)'
           /\ \A p \in Forms' : SessionForm(p)'
           /\ ~crossed' => \A c, d \in Carried' : SamePair(c, d)
           /\ ~crossed' => \A c \in Carried', p \in Forms' : PairOfForm(c, p)'
  <1>1. \A c \in Carried' : SessionPair(c)'
    BY DEF IInv, SessionPair
  <1>2. \A p \in Forms' : SessionForm(p)'
    BY DEF IInv, SessionForm
  <1>3. ~crossed' => \A c, d \in Carried' : SamePair(c, d)
    BY DEF IInv, TypeOK, SamePair
  <1>4. ~crossed' => \A c \in Carried', p \in Forms' : PairOfForm(c, p)'
    BY DEF IInv, TypeOK, PairOfForm
  <1> QED
    BY <1>1, <1>2, <1>3, <1>4

\* The browser's new pair does.
LEMMA ReceivePairs ==
    ASSUME IInv, NEW t \in Tabs, Receive(t)
    PROVE  /\ \A c \in Carried' : SessionPair(c)'
           /\ \A p \in Forms' : SessionForm(p)'
           /\ ~crossed' => \A c, d \in Carried' : SamePair(c, d)
           /\ ~crossed' => \A c \in Carried', p \in Forms' : PairOfForm(c, p)'
  <1> DEFINE n == answer[t].csrf
             jar == <<sid', csrf'>>
  <1> USE Values
  <1>1. /\ TypeOK /\ TypeOK' /\ UNCHANGED <<issued, user>> /\ (crossed' = FALSE => crossed = FALSE)
        /\ \A c \in Carried' : c = jar \/ c \in Carried \/ c[2] = None
        /\ \A p \in Forms' : p \in Forms \/ p.token = None
    <2>1. TypeOK /\ UNCHANGED <<issued, user>> /\ Blank.token = None /\ (crossed' = FALSE => crossed = FALSE)
      BY DEF Receive, server, IInv, TypeOK, Blank
    <2> QED
      BY <2>1, ReceiveKeeps
  <1>2. /\ sid' = SetCookie(sid, answer[t].sid)
        /\ csrf' = SetCookie(csrf, n)
    BY DEF Receive
  <1>3. CASE n = Keep /\ answer[t].sid \in {Keep, None}
    <2>1. jar \in Carried \/ jar[1] = None
      BY <1>2, <1>3 DEF SetCookie, Carried
    <2> QED
      BY <1>1, <2>1, NothingNew
  <1>4. CASE n \in 1..issued /\ answer[t].sid = n /\ user[n] # None
    <2>1. jar = <<n, n>> /\ n # None
      BY <1>1, <1>2, <1>4 DEF SetCookie, TypeOK
    <2>2. SessionPair(jar) /\ \A c \in Carried : SamePair(jar, c)
      <3>1. \A c \in Carried : SessionPair(c)
        BY DEF IInv
      <3> QED
        BY <1>4, <2>1, <3>1 DEF SessionPair, SamePair
    <2>3. \A p \in Forms : PairOfForm(jar, p)
      <3>1. \A p \in Forms : SessionForm(p)
        BY DEF IInv
      <3> QED
        BY <1>4, <2>1, <3>1 DEF SessionForm, PairOfForm
    <2> QED
      BY <1>1, <2>2, <2>3, OnePair
  <1>5. CASE Fresh(t)
    <2>1. jar = <<sid, n>> /\ n # None /\ user[n] = None
      BY <1>1, <1>2, <1>5 DEF SetCookie, TypeOK, Fresh
    <2>2. SessionPair(jar) /\ \A c \in Carried : SamePair(jar, c)
      BY <1>5, <2>1 DEF SessionPair, SamePair, Fresh
    <2>3. ~crossed' => sid = sent[t].sid
      <3>1. n # csrf
        BY <1>5, JarNotFresh
      <3>2. jar # <<sid, csrf>>
        BY <2>1, <3>1
      <3> QED
        BY <3>2 DEF Receive
    <2>4. \A p \in Forms : p.token = n => p = answer[t].page
      BY <1>5 DEF Fresh, Forms
    <2>5. ~crossed' => \A p \in Forms : PairOfForm(jar, p)
      BY <1>5, <2>1, <2>3, <2>4 DEF PairOfForm, Fresh
    <2> QED
      BY <1>1, <2>2, <2>5, OnePair DEF TypeOK
  <1> QED
    BY <1>3, <1>4, <1>5 DEF IInv, AnswerKind

\* The browser and the server agree on what has been answered.
LEMMA ReceiveIInv ==
    ASSUME IInv, NEW t \in Tabs, Receive(t)
    PROVE  IInv'
  <1> USE Values
  <1>1. PostsActForPage'
    BY DEF IInv, TypeOK, PostsActForPage, Receive
  <1>2. TokensAgree'
    <2> SUFFICES ASSUME ~crossed', ~restarted', sid' \in rows'
                 PROVE  csrf' = sid'
      BY DEF TokensAgree
    <2>1. /\ sid' = SetCookie(sid, answer[t].sid) /\ csrf' = SetCookie(csrf, answer[t].csrf)
          /\ ~crossed /\ ~restarted /\ rows' = rows /\ None \notin rows
          /\ sid \in rows => csrf = sid
      <3>1. rows' = rows /\ rows \subseteq 1..issued /\ issued \in Nat /\ crossed \in BOOLEAN
            /\ (crossed => crossed') /\ restarted' = restarted /\ TokensAgree
        BY DEF Receive, server, IInv, TypeOK
      <3>2. None \notin rows
        <4>1. \A m \in rows : m \in Nat
          BY <3>1
        <4> QED
          BY <4>1, SessionsAssumption
      <3> QED
        BY <3>1, <3>2 DEF Receive, TokensAgree
    <2>2. CASE answer[t].csrf = Keep /\ answer[t].sid \in {Keep, None}
      BY <2>1, <2>2 DEF SetCookie
    <2>3. CASE answer[t].csrf \in 1..issued /\ answer[t].sid = answer[t].csrf
      BY <2>1, <2>3 DEF SetCookie
    <2>4. CASE Fresh(t)
      <3>1. sid' = sid /\ csrf' = answer[t].csrf /\ csrf # answer[t].csrf
        BY <2>1, <2>4, JarNotFresh DEF Fresh, SetCookie, IInv, TypeOK
      <3>2. <<sid, csrf>> = <<sent[t].sid, sent[t].csrf>>
        BY <3>1 DEF Receive
      <3>3. csrf = None
        BY <2>4, <3>2 DEF Fresh
      <3> QED
        BY <2>1, <3>1, <3>3
    <2> QED
      BY <2>2, <2>3, <2>4 DEF IInv, AnswerKind
  <1> QED
    BY <1>1, <1>2, ReceiveKeeps, ReceivePairs DEF IInv

-----------------------------------------------------------------------------
(* The theorems. *)

\* Every step of Next keeps the invariant.
LEMMA NextIInv == IInv /\ [Next]_vars => IInv'
  <1> SUFFICES ASSUME IInv, [Next]_vars PROVE IInv'
    OBVIOUS
  <1>1. ASSUME NEW t \in Tabs, NEW ask \in Asks, Send(t, ask) PROVE IInv'
    BY <1>1, SendIInv
  <1>2. ASSUME NEW t \in Tabs, Load(t) \/ LoadFails(t) PROVE IInv'
    BY <1>2, LoadIInv
  <1>3. ASSUME NEW t \in Tabs, Handle(t) PROVE IInv'
    <2>1. CASE Browse(t)
      BY <2>1, BrowseIInv
    <2>2. CASE \E u \in Users : Login(t, u)
      BY <2>2, LoginIInv
    <2> QED
      BY <1>3, <2>1, <2>2, QuietHandlersIInv DEF Handle
  <1>4. ASSUME NEW t \in Tabs, Receive(t) PROVE IInv'
    BY <1>4, ReceiveIInv
  <1>5. ASSUME NEW n \in Tokens, Expire(n) PROVE IInv'
    BY <1>5, ExpireIInv
  <1>6. CASE BrowserRestart
    BY <1>6, BrowserRestartIInv
  <1>7. CASE UNCHANGED vars
    <2>1. UNCHANGED <<issued, rows, user, sid, csrf, page, pc, sent, acting, answer, misled, restarted, crossed>>
      BY <1>7 DEF vars, server, browser, traffic, history
    <2>2. TypeOK'
      BY <2>1 DEF IInv, TypeOK, Cookie, Page
    <2>3. Carried' = Carried /\ Forms' = Forms
      BY <2>1 DEF Carried, Forms
    <2>4. \A x \in Tabs : AnswerKind(x)'
      BY <2>1, <2>3, SameAnswers
    <2>5. ActsAsCarried' /\ NotMade' /\ PostsActForPage' /\ TokensAgree'
      BY <2>1 DEF IInv, ActsAsCarried, NotMade, PostsActForPage, TokensAgree
    <2> QED
      BY <2>1, <2>2, <2>3, <2>4, <2>5, NothingNew DEF IInv, TypeOK
  <1> QED
    BY <1>1, <1>2, <1>3, <1>4, <1>5, <1>6, <1>7 DEF Next

\* Browser and server keep the invariant, for any tabs, users and tokens.
THEOREM Invariance == Spec => []IInv
  BY InitIInv, NextIInv, PTL DEF Spec

\* Cookies, forms and rows hold tokens that were made, and every session is
\* somebody's.
THEOREM TypeCorrect == Spec => []TypeOK
  <1>1. IInv => TypeOK
    BY DEF IInv
  <1> QED
    BY <1>1, Invariance, PTL

\* CSRFProtect accepts a form for no other user than the one it was shown to,
\* until an answer brings cookies that had changed meanwhile.
THEOREM FormsActForTheirUser == Spec => []PostsActForPage
  <1>1. IInv => PostsActForPage
    BY DEF IInv
  <1> QED
    BY <1>1, Invariance, PTL

\* startSession's two cookies stay together until answers cross or the browser
\* is closed: while its session lives, the CSRF cookie is the session's token.
THEOREM TokensStayTogether == Spec => []TokensAgree
  <1>1. IInv => TokensAgree
    BY DEF IInv
  <1> QED
    BY <1>1, Invariance, PTL
=============================================================================
