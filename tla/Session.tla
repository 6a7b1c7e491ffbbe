------------------------------- MODULE Session -------------------------------
(***************************************************************************)
(* A signed-in browser: the interceptor of frontend/src/api/axios.js, which*)
(* refreshes the tokens when the server answers 401, once for all calls of *)
(* a tab, and the rotation of refresh tokens in auth.routes.js.  The tabs  *)
(* share localStorage, not isRefreshing.  Refresh tokens are numbered in   *)
(* the order they are issued.                                              *)
(***************************************************************************)
EXTENDS Naturals, FiniteSets

CONSTANTS
    Tab,
    Call,           \* requests that the pages make
    MaxToken,       \* bound: refresh tokens issued before the last refreshes
    MaxTroubles     \* bound: pages closed, logouts and changes of password

\* A browser has finitely many tabs.
ASSUME SessionAssumption ==
    MaxToken \in Nat \ {0} /\ IsFiniteSet(Tab) /\ MaxTroubles \in Nat

Token == 1 .. MaxToken + Cardinality(Tab)

VARIABLES
    store,          \* refresh_token in localStorage; 0: none
    page,           \* each tab is "open" or "closed"
    call,           \* each call: where it is, and its tab
    exchange,       \* the refresh of each tab: where it is, its token and the new one
    leaving,        \* the token each tab is logging out with; 0: none
    changing,       \* the token each tab has sent with a change of password; 0: none
    issued,         \* refresh tokens issued so far
    exchanged,      \* history: how often each token was exchanged for a new one
    revoked,        \* revoked_tokens: "no", "recent" or "old", past REPLAY_GRACE_MS
    cutoff,         \* the session-reset row: the tokens issued before it
    resetBy,        \* history: tokens whose replay ended every session
    accident,       \* history: tokens whose last use was abandoned, took too long or had no answer
    troubles        \* pages closed, logouts and changes of password so far

sessionVars == <<store, page, call, exchange, leaving, changing, issued, exchanged, revoked,
                 cutoff, resetBy, accident, troubles>>
serverVars == <<issued, exchanged, revoked, cutoff, resetBy>>
historyVars == <<accident, troubles>>

NoExchange == [at |-> "none", token |-> 0, new |-> 0]

SessionInit ==
    /\ store = 1 /\ issued = 1
    /\ page = [t \in Tab |-> "open"]
    /\ call = [c \in Call |-> [at |-> "new"]]
    /\ exchange = [t \in Tab |-> NoExchange]
    /\ leaving = [t \in Tab |-> 0] /\ changing = [t \in Tab |-> 0]
    /\ exchanged = [j \in Token |-> 0]
    /\ revoked = [j \in Token |-> "no"]
    /\ cutoff = 0
    /\ resetBy = {} /\ accident = {} /\ troubles = 0

InFlight(j) == \E t \in Tab : j \in {exchange[t].token, leaving[t], changing[t]}

-----------------------------------------------------------------------------
(* Calls of a page *)

Done == [at |-> "done"]
CallsOf(t) == {c \in Call : call[c].at \notin {"new", "done"} /\ call[c].tab = t}
Becomes(c, step) == call' = [call EXCEPT ![c].at = step]

Send(c, t) ==
    /\ call[c].at = "new" /\ page[t] = "open"
    /\ call' = [call EXCEPT ![c] = [at |-> "sent", tab |-> t]]
    /\ UNCHANGED <<store, page, exchange, leaving, changing, serverVars, historyVars>>

\* Any answer but a first 401, a network error included, goes to the caller.
Answer(c) ==
    /\ call[c].at \in {"sent", "resent"}
    /\ call' = [call EXCEPT ![c] = Done]
    /\ UNCHANGED <<store, page, exchange, leaving, changing, serverVars, historyVars>>

\* 401: the first call of the tab leads the refresh, the others queue behind it.
Unauthorized(c) ==
    LET t == call[c].tab IN
    /\ call[c].at = "sent" /\ store # 0
    /\ IF exchange[t] # NoExchange
       THEN Becomes(c, "queued") /\ UNCHANGED exchange
       ELSE /\ issued <= MaxToken
            /\ Becomes(c, "leading")
            /\ exchange' = [exchange EXCEPT ![t] = [at |-> "asked", token |-> store, new |-> 0]]
    /\ UNCHANGED <<store, page, leaving, changing, serverVars, historyVars>>

-----------------------------------------------------------------------------
(* POST /api/auth/refresh-token *)

Turns(t, step) == exchange' = [exchange EXCEPT ![t].at = step]

\* The revocation list and the reset row are read, in one SELECT.
ServerChecks(t) ==
    LET j == exchange[t].token IN
    /\ exchange[t].at = "asked"
    /\ \/ j > cutoff /\ revoked[j] = "no" /\ Turns(t, "checked") /\ UNCHANGED <<cutoff, resetBy>>
       \/ (j <= cutoff \/ revoked[j] = "recent")
          /\ Turns(t, "refused") /\ UNCHANGED <<cutoff, resetBy>>
       \/ j > cutoff /\ revoked[j] = "old" /\ Turns(t, "refused")
          /\ cutoff' = issued /\ resetBy' = resetBy \cup {j}
    /\ UNCHANGED <<store, page, call, leaving, changing, issued, exchanged, revoked, historyVars>>

\* Variant for mutation runs: as in logout, a duplicate of the key is no error.
RevocableAgain(j) == TRUE

\* jti is the primary key of revoked_tokens.
Revocable(j) == revoked[j] = "no"

\* The INSERT decides, whatever the SELECT has read: a duplicate is an error 500.
ServerRotates(t) ==
    LET j == exchange[t].token
        n == issued + 1
    IN  /\ exchange[t].at = "checked"
        /\ IF Revocable(j)
           THEN /\ revoked' = [revoked EXCEPT ![j] = "recent"]
                /\ issued' = n
                /\ exchanged' = [exchanged EXCEPT ![j] = @ + 1]
                /\ exchange' = [exchange EXCEPT ![t].at = "rotated", ![t].new = n]
           ELSE Turns(t, "refused") /\ UNCHANGED <<revoked, issued, exchanged>>
        /\ UNCHANGED <<store, page, call, leaving, changing, cutoff, resetBy, historyVars>>

\* The request or its answer is lost, or the account is disabled, or its password was
\* changed after the token was issued (a check after that of the revocation list; of
\* which tokens it is so is left open).
LoseAnswer(t) ==
    /\ exchange[t].at \in {"asked", "checked", "rotated"}
    /\ Turns(t, "refused")
    /\ UNCHANGED <<store, page, call, leaving, changing, serverVars, historyVars>>

-----------------------------------------------------------------------------
(* The interceptor, when the refresh is answered *)

\* Variant for mutation runs: of the two new tokens only the access token is stored.
RotatedDropped(t) == store

Rotated(t) == exchange[t].new

\* Variant for mutation runs: processQueue is not called.
ResumedLeader(t) == {c \in CallsOf(t) : call[c].at = "leading"}

Resumed(t) == {c \in CallsOf(t) : call[c].at \in {"leading", "queued"}}

StoreTokens(t) ==
    /\ page[t] = "open" /\ exchange[t].at = "rotated"
    /\ store' = Rotated(t)
    /\ call' = [c \in Call |-> IF c \in Resumed(t) THEN [call[c] EXCEPT !.at = "resent"]
                                                  ELSE call[c]]
    /\ exchange' = [exchange EXCEPT ![t] = NoExchange]
    /\ UNCHANGED <<page, leaving, changing, serverVars, historyVars>>

\* The calls of a page that is left end with it.
Unloaded(t) == [c \in Call |-> IF c \in CallsOf(t) THEN Done ELSE call[c]]

\* localStorage.clear() for all tabs, and this one goes to /login.
RefreshFails(t) ==
    /\ page[t] = "open" /\ exchange[t].at = "refused"
    /\ store' = 0
    /\ call' = Unloaded(t)
    /\ exchange' = [exchange EXCEPT ![t] = NoExchange]
    /\ leaving' = [leaving EXCEPT ![t] = 0] /\ changing' = [changing EXCEPT ![t] = 0]
    /\ UNCHANGED <<page, serverVars, historyVars>>

-----------------------------------------------------------------------------
(* Login, logout and a change of password *)

login(t) ==
    /\ page[t] = "open" /\ store = 0 /\ exchange[t] = NoExchange /\ issued < MaxToken
    /\ issued' = issued + 1 /\ store' = issued + 1
    /\ UNCHANGED <<page, call, exchange, leaving, changing, exchanged, revoked, cutoff, resetBy,
                   historyVars>>

\* POST /api/auth/logout revokes the token, ...
logoutPost(t) ==
    /\ page[t] = "open" /\ store # 0 /\ leaving[t] = 0 /\ troubles < MaxTroubles
    /\ troubles' = troubles + 1
    /\ leaving' = [leaving EXCEPT ![t] = store]
    /\ revoked' = [revoked EXCEPT ![store] = IF @ = "no" THEN "recent" ELSE @]
    /\ UNCHANGED <<store, page, call, exchange, changing, issued, exchanged, cutoff, resetBy,
                   accident>>

\* ... then localStorage is cleared, whatever another tab has stored since; also when
\* the POST was lost and nothing was revoked.
logoutClear(t) ==
    /\ page[t] = "open"
    /\ \/ leaving[t] # 0 /\ UNCHANGED troubles
       \/ leaving[t] = 0 /\ store # 0 /\ troubles < MaxTroubles /\ troubles' = troubles + 1
    /\ store' = 0
    /\ leaving' = [leaving EXCEPT ![t] = 0]
    /\ UNCHANGED <<page, call, exchange, changing, serverVars, accident>>

\* POST /api/auth/change-password revokes the refresh token sent with it, as logout does.
changePasswordPost(t) ==
    /\ page[t] = "open" /\ store # 0 /\ changing[t] = 0 /\ troubles < MaxTroubles
    /\ troubles' = troubles + 1
    /\ changing' = [changing EXCEPT ![t] = store]
    /\ revoked' = [revoked EXCEPT ![store] = IF @ = "no" THEN "recent" ELSE @]
    /\ UNCHANGED <<store, page, call, exchange, leaving, issued, exchanged, cutoff, resetBy,
                   accident>>

\* Only an answer of success clears localStorage, ...
changePasswordAnswered(t) ==
    /\ changing[t] # 0
    /\ store' = 0
    /\ changing' = [changing EXCEPT ![t] = 0]
    /\ UNCHANGED <<page, call, exchange, leaving, serverVars, historyVars>>

\* ... the page shows an error otherwise: the answer is lost, or logAudit has failed.
changePasswordLost(t) ==
    /\ changing[t] # 0
    /\ accident' = accident \cup {changing[t]}
    /\ changing' = [changing EXCEPT ![t] = 0]
    /\ UNCHANGED <<store, page, call, exchange, leaving, serverVars, troubles>>

-----------------------------------------------------------------------------
(* Time and accidents *)

\* REPLAY_GRACE_MS after a token was revoked; of one that nobody holds, it is all one.
GraceEnds(j) ==
    /\ revoked[j] = "recent" /\ (j = store \/ InFlight(j))
    /\ revoked' = [revoked EXCEPT ![j] = "old"]
    /\ accident' = IF InFlight(j) THEN accident \cup {j} ELSE accident
    /\ UNCHANGED <<store, page, call, exchange, leaving, changing, issued, exchanged, cutoff,
                   resetBy, troubles>>

Counted(t) == leaving[t] # 0 \/ changing[t] # 0

\* The browser ends the page; the server goes on with what it was asked.  A page that is
\* leaving or changing the password has been counted.
ClosePage(t) ==
    /\ page[t] = "open" /\ (troubles < MaxTroubles \/ Counted(t))
    /\ page' = [page EXCEPT ![t] = "closed"]
    /\ call' = Unloaded(t)
    /\ leaving' = [leaving EXCEPT ![t] = 0] /\ changing' = [changing EXCEPT ![t] = 0]
    /\ accident' = accident \cup ({exchange[t].token, leaving[t], changing[t]} \ {0})
    /\ troubles' = IF Counted(t) THEN troubles ELSE troubles + 1
    /\ UNCHANGED <<store, exchange, serverVars>>

\* Nobody waits for the answer any more; the page may be opened again.
OpenPage(t) ==
    /\ page[t] = "closed" /\ exchange[t].at \in {"none", "rotated", "refused"}
    /\ page' = [page EXCEPT ![t] = "open"]
    /\ exchange' = [exchange EXCEPT ![t] = NoExchange]
    /\ UNCHANGED <<store, call, leaving, changing, serverVars, historyVars>>

\* What a refresh waits for: one of them at a time is enabled.
RefreshStep(t) == ServerChecks(t) \/ ServerRotates(t) \/ StoreTokens(t) \/ RefreshFails(t)

SessionNext ==
    \/ \E c \in Call :
          \/ \E t \in Tab : Send(c, t)
          \/ Answer(c)
          \/ Unauthorized(c)
    \/ \E t \in Tab :
          \/ ServerChecks(t)
          \/ ServerRotates(t)
          \/ LoseAnswer(t)
          \/ StoreTokens(t)
          \/ RefreshFails(t)
          \/ login(t)
          \/ logoutPost(t)
          \/ logoutClear(t)
          \/ changePasswordPost(t)
          \/ changePasswordAnswered(t)
          \/ changePasswordLost(t)
          \/ ClosePage(t)
          \/ OpenPage(t)
    \/ \E j \in Token : GraceEnds(j)

-----------------------------------------------------------------------------

\* auth.routes.js:354-358 reads a replay past the grace as two parties holding the token,
\* since "A well-behaved client does not hold a token it exchanged minutes ago".  Of this
\* client's tabs that is so: unless an exchange, a logout or a change of password took
\* longer than the grace or its page was closed meanwhile, or a change of password was
\* not answered with success, none of them ends the sessions of its own account.
ResetOnlyAfterAccident == resetBy \subseteq accident

\* auth.routes.js:405-407: a refresh token is good for "a single use", although the
\* check of the revocation list and the INSERT into it are statements of their own.
ExchangedOnce == \A j \in Token : exchanged[j] <= 1

\* Every call of a page settles: none stays in the queue of a refresh that is over.
EveryCallSettles == \A c \in Call : call[c].at = "sent" ~> call[c].at = "done"

=============================================================================
