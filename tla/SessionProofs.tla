---------------------------- MODULE SessionProofs ----------------------------
(***************************************************************************)
(* Proofs about the sessions of a browser: a refresh token is exchanged    *)
(* once, and a browser ends its own sessions only after an accident.       *)
(***************************************************************************)
EXTENDS Session, FiniteSetTheorems, TLAPS

CallState == {[at |-> "new"], Done} \cup [at : {"sent", "leading", "queued", "resent"}, tab : Tab]

ExchangeState ==
    [at : {"none", "asked", "checked", "rotated", "refused"}, token : Nat, new : Nat]

\* Refreshes that may still be given a new token.
Asking == {t \in Tab : exchange[t].at \in {"asked", "checked"}}

SessionTypeOK ==
    /\ store \in Nat /\ issued \in Nat
    /\ page \in [Tab -> {"open", "closed"}]
    /\ call \in [Call -> CallState]
    /\ exchange \in [Tab -> ExchangeState]
    /\ leaving \in [Tab -> Nat] /\ changing \in [Tab -> Nat]
    /\ exchanged \in [Token -> Nat]
    /\ revoked \in [Token -> {"no", "recent", "old"}]

\* A page that is closed has no calls left, and left what it had under way in an accident.
ClosedPages ==
    /\ \A c \in Call : call[c].at \notin {"new", "done"} => page[call[c].tab] = "open"
    /\ \A t \in Tab : page[t] = "closed" => exchange[t].token \in accident \cup {0}

\* Tokens are numbered as they are issued; one not issued yet is not revoked.
TokensInRange ==
    /\ store <= issued
    /\ issued + Cardinality(Asking) <= MaxToken + Cardinality(Tab)
    /\ \A t \in Tab : exchange[t].token <= issued
    /\ \A t \in Tab : exchange[t].at # "none" => exchange[t].token # 0
    /\ \A j \in Token : issued < j => revoked[j] = "no"

\* The token that a rotation has made is good, and nobody but its answer has it.
NewTokens ==
    \A t \in Tab : exchange[t].at = "rotated" =>
       /\ exchange[t].new \in Token /\ exchange[t].new <= issued
       /\ revoked[exchange[t].new] = "no"
       /\ exchange[t].new # store
       /\ \A s \in Tab : exchange[s].token # exchange[t].new
       /\ \A s \in Tab : exchange[s].at = "rotated" /\ exchange[s].new = exchange[t].new => s = t

\* The token in localStorage is good unless somebody is just spending it.
StoredToken ==
    \A j \in Token : j = store /\ revoked[j] # "no" => InFlight(j) \/ j \in accident

SessionInv ==
    /\ SessionTypeOK
    /\ ClosedPages
    /\ TokensInRange
    /\ NewTokens
    /\ StoredToken
    /\ \A j \in Token : revoked[j] = "old" => j \in accident
    /\ \A j \in Token : exchanged[j] # 0 => revoked[j] # "no"
    /\ ExchangedOnce
    /\ ResetOnlyAfterAccident
-----------------------------------------------------------------------------

\* Every token that a tab holds or sends is one of the numbered ones.
LEMMA TokenFacts ==
  ASSUME SessionTypeOK, TokensInRange
  PROVE  /\ Cardinality(Tab) \in Nat /\ MaxToken \in Nat \ {0}
         /\ IsFiniteSet(Asking) /\ Cardinality(Asking) \in Nat
         /\ Cardinality(Asking) <= Cardinality(Tab)
         /\ issued <= MaxToken + Cardinality(Tab)
         /\ store # 0 => store \in Token
         /\ \A t \in Tab : exchange[t].at # "none" => exchange[t].token \in Token
  <1>1. IsFiniteSet(Tab) /\ MaxToken \in Nat \ {0}
    BY SessionAssumption
  <1>2. Asking \subseteq Tab
    BY DEF Asking
  <1>3. /\ IsFiniteSet(Asking) /\ Cardinality(Asking) <= Cardinality(Tab)
        /\ Cardinality(Asking) \in Nat /\ Cardinality(Tab) \in Nat
    BY <1>1, <1>2, FS_Subset, FS_CardinalityType
  <1>4. issued <= MaxToken + Cardinality(Tab)
    BY <1>1, <1>3 DEF TokensInRange, SessionTypeOK
  <1> HIDE DEF Asking
  <1>5. store # 0 => store \in Token
    BY <1>1, <1>3, <1>4 DEF TokensInRange, SessionTypeOK, Token
  <1>6. ASSUME NEW t \in Tab, exchange[t].at # "none"
        PROVE  exchange[t].token \in Token
    <2>1. exchange[t].token \in Nat /\ exchange[t].token # 0 /\ exchange[t].token <= issued
      BY <1>6 DEF TokensInRange, SessionTypeOK, ExchangeState
    <2> QED
      BY <1>1, <1>3, <1>4, <2>1 DEF SessionTypeOK, Token
  <1> QED
    BY <1>1, <1>3, <1>4, <1>5, <1>6

\* The bound on the tokens issued, as the refreshes that may still ask for one change.
LEMMA AskingShrinks ==
  ASSUME SessionTypeOK, TokensInRange, Asking' \subseteq Asking
  PROVE  Cardinality(Asking') \in Nat /\ Cardinality(Asking') <= Cardinality(Asking)
  BY TokenFacts, FS_Subset, FS_CardinalityType

LEMMA AskingLoses ==
  ASSUME SessionTypeOK, TokensInRange, NEW t \in Asking, Asking' \subseteq Asking \ {t}
  PROVE  Cardinality(Asking') \in Nat /\ Cardinality(Asking') + 1 <= Cardinality(Asking)
  <1>1. IsFiniteSet(Asking \ {t}) /\ Cardinality(Asking \ {t}) = Cardinality(Asking) - 1
    BY TokenFacts, FS_RemoveElement
  <1>2. Cardinality(Asking') \in Nat /\ Cardinality(Asking') <= Cardinality(Asking \ {t})
    BY <1>1, FS_Subset, FS_CardinalityType
  <1> QED
    BY <1>1, <1>2, TokenFacts

LEMMA AskingBound ==
  Cardinality(Asking') \in Nat /\ Cardinality(Asking') <= Cardinality(Tab)
  /\ Cardinality(Tab) \in Nat
  <1>1. Asking' \subseteq Tab
    BY DEF Asking
  <1> QED
    BY <1>1, SessionAssumption, FS_Subset, FS_CardinalityType

\* What the calls of a page become, and whether a page has any.
LEMMA UnloadedFacts ==
  ASSUME SessionTypeOK, NEW t \in Tab, call' = Unloaded(t)
  PROVE  /\ call' \in [Call -> CallState]
         /\ \A c \in Call : call'[c].at \notin {"new", "done"} =>
               call'[c] = call[c] /\ call[c].tab # t
  <1>1. ASSUME NEW c \in Call
        PROVE  /\ call'[c] = IF c \in CallsOf(t) THEN Done ELSE call[c]
               /\ call'[c] \in CallState
    BY DEF Unloaded, SessionTypeOK, CallState
  <1>2. Done.at = "done"
    BY DEF Done
  <1> QED
    BY <1>1, <1>2 DEF Unloaded, CallsOf
-----------------------------------------------------------------------------
(* The steps *)

\* Calls come and go as long as they are of open pages.
LEMMA CallsMove ==
  ASSUME SessionInv, call' \in [Call -> CallState],
         \A c \in Call : call'[c].at \notin {"new", "done"} => page[call'[c].tab] = "open",
         UNCHANGED <<store, page, exchange, leaving, changing, serverVars, historyVars>>
  PROVE  SessionInv'
  <1> USE DEF SessionInv, serverVars, historyVars
  <1>1. SessionTypeOK'
    BY DEF SessionTypeOK
  <1>2. ClosedPages'
    BY DEF ClosedPages
  <1>3. TokensInRange'
    <2>1. Asking' = Asking
      BY DEF Asking
    <2> QED
      BY <2>1 DEF TokensInRange
  <1>4. NewTokens' /\ StoredToken'
    BY DEF NewTokens, StoredToken, InFlight
  <1> QED
    BY <1>1, <1>2, <1>3, <1>4 DEF ExchangedOnce, ResetOnlyAfterAccident

LEMMA SendStep ==
  ASSUME SessionInv, NEW c \in Call, NEW t \in Tab, Send(c, t)
  PROVE  SessionInv'
  <1>1. call' \in [Call -> CallState]
    BY DEF Send, SessionInv, SessionTypeOK, CallState
  <1>2. \A d \in Call : call'[d].at \notin {"new", "done"} => page[call'[d].tab] = "open"
    BY DEF Send, SessionInv, SessionTypeOK, ClosedPages
  <1> QED
    BY <1>1, <1>2, CallsMove DEF Send

LEMMA AnswerStep ==
  ASSUME SessionInv, NEW c \in Call, Answer(c)
  PROVE  SessionInv'
  <1>1. call' \in [Call -> CallState]
    BY DEF Answer, SessionInv, SessionTypeOK, CallState
  <1>2. \A d \in Call : call'[d].at \notin {"new", "done"} => page[call'[d].tab] = "open"
    BY DEF Answer, SessionInv, SessionTypeOK, ClosedPages, Done
  <1> QED
    BY <1>1, <1>2, CallsMove DEF Answer

\* A call that moves on is still of the page it was of.
LEMMA BecomesFacts ==
  ASSUME SessionTypeOK, NEW c \in Call, call[c].at \in {"sent", "leading", "queued", "resent"},
         NEW step \in {"sent", "leading", "queued", "resent"}, Becomes(c, step)
  PROVE  /\ call' \in [Call -> CallState]
         /\ \A d \in Call : call'[d].at \notin {"new", "done"} =>
               call[d].at \notin {"new", "done"} /\ call'[d].tab = call[d].tab
  <1> DEFINE row == [at |-> step, tab |-> call[c].tab]
  <1>1. call[c] \in [at : {"sent", "leading", "queued", "resent"}, tab : Tab]
    BY DEF SessionTypeOK, CallState, Done
  <1>2. row \in CallState /\ row.at = step /\ row.tab = call[c].tab
    BY <1>1 DEF CallState
  <1>3. [call[c] EXCEPT !.at = step] = row
    BY <1>1
  <1>4. call' = [call EXCEPT ![c] = row]
    BY <1>3 DEF Becomes
  <1> HIDE DEF row
  <1> QED
    BY <1>2, <1>4 DEF SessionTypeOK

LEMMA UnauthorizedStep ==
  ASSUME SessionInv, NEW c \in Call, Unauthorized(c)
  PROVE  SessionInv'
  <1>1. call[c].at = "sent" /\ call[c] \in [at : {"sent"}, tab : Tab]
    BY DEF Unauthorized, SessionInv, SessionTypeOK, CallState, Done
  <1>2. PICK t \in Tab : t = call[c].tab
    BY <1>1
  <1>3. page[t] = "open"
    BY <1>1, <1>2 DEF SessionInv, ClosedPages
  <1>4. CASE exchange[t] # NoExchange
    <2>1. Becomes(c, "queued") /\ UNCHANGED <<store, page, exchange, leaving, changing, serverVars, historyVars>>
      BY <1>2, <1>4 DEF Unauthorized
    <2> QED
      BY <1>1, <2>1, BecomesFacts, CallsMove DEF SessionInv, ClosedPages
  <1>5. CASE exchange[t] = NoExchange
    <2> DEFINE row == [at |-> "asked", token |-> store, new |-> 0]
    <2>1. /\ issued <= MaxToken /\ Becomes(c, "leading") /\ store # 0
          /\ exchange' = [exchange EXCEPT ![t] = row]
          /\ UNCHANGED <<store, page, leaving, changing, serverVars, historyVars>>
      BY <1>2, <1>5 DEF Unauthorized
    <2>2. row \in ExchangeState /\ row.at = "asked" /\ row.token = store
      BY DEF SessionInv, SessionTypeOK, ExchangeState
    <2> HIDE DEF row
    <2>3. exchange'[t] = row /\ \A s \in Tab \ {t} : exchange'[s] = exchange[s]
      BY <2>1 DEF SessionInv, SessionTypeOK
    <2>4. exchange[t].token = 0 /\ exchange[t].at = "none"
      BY <1>5 DEF NoExchange
    <2>5. SessionTypeOK'
      BY <1>1, <2>1, <2>2, BecomesFacts DEF SessionInv, SessionTypeOK, serverVars
    <2>6. ClosedPages'
      BY <1>1, <1>3, <2>1, <2>3, BecomesFacts DEF SessionInv, ClosedPages, historyVars
    <2>7. TokensInRange'
      <3>1. issued' + Cardinality(Asking') <= MaxToken + Cardinality(Tab)
        BY <2>1, AskingBound, SessionAssumption DEF SessionInv, SessionTypeOK, serverVars
      <3> QED
        BY <2>1, <2>2, <2>3, <3>1 DEF SessionInv, TokensInRange, serverVars
    <2>8. NewTokens'
      BY <2>1, <2>2, <2>3 DEF SessionInv, NewTokens, serverVars
    <2>9. StoredToken'
      <3>1. \A j \in Token : InFlight(j) => InFlight(j)'
        <4> SUFFICES ASSUME NEW j \in Token, InFlight(j) PROVE InFlight(j)'
          OBVIOUS
        <4>1. j # 0
          BY SessionAssumption, AskingBound DEF Token
        <4> QED
          BY <2>1, <2>3, <2>4, <4>1 DEF InFlight
      <3> QED
        BY <2>1, <3>1 DEF SessionInv, StoredToken, serverVars, historyVars
    <2> QED
      BY <2>1, <2>5, <2>6, <2>7, <2>8, <2>9
         DEF SessionInv, ExchangedOnce, ResetOnlyAfterAccident, serverVars, historyVars
  <1> QED
    BY <1>4, <1>5
\* A refresh that goes on without a new token keeps the token it is about.
LEMMA TurnsFacts ==
  ASSUME SessionInv, NEW t \in Tab, NEW step \in {"checked", "refused"},
         exchange[t].at # "none", step = "checked" => exchange[t].at = "asked", Turns(t, step),
         UNCHANGED <<store, page, call, leaving, changing, issued, exchanged, revoked, historyVars>>
  PROVE  SessionTypeOK' /\ ClosedPages' /\ TokensInRange' /\ NewTokens' /\ StoredToken'
  <1> DEFINE row == [at |-> step, token |-> exchange[t].token, new |-> exchange[t].new]
  <1>1. exchange[t] \in ExchangeState
    BY DEF SessionInv, SessionTypeOK
  <1>2. row \in ExchangeState /\ row.at = step /\ row.token = exchange[t].token
    BY <1>1 DEF ExchangeState
  <1>3. [exchange[t] EXCEPT !.at = step] = row
    BY <1>1 DEF ExchangeState
  <1>4. exchange' = [exchange EXCEPT ![t] = row]
    BY <1>3 DEF Turns
  <1> HIDE DEF row
  <1>5. exchange'[t] = row /\ \A s \in Tab \ {t} : exchange'[s] = exchange[s]
    BY <1>4 DEF SessionInv, SessionTypeOK
  <1>6. \A s \in Tab : exchange'[s].token = exchange[s].token
    BY <1>2, <1>5
  <1>7. SessionTypeOK'
    BY <1>2, <1>4 DEF SessionInv, SessionTypeOK
  <1>8. ClosedPages'
    BY <1>6 DEF SessionInv, ClosedPages, historyVars
  <1>9. TokensInRange'
    <2>1. Asking' \subseteq Asking
      BY <1>2, <1>5 DEF Asking
    <2>2. issued' + Cardinality(Asking') <= MaxToken + Cardinality(Tab)
      BY <2>1, AskingShrinks, AskingBound, TokenFacts
         DEF SessionInv, SessionTypeOK, TokensInRange
    <2> QED
      BY <1>2, <1>5, <1>6, <2>2 DEF SessionInv, TokensInRange
  <1>10. NewTokens'
    BY <1>2, <1>5, <1>6 DEF SessionInv, NewTokens
  <1>11. StoredToken'
    BY <1>6 DEF SessionInv, StoredToken, InFlight, historyVars
  <1> QED
    BY <1>7, <1>8, <1>9, <1>10, <1>11

LEMMA ServerChecksStep ==
  ASSUME SessionInv, NEW t \in Tab, ServerChecks(t)
  PROVE  SessionInv'
  <1>1. /\ exchange[t].at = "asked"
        /\ UNCHANGED <<store, page, call, leaving, changing, issued, exchanged, revoked, historyVars>>
    BY DEF ServerChecks
  <1>2. PICK step \in {"checked", "refused"} : Turns(t, step)
    BY DEF ServerChecks
  <1>3. SessionTypeOK' /\ ClosedPages' /\ TokensInRange' /\ NewTokens' /\ StoredToken'
    BY <1>1, <1>2, TurnsFacts
  <1>4. exchange[t].token \in Token
    BY <1>1, TokenFacts DEF SessionInv
  <1>5. resetBy' \subseteq resetBy \cup {exchange[t].token}
        /\ (exchange[t].token \in resetBy' => exchange[t].token \in resetBy
                                              \/ revoked[exchange[t].token] = "old")
    BY DEF ServerChecks
  <1>6. ResetOnlyAfterAccident'
    BY <1>1, <1>4, <1>5 DEF SessionInv, ResetOnlyAfterAccident, historyVars
  <1> QED
    BY <1>1, <1>3, <1>6 DEF SessionInv, ExchangedOnce, historyVars

LEMMA LoseAnswerStep ==
  ASSUME SessionInv, NEW t \in Tab, LoseAnswer(t)
  PROVE  SessionInv'
  <1>1. /\ exchange[t].at # "none" /\ Turns(t, "refused")
        /\ UNCHANGED <<store, page, call, leaving, changing, serverVars, historyVars>>
    BY DEF LoseAnswer
  <1>2. SessionTypeOK' /\ ClosedPages' /\ TokensInRange' /\ NewTokens' /\ StoredToken'
    BY <1>1, TurnsFacts DEF serverVars
  <1> QED
    BY <1>1, <1>2 DEF SessionInv, ExchangedOnce, ResetOnlyAfterAccident, serverVars, historyVars

LEMMA ServerRotatesStep ==
  ASSUME SessionInv, NEW t \in Tab, ServerRotates(t)
  PROVE  SessionInv'
  <1> DEFINE n == issued + 1
  <1>1. PICK j \in Token : j = exchange[t].token
    BY TokenFacts DEF ServerRotates, SessionInv
  <1>2. /\ exchange[t].at = "checked"
        /\ UNCHANGED <<store, page, call, leaving, changing, cutoff, resetBy, historyVars>>
    BY DEF ServerRotates
  <1>3. CASE ~Revocable(j)
    <2>1. Turns(t, "refused") /\ UNCHANGED <<revoked, issued, exchanged>>
      BY <1>1, <1>3 DEF ServerRotates
    <2>2. SessionTypeOK' /\ ClosedPages' /\ TokensInRange' /\ NewTokens' /\ StoredToken'
      BY <1>2, <2>1, TurnsFacts
    <2> QED
      BY <1>2, <2>1, <2>2 DEF SessionInv, ExchangedOnce, ResetOnlyAfterAccident, historyVars
  <1>4. CASE Revocable(j)
    <2> DEFINE row == [at |-> "rotated", token |-> j, new |-> n]
    <2>1. /\ revoked[j] = "no"
          /\ revoked' = [revoked EXCEPT ![j] = "recent"]
          /\ issued' = n
          /\ exchanged' = [exchanged EXCEPT ![j] = exchanged[j] + 1]
          /\ exchange' = [exchange EXCEPT ![t].at = "rotated", ![t].new = n]
      BY <1>1, <1>4 DEF ServerRotates, Revocable
    <2>2. exchange[t] \in ExchangeState /\ n \in Nat /\ j \in Nat
      BY <1>1 DEF SessionInv, SessionTypeOK, ExchangeState
    <2>3. row \in ExchangeState /\ row.at = "rotated" /\ row.token = j /\ row.new = n
      BY <2>2 DEF ExchangeState
    <2>4. exchange' = [exchange EXCEPT ![t] = row]
      <3>1. PICK e \in ExchangeState : e = exchange[t]
        BY <2>2
      <3>2. PICK m : m = n
        OBVIOUS
      <3>3. [[e EXCEPT !.at = "rotated"] EXCEPT !.new = m] = [at |-> "rotated", token |-> e.token, new |-> m]
        <4>1. [e EXCEPT !.at = "rotated"] = [at |-> "rotated", token |-> e.token, new |-> e.new]
          BY <3>1 DEF ExchangeState
        <4>2. PICK f \in ExchangeState : f = [at |-> "rotated", token |-> e.token, new |-> e.new]
          BY <3>1 DEF ExchangeState
        <4>3. [f EXCEPT !.new = m] = [at |-> "rotated", token |-> e.token, new |-> m]
          BY <4>2 DEF ExchangeState
        <4> QED
          BY <4>1, <4>2, <4>3
      <3>4. exchange' = [exchange EXCEPT ![t] = [[exchange[t] EXCEPT !.at = "rotated"] EXCEPT !.new = m]]
        BY <2>1, <3>2 DEF SessionInv, SessionTypeOK
      <3> QED
        BY <1>1, <3>1, <3>2, <3>3, <3>4
    <2> HIDE DEF row
    <2>5. exchange'[t] = row /\ \A s \in Tab \ {t} : exchange'[s] = exchange[s]
      BY <2>4 DEF SessionInv, SessionTypeOK
    <2>6. \A s \in Tab : exchange'[s].token = exchange[s].token
      BY <1>1, <2>3, <2>5
    <2>7. revoked'[j] = "recent" /\ \A i \in Token \ {j} : revoked'[i] = revoked[i]
      BY <2>1 DEF SessionInv, SessionTypeOK
    <2>8. issued + 1 + Cardinality(Asking') <= MaxToken + Cardinality(Tab)
          /\ Cardinality(Asking') \in Nat
      <3>1. t \in Asking /\ Asking' \subseteq Asking \ {t}
        BY <1>2, <2>3, <2>5 DEF Asking
      <3>2. Cardinality(Asking') \in Nat /\ Cardinality(Asking') + 1 <= Cardinality(Asking)
        BY <3>1, AskingLoses DEF SessionInv
      <3> QED
        BY <3>2, TokenFacts DEF SessionInv, SessionTypeOK, TokensInRange
    <2>9. n \in Token /\ issued \in Nat
      BY <2>8, AskingBound, SessionAssumption DEF SessionInv, SessionTypeOK, Token
    <2>10. revoked[n] = "no" /\ n # j
      BY <1>1, <2>9 DEF SessionInv, TokensInRange, SessionTypeOK, Token, ExchangeState
    <2>11. SessionTypeOK'
      <3>1. exchange' \in [Tab -> ExchangeState]
        BY <2>3, <2>4 DEF SessionInv, SessionTypeOK
      <3>2. exchanged' \in [Token -> Nat]
        BY <2>1 DEF SessionInv, SessionTypeOK
      <3>3. revoked' \in [Token -> {"no", "recent", "old"}]
        BY <2>1 DEF SessionInv, SessionTypeOK
      <3>4. issued' \in Nat
        BY <2>1, <2>2
      <3> QED
        BY <1>2, <3>1, <3>2, <3>3, <3>4 DEF SessionInv, SessionTypeOK
    <2>12. ClosedPages'
      BY <1>2, <2>6 DEF SessionInv, ClosedPages, historyVars
    <2>13. TokensInRange'
      <3>1. store' <= issued' /\ \A s \in Tab : exchange'[s].token <= issued'
        BY <1>2, <2>1, <2>6, <2>9 DEF SessionInv, TokensInRange, SessionTypeOK, ExchangeState
      <3>2. \A s \in Tab : exchange'[s].at # "none" => exchange'[s].token # 0
        BY <1>2, <2>5, <2>6 DEF SessionInv, TokensInRange
      <3>3. \A i \in Token : issued' < i => revoked'[i] = "no"
        BY <1>1, <2>1, <2>7, <2>9 DEF SessionInv, TokensInRange, SessionTypeOK, ExchangeState, Token
      <3> QED
        BY <2>1, <2>8, <3>1, <3>2, <3>3 DEF TokensInRange
    <2>14. NewTokens'
      <3>1. store # n /\ \A s \in Tab : exchange[s].token # n
        BY <2>9 DEF SessionInv, TokensInRange, SessionTypeOK, ExchangeState
      <3>2. \A s \in Tab \ {t} : exchange[s].at = "rotated" =>
               exchange[s].new \in Token /\ exchange[s].new <= issued /\ exchange[s].new # n
               /\ exchange[s].new # j
        BY <1>1, <2>9 DEF SessionInv, NewTokens, Token
      <3> HIDE DEF n
      <3>3. issued' = n /\ issued <= n
        BY <2>1, <2>9 DEF n
      <3>4. \A s \in Tab : exchange'[s].at = "rotated" =>
               /\ exchange'[s].new \in Token /\ exchange'[s].new <= issued'
               /\ exchange'[s].new # store' /\ revoked'[exchange'[s].new] = "no"
        <4> SUFFICES ASSUME NEW s \in Tab, exchange'[s].at = "rotated"
                     PROVE  /\ exchange'[s].new \in Token /\ exchange'[s].new <= issued'
                            /\ exchange'[s].new # store' /\ revoked'[exchange'[s].new] = "no"
          OBVIOUS
        <4>1. CASE s = t
          BY <1>2, <2>3, <2>5, <2>7, <2>9, <2>10, <3>1, <3>3, <4>1 DEF SessionInv, SessionTypeOK, n
        <4>2. CASE s # t
          <5>1. exchange'[s] = exchange[s]
            BY <2>5, <4>2
          <5>2. exchange[s].new <= issued'
            BY <2>9, <3>2, <3>3, <5>1, <4>2 DEF Token, n
          <5> QED
            BY <1>2, <2>7, <3>2, <4>2, <5>1, <5>2 DEF SessionInv, NewTokens
        <4> QED
          BY <4>1, <4>2
      <3>5. \A s, r \in Tab : exchange'[s].at = "rotated" => exchange'[r].token # exchange'[s].new
        BY <2>3, <2>5, <2>6, <3>1 DEF SessionInv, NewTokens
      <3>6. \A s, r \in Tab : exchange'[s].at = "rotated" /\ exchange'[r].at = "rotated"
                                 /\ exchange'[r].new = exchange'[s].new => r = s
        BY <2>3, <2>5, <3>2 DEF SessionInv, NewTokens
      <3> QED
        BY <3>4, <3>5, <3>6 DEF NewTokens
    <2>15. StoredToken'
      <3>1. InFlight(j)'
        BY <1>1, <2>6 DEF InFlight
      <3>2. \A i \in Token : InFlight(i) => InFlight(i)'
        BY <1>2, <2>6 DEF InFlight
      <3> QED
        BY <1>2, <2>7, <3>1, <3>2 DEF SessionInv, StoredToken, historyVars
    <2>16. ExchangedOnce' /\ \A i \in Token : exchanged'[i] # 0 => revoked'[i] # "no"
      BY <2>1, <2>7 DEF SessionInv, SessionTypeOK, ExchangedOnce
    <2>17. \A i \in Token : revoked'[i] = "old" => i \in accident'
      BY <1>2, <2>7 DEF SessionInv, historyVars
    <2> QED
      BY <1>2, <2>11, <2>12, <2>13, <2>14, <2>15, <2>16, <2>17
         DEF SessionInv, ResetOnlyAfterAccident, historyVars
  <1> QED
    BY <1>3, <1>4
\* The calls that a refresh resumes are still of the page they were of.
LEMMA ResumedFacts ==
  ASSUME SessionTypeOK, NEW t \in Tab,
         call' = [c \in Call |-> IF c \in Resumed(t) THEN [call[c] EXCEPT !.at = "resent"]
                                                    ELSE call[c]]
  PROVE  /\ call' \in [Call -> CallState]
         /\ \A c \in Call : call'[c].at \notin {"new", "done"} =>
               call[c].at \notin {"new", "done"} /\ call'[c].tab = call[c].tab
  <1>1. ASSUME NEW c \in Call, c \in Resumed(t)
        PROVE  /\ call[c].at \notin {"new", "done"}
               /\ call'[c] = [at |-> "resent", tab |-> call[c].tab]
               /\ call'[c] \in CallState
    <2>1. call[c].at \in {"leading", "queued"}
      BY <1>1 DEF Resumed
    <2>2. call[c] \in [at : {"leading", "queued"}, tab : Tab]
      BY <2>1 DEF SessionTypeOK, CallState, Done
    <2>3. [call[c] EXCEPT !.at = "resent"] = [at |-> "resent", tab |-> call[c].tab]
      BY <2>2
    <2>4. [at |-> "resent", tab |-> call[c].tab] \in CallState
      BY <2>2 DEF CallState
    <2> QED
      BY <1>1, <2>1, <2>3, <2>4
  <1>2. \A c \in Call : c \notin Resumed(t) => call'[c] = call[c]
    OBVIOUS
  <1>3. DOMAIN call' = Call /\ call' = [c \in Call |-> call'[c]]
    OBVIOUS
  <1>4. \A c \in Call : call'[c] \in CallState
    BY <1>1, <1>2 DEF SessionTypeOK
  <1> QED
    BY <1>1, <1>2, <1>3, <1>4

\* A refresh that ends leaves its tab without a token.
LEMMA EndedFacts ==
  ASSUME SessionTypeOK, TokensInRange, NEW t \in Tab,
         exchange' = [exchange EXCEPT ![t] = NoExchange]
  PROVE  /\ exchange' \in [Tab -> ExchangeState]
         /\ exchange'[t].at = "none" /\ exchange'[t].token = 0
         /\ \A s \in Tab \ {t} : exchange'[s] = exchange[s]
         /\ Cardinality(Asking') \in Nat /\ Cardinality(Asking') <= Cardinality(Asking)
  <1>1. NoExchange \in ExchangeState /\ NoExchange.at = "none" /\ NoExchange.token = 0
    BY DEF NoExchange, ExchangeState
  <1>2. /\ exchange' \in [Tab -> ExchangeState] /\ exchange'[t] = NoExchange
        /\ \A s \in Tab \ {t} : exchange'[s] = exchange[s]
    BY <1>1 DEF SessionTypeOK
  <1>3. Asking' \subseteq Asking
    BY <1>1, <1>2 DEF Asking
  <1> QED
    BY <1>1, <1>2, <1>3, AskingShrinks

LEMMA StoreTokensStep ==
  ASSUME SessionInv, NEW t \in Tab, StoreTokens(t)
  PROVE  SessionInv'
  <1>1. PICK n \in Token : n = exchange[t].new
    BY DEF StoreTokens, SessionInv, NewTokens
  <1>2. /\ exchange[t].at = "rotated" /\ store' = n /\ n \in Nat
        /\ exchange' = [exchange EXCEPT ![t] = NoExchange]
        /\ UNCHANGED <<page, leaving, changing, serverVars, historyVars>>
    BY <1>1 DEF StoreTokens, Rotated, Token
  <1>3. /\ exchange' \in [Tab -> ExchangeState]
        /\ exchange'[t].at = "none" /\ exchange'[t].token = 0
        /\ \A s \in Tab \ {t} : exchange'[s] = exchange[s]
        /\ Cardinality(Asking') \in Nat /\ Cardinality(Asking') <= Cardinality(Asking)
    BY <1>2, EndedFacts DEF SessionInv
  <1>4. /\ n <= issued /\ revoked[n] = "no" /\ n # 0
        /\ \A s \in Tab : exchange[s].token # n
        /\ \A s \in Tab \ {t} : exchange[s].at = "rotated" => exchange[s].new # n
    BY <1>1, <1>2 DEF SessionInv, NewTokens, Token
  <1>5. /\ call' \in [Call -> CallState]
        /\ \A c \in Call : call'[c].at \notin {"new", "done"} =>
              call[c].at \notin {"new", "done"} /\ call'[c].tab = call[c].tab
    BY ResumedFacts DEF StoreTokens, SessionInv
  <1>6. SessionTypeOK'
    BY <1>2, <1>3, <1>5 DEF SessionInv, SessionTypeOK, serverVars
  <1>7. ClosedPages'
    BY <1>2, <1>3, <1>5 DEF SessionInv, ClosedPages, historyVars
  <1>8. TokensInRange'
    <2>1. issued' + Cardinality(Asking') <= MaxToken + Cardinality(Tab)
      BY <1>2, <1>3, TokenFacts DEF SessionInv, SessionTypeOK, TokensInRange, serverVars
    <2>2. issued \in Nat
      BY DEF SessionInv, SessionTypeOK
    <2> QED
      BY <1>2, <1>3, <1>4, <2>1, <2>2 DEF SessionInv, TokensInRange, serverVars
  <1>9. NewTokens'
    <2>1. \A s \in Tab : exchange'[s].at = "rotated" => s # t /\ exchange'[s] = exchange[s]
      BY <1>3
    <2>2. \A s \in Tab : exchange'[s].at = "rotated" =>
             \A r \in Tab : exchange'[r].token # exchange'[s].new
      <3> SUFFICES ASSUME NEW s \in Tab, NEW r \in Tab, exchange'[s].at = "rotated"
                   PROVE  exchange'[r].token # exchange'[s].new
        OBVIOUS
      <3>1. exchange[s].new \in Token /\ exchange[s].new # 0
        BY <2>1 DEF SessionInv, NewTokens, Token
      <3> QED
        BY <1>3, <2>1, <3>1 DEF SessionInv, NewTokens
    <2> QED
      BY <1>2, <1>4, <2>1, <2>2 DEF SessionInv, NewTokens, serverVars
  <1>10. StoredToken'
    BY <1>2, <1>4 DEF StoredToken, serverVars
  <1> QED
    BY <1>2, <1>6, <1>7, <1>8, <1>9, <1>10
       DEF SessionInv, ExchangedOnce, ResetOnlyAfterAccident, serverVars, historyVars

LEMMA RefreshFailsStep ==
  ASSUME SessionInv, NEW t \in Tab, RefreshFails(t)
  PROVE  SessionInv'
  <1>1. /\ store' = 0 /\ call' = Unloaded(t)
        /\ exchange' = [exchange EXCEPT ![t] = NoExchange]
        /\ leaving' = [leaving EXCEPT ![t] = 0] /\ changing' = [changing EXCEPT ![t] = 0]
        /\ UNCHANGED <<page, serverVars, historyVars>>
    BY DEF RefreshFails
  <1>2. /\ exchange' \in [Tab -> ExchangeState]
        /\ exchange'[t].at = "none" /\ exchange'[t].token = 0
        /\ \A s \in Tab \ {t} : exchange'[s] = exchange[s]
        /\ Cardinality(Asking') \in Nat /\ Cardinality(Asking') <= Cardinality(Asking)
    BY <1>1, EndedFacts DEF SessionInv
  <1>3. SessionTypeOK'
    BY <1>1, <1>2, UnloadedFacts DEF SessionInv, SessionTypeOK, serverVars
  <1>4. ClosedPages'
    BY <1>1, <1>2, UnloadedFacts DEF SessionInv, ClosedPages, historyVars
  <1>5. TokensInRange'
    <2>1. issued' + Cardinality(Asking') <= MaxToken + Cardinality(Tab)
      BY <1>1, <1>2, TokenFacts DEF SessionInv, SessionTypeOK, TokensInRange, serverVars
    <2>2. issued \in Nat
      BY DEF SessionInv, SessionTypeOK
    <2> QED
      BY <1>1, <1>2, <2>1, <2>2 DEF SessionInv, TokensInRange, serverVars
  <1>6. NewTokens'
    <2>1. \A s \in Tab : exchange[s].at = "rotated" => exchange[s].new # 0
      BY DEF SessionInv, NewTokens, Token
    <2> QED
      BY <1>1, <1>2, <2>1 DEF SessionInv, NewTokens, serverVars
  <1>7. StoredToken'
    BY <1>1 DEF StoredToken, Token, serverVars
  <1> QED
    BY <1>1, <1>3, <1>4, <1>5, <1>6, <1>7
       DEF SessionInv, ExchangedOnce, ResetOnlyAfterAccident, serverVars, historyVars
LEMMA LoginStep ==
  ASSUME SessionInv, NEW t \in Tab, login(t)
  PROVE  SessionInv'
  <1> DEFINE n == issued + 1
  <1>1. /\ issued < MaxToken /\ issued' = n /\ store' = n /\ store = 0
        /\ UNCHANGED <<page, call, exchange, leaving, changing, exchanged, revoked, cutoff, resetBy, historyVars>>
    BY DEF login
  <1>2. issued \in Nat /\ n \in Nat /\ MaxToken \in Nat \ {0}
    BY SessionAssumption DEF SessionInv, SessionTypeOK
  <1>3. /\ Asking' = Asking /\ Cardinality(Asking) \in Nat /\ Cardinality(Tab) \in Nat
        /\ Cardinality(Asking) <= Cardinality(Tab)
    BY <1>1, TokenFacts DEF SessionInv, Asking
  <1>4. n \in Token
    BY <1>1, <1>2, <1>3 DEF Token
  <1>5. revoked[n] = "no"
    BY <1>2, <1>4 DEF SessionInv, TokensInRange
  <1>6. SessionTypeOK'
    BY <1>1, <1>2 DEF SessionInv, SessionTypeOK
  <1>7. ClosedPages'
    BY <1>1 DEF SessionInv, ClosedPages, historyVars
  <1>8. TokensInRange'
    <2>1. \A s \in Tab : exchange[s].token \in Nat /\ exchange[s].token <= n
      BY <1>2 DEF SessionInv, TokensInRange, SessionTypeOK, ExchangeState
    <2>2. \A j \in Token : n < j => revoked[j] = "no"
      BY <1>2, <1>3 DEF SessionInv, TokensInRange, Token
    <2>3. n + Cardinality(Asking) <= MaxToken + Cardinality(Tab)
      BY <1>1, <1>2, <1>3
    <2>4. n <= n
      BY <1>2
    <2> HIDE DEF n
    <2> QED
      BY <1>1, <1>3, <2>1, <2>2, <2>3, <2>4 DEF SessionInv, TokensInRange
  <1>9. NewTokens'
    <2>1. \A s \in Tab : exchange[s].at = "rotated" =>
             exchange[s].new # n /\ exchange[s].new <= n
      BY <1>2, <1>3, <1>4 DEF SessionInv, NewTokens, Token
    <2> HIDE DEF n
    <2> QED
      BY <1>1, <2>1 DEF SessionInv, NewTokens
  <1>10. StoredToken'
    BY <1>1, <1>5 DEF StoredToken
  <1> QED
    BY <1>1, <1>6, <1>7, <1>8, <1>9, <1>10
       DEF SessionInv, ExchangedOnce, ResetOnlyAfterAccident, historyVars

LEMMA LogoutPostStep ==
  ASSUME SessionInv, NEW t \in Tab, logoutPost(t)
  PROVE  SessionInv'
  <1>1. PICK j \in Token : j = store
    BY TokenFacts DEF logoutPost, SessionInv
  <1>2. /\ leaving' = [leaving EXCEPT ![t] = j] /\ leaving[t] = 0
        /\ revoked' = [revoked EXCEPT ![j] = IF @ = "no" THEN "recent" ELSE @]
        /\ UNCHANGED <<store, page, call, exchange, changing, issued, exchanged, cutoff, resetBy, accident>>
    BY <1>1 DEF logoutPost
  <1>3. /\ revoked'[j] # "no" /\ (revoked'[j] = "old" => revoked[j] = "old")
        /\ \A i \in Token \ {j} : revoked'[i] = revoked[i]
        /\ revoked' \in [Token -> {"no", "recent", "old"}]
    BY <1>2 DEF SessionInv, SessionTypeOK
  <1>4. leaving'[t] = j /\ j # 0 /\ \A s \in Tab \ {t} : leaving'[s] = leaving[s]
    BY <1>1, <1>2 DEF SessionInv, SessionTypeOK, Token
  <1>5. SessionTypeOK'
    BY <1>1, <1>2, <1>3 DEF SessionInv, SessionTypeOK
  <1>6. ClosedPages'
    BY <1>2 DEF SessionInv, ClosedPages
  <1>7. TokensInRange'
    <2>1. Asking' = Asking
      BY <1>2 DEF Asking
    <2>2. \A i \in Token : issued < i => i # j
      BY <1>1 DEF SessionInv, TokensInRange, SessionTypeOK, Token
    <2> QED
      BY <1>2, <1>3, <2>1, <2>2 DEF SessionInv, TokensInRange
  <1>8. NewTokens'
    BY <1>1, <1>2, <1>3 DEF SessionInv, NewTokens
  <1>9. StoredToken'
    BY <1>1, <1>2, <1>4 DEF StoredToken, InFlight
  <1>10. \A i \in Token : exchanged'[i] # 0 => revoked'[i] # "no"
    BY <1>2, <1>3 DEF SessionInv
  <1>11. \A i \in Token : revoked'[i] = "old" => i \in accident'
    BY <1>2, <1>3 DEF SessionInv
  <1> QED
    BY <1>2, <1>5, <1>6, <1>7, <1>8, <1>9, <1>10, <1>11
       DEF SessionInv, ExchangedOnce, ResetOnlyAfterAccident

LEMMA LogoutClearStep ==
  ASSUME SessionInv, NEW t \in Tab, logoutClear(t)
  PROVE  SessionInv'
  <1>1. /\ store' = 0 /\ leaving' = [leaving EXCEPT ![t] = 0]
        /\ UNCHANGED <<page, call, exchange, changing, serverVars, accident>>
    BY DEF logoutClear
  <1>2. SessionTypeOK'
    BY <1>1 DEF SessionInv, SessionTypeOK, serverVars
  <1>3. ClosedPages'
    BY <1>1 DEF SessionInv, ClosedPages
  <1>4. TokensInRange'
    <2>1. Asking' = Asking /\ issued \in Nat
      BY <1>1 DEF Asking, SessionInv, SessionTypeOK
    <2> QED
      BY <1>1, <2>1 DEF SessionInv, TokensInRange, serverVars
  <1>5. NewTokens'
    BY <1>1 DEF SessionInv, NewTokens, Token, serverVars
  <1>6. StoredToken'
    BY <1>1 DEF StoredToken, Token, serverVars
  <1> QED
    BY <1>1, <1>2, <1>3, <1>4, <1>5, <1>6
       DEF SessionInv, ExchangedOnce, ResetOnlyAfterAccident, serverVars

LEMMA ChangePasswordPostStep ==
  ASSUME SessionInv, NEW t \in Tab, changePasswordPost(t)
  PROVE  SessionInv'
  <1>1. PICK j \in Token : j = store
    BY TokenFacts DEF changePasswordPost, SessionInv
  <1>2. /\ changing' = [changing EXCEPT ![t] = j] /\ changing[t] = 0
        /\ revoked' = [revoked EXCEPT ![j] = IF @ = "no" THEN "recent" ELSE @]
        /\ UNCHANGED <<store, page, call, exchange, leaving, issued, exchanged, cutoff, resetBy, accident>>
    BY <1>1 DEF changePasswordPost
  <1>3. /\ revoked'[j] # "no" /\ (revoked'[j] = "old" => revoked[j] = "old")
        /\ \A i \in Token \ {j} : revoked'[i] = revoked[i]
        /\ revoked' \in [Token -> {"no", "recent", "old"}]
    BY <1>2 DEF SessionInv, SessionTypeOK
  <1>4. changing'[t] = j /\ j # 0 /\ \A s \in Tab \ {t} : changing'[s] = changing[s]
    BY <1>1, <1>2 DEF SessionInv, SessionTypeOK, Token
  <1>5. SessionTypeOK'
    BY <1>1, <1>2, <1>3 DEF SessionInv, SessionTypeOK
  <1>6. ClosedPages'
    BY <1>2 DEF SessionInv, ClosedPages
  <1>7. TokensInRange'
    <2>1. Asking' = Asking
      BY <1>2 DEF Asking
    <2>2. \A i \in Token : issued < i => i # j
      BY <1>1 DEF SessionInv, TokensInRange, SessionTypeOK, Token
    <2> QED
      BY <1>2, <1>3, <2>1, <2>2 DEF SessionInv, TokensInRange
  <1>8. NewTokens'
    BY <1>1, <1>2, <1>3 DEF SessionInv, NewTokens
  <1>9. StoredToken'
    BY <1>1, <1>2, <1>4 DEF StoredToken, InFlight
  <1>10. \A i \in Token : exchanged'[i] # 0 => revoked'[i] # "no"
    BY <1>2, <1>3 DEF SessionInv
  <1>11. \A i \in Token : revoked'[i] = "old" => i \in accident'
    BY <1>2, <1>3 DEF SessionInv
  <1> QED
    BY <1>2, <1>5, <1>6, <1>7, <1>8, <1>9, <1>10, <1>11
       DEF SessionInv, ExchangedOnce, ResetOnlyAfterAccident

LEMMA ChangePasswordAnsweredStep ==
  ASSUME SessionInv, NEW t \in Tab, changePasswordAnswered(t)
  PROVE  SessionInv'
  <1>1. /\ store' = 0 /\ changing' = [changing EXCEPT ![t] = 0]
        /\ UNCHANGED <<page, call, exchange, leaving, serverVars, historyVars>>
    BY DEF changePasswordAnswered
  <1>2. SessionTypeOK'
    BY <1>1 DEF SessionInv, SessionTypeOK, serverVars
  <1>3. ClosedPages'
    BY <1>1 DEF SessionInv, ClosedPages, historyVars
  <1>4. TokensInRange'
    <2>1. Asking' = Asking /\ issued \in Nat
      BY <1>1 DEF Asking, SessionInv, SessionTypeOK
    <2> QED
      BY <1>1, <2>1 DEF SessionInv, TokensInRange, serverVars
  <1>5. NewTokens'
    BY <1>1 DEF SessionInv, NewTokens, Token, serverVars
  <1>6. StoredToken'
    BY <1>1 DEF StoredToken, Token, serverVars
  <1> QED
    BY <1>1, <1>2, <1>3, <1>4, <1>5, <1>6
       DEF SessionInv, ExchangedOnce, ResetOnlyAfterAccident, serverVars, historyVars

LEMMA ChangePasswordLostStep ==
  ASSUME SessionInv, NEW t \in Tab, changePasswordLost(t)
  PROVE  SessionInv'
  <1>1. /\ accident' = accident \cup {changing[t]} /\ changing' = [changing EXCEPT ![t] = 0]
        /\ UNCHANGED <<store, page, call, exchange, leaving, serverVars>>
    BY DEF changePasswordLost
  <1>2. SessionTypeOK'
    BY <1>1 DEF SessionInv, SessionTypeOK, serverVars
  <1>3. ClosedPages'
    BY <1>1 DEF SessionInv, ClosedPages
  <1>4. TokensInRange'
    <2>1. Asking' = Asking
      BY <1>1 DEF Asking
    <2> QED
      BY <1>1, <2>1 DEF SessionInv, TokensInRange, serverVars
  <1>5. NewTokens'
    BY <1>1 DEF SessionInv, NewTokens, serverVars
  <1>6. StoredToken'
    <2>1. \A j \in Token : InFlight(j) => InFlight(j)' \/ j \in accident'
      <3> SUFFICES ASSUME NEW j \in Token, NEW s \in Tab,
                          j \in {exchange[s].token, leaving[s], changing[s]}
                   PROVE  InFlight(j)' \/ j \in accident'
        BY DEF InFlight
      <3>1. CASE s = t
        BY <1>1, <3>1 DEF InFlight
      <3>2. CASE s # t
        BY <1>1, <3>2 DEF InFlight, SessionInv, SessionTypeOK
      <3> QED
        BY <3>1, <3>2
    <2> QED
      BY <1>1, <2>1 DEF SessionInv, StoredToken, serverVars
  <1> QED
    BY <1>1, <1>2, <1>3, <1>4, <1>5, <1>6
       DEF SessionInv, ExchangedOnce, ResetOnlyAfterAccident, serverVars

LEMMA GraceEndsStep ==
  ASSUME SessionInv, NEW j \in Token, GraceEnds(j)
  PROVE  SessionInv'
  <1>1. /\ revoked[j] = "recent" /\ (j = store \/ InFlight(j))
        /\ revoked' = [revoked EXCEPT ![j] = "old"]
        /\ accident' = IF InFlight(j) THEN accident \cup {j} ELSE accident
        /\ UNCHANGED <<store, page, call, exchange, leaving, changing, issued, exchanged, cutoff, resetBy, troubles>>
    BY DEF GraceEnds
  <1>2. /\ revoked'[j] = "old" /\ \A i \in Token \ {j} : revoked'[i] = revoked[i]
        /\ revoked' \in [Token -> {"no", "recent", "old"}]
    BY <1>1 DEF SessionInv, SessionTypeOK
  <1>3. accident \subseteq accident' /\ j \in accident'
    BY <1>1 DEF SessionInv, StoredToken
  <1>4. SessionTypeOK'
    BY <1>1, <1>2 DEF SessionInv, SessionTypeOK
  <1>5. ClosedPages'
    BY <1>1, <1>3 DEF SessionInv, ClosedPages
  <1>6. TokensInRange'
    <2>1. Asking' = Asking
      BY <1>1 DEF Asking
    <2> QED
      BY <1>1, <1>2, <2>1 DEF SessionInv, TokensInRange
  <1>7. NewTokens'
    BY <1>1, <1>2 DEF SessionInv, NewTokens
  <1>8. StoredToken'
    BY <1>1, <1>2, <1>3 DEF SessionInv, StoredToken, InFlight
  <1>9. \A i \in Token : exchanged'[i] # 0 => revoked'[i] # "no"
    BY <1>1, <1>2 DEF SessionInv
  <1>10. \A i \in Token : revoked'[i] = "old" => i \in accident'
    BY <1>2, <1>3 DEF SessionInv
  <1> QED
    BY <1>1, <1>3, <1>4, <1>5, <1>6, <1>7, <1>8, <1>9, <1>10
       DEF SessionInv, ExchangedOnce, ResetOnlyAfterAccident

LEMMA ClosePageStep ==
  ASSUME SessionInv, NEW t \in Tab, ClosePage(t)
  PROVE  SessionInv'
  <1>1. /\ page' = [page EXCEPT ![t] = "closed"] /\ call' = Unloaded(t)
        /\ leaving' = [leaving EXCEPT ![t] = 0] /\ changing' = [changing EXCEPT ![t] = 0]
        /\ accident' = accident \cup ({exchange[t].token, leaving[t], changing[t]} \ {0})
        /\ UNCHANGED <<store, exchange, serverVars>>
    BY DEF ClosePage
  <1>2. page'[t] = "closed" /\ (\A s \in Tab \ {t} : page'[s] = page[s])
        /\ page' \in [Tab -> {"open", "closed"}]
    BY <1>1 DEF SessionInv, SessionTypeOK
  <1>3. SessionTypeOK'
    BY <1>1, <1>2, UnloadedFacts DEF SessionInv, SessionTypeOK, serverVars
  <1>4. ClosedPages'
    <2>1. \A c \in Call : call'[c].at \notin {"new", "done"} => page'[call'[c].tab] = "open"
      <3> SUFFICES ASSUME NEW c \in Call, call'[c].at \notin {"new", "done"}
                   PROVE  page'[call'[c].tab] = "open"
        OBVIOUS
      <3>1. call'[c] = call[c] /\ call[c].tab # t
        BY <1>1, UnloadedFacts DEF SessionInv
      <3>2. call[c].tab \in Tab
        BY <3>1 DEF SessionInv, SessionTypeOK, CallState, Done
      <3> QED
        BY <1>2, <3>1, <3>2 DEF SessionInv, ClosedPages
    <2>2. \A s \in Tab : page'[s] = "closed" => exchange'[s].token \in accident' \cup {0}
      BY <1>1, <1>2 DEF SessionInv, ClosedPages
    <2> QED
      BY <2>1, <2>2 DEF ClosedPages
  <1>5. TokensInRange'
    <2>1. Asking' = Asking
      BY <1>1 DEF Asking
    <2> QED
      BY <1>1, <2>1 DEF SessionInv, TokensInRange, serverVars
  <1>6. NewTokens'
    BY <1>1 DEF SessionInv, NewTokens, serverVars
  <1>7. StoredToken'
    <2>1. \A j \in Token : InFlight(j) => InFlight(j)' \/ j \in accident'
      <3> SUFFICES ASSUME NEW j \in Token, NEW s \in Tab,
                          j \in {exchange[s].token, leaving[s], changing[s]}
                   PROVE  InFlight(j)' \/ j \in accident'
        BY DEF InFlight
      <3>1. j # 0
        BY DEF Token
      <3>2. CASE s = t
        BY <1>1, <3>1, <3>2
      <3>3. CASE s # t
        BY <1>1, <3>3 DEF InFlight, SessionInv, SessionTypeOK
      <3> QED
        BY <3>2, <3>3
    <2> QED
      BY <1>1, <2>1 DEF SessionInv, StoredToken, serverVars
  <1> QED
    BY <1>1, <1>3, <1>4, <1>5, <1>6, <1>7
       DEF SessionInv, ExchangedOnce, ResetOnlyAfterAccident, serverVars

LEMMA OpenPageStep ==
  ASSUME SessionInv, NEW t \in Tab, OpenPage(t)
  PROVE  SessionInv'
  <1>1. /\ page[t] = "closed" /\ page' = [page EXCEPT ![t] = "open"]
        /\ exchange' = [exchange EXCEPT ![t] = NoExchange]
        /\ UNCHANGED <<store, call, leaving, changing, serverVars, historyVars>>
    BY DEF OpenPage
  <1>2. /\ exchange' \in [Tab -> ExchangeState]
        /\ exchange'[t].at = "none" /\ exchange'[t].token = 0
        /\ \A s \in Tab \ {t} : exchange'[s] = exchange[s]
        /\ Cardinality(Asking') \in Nat /\ Cardinality(Asking') <= Cardinality(Asking)
    BY <1>1, EndedFacts DEF SessionInv
  <1>3. page'[t] = "open" /\ (\A s \in Tab \ {t} : page'[s] = page[s])
        /\ page' \in [Tab -> {"open", "closed"}]
    BY <1>1 DEF SessionInv, SessionTypeOK
  <1>4. SessionTypeOK'
    BY <1>1, <1>2, <1>3 DEF SessionInv, SessionTypeOK, serverVars
  <1>5. ClosedPages'
    <2>1. \A s \in Tab : page[s] = "open" => page'[s] = "open"
      BY <1>3
    <2>2. \A c \in Call : call[c].at \notin {"new", "done"} => call[c].tab \in Tab
      BY DEF SessionInv, SessionTypeOK, CallState, Done
    <2> QED
      BY <1>1, <1>2, <1>3, <2>1, <2>2 DEF SessionInv, ClosedPages, historyVars
  <1>6. TokensInRange'
    <2>1. issued' + Cardinality(Asking') <= MaxToken + Cardinality(Tab)
      BY <1>1, <1>2, TokenFacts DEF SessionInv, SessionTypeOK, TokensInRange, serverVars
    <2>2. issued \in Nat
      BY DEF SessionInv, SessionTypeOK
    <2> QED
      BY <1>1, <1>2, <2>1, <2>2 DEF SessionInv, TokensInRange, serverVars
  <1>7. NewTokens'
    <2>1. \A s \in Tab : exchange[s].at = "rotated" => exchange[s].new # 0
      BY DEF SessionInv, NewTokens, Token
    <2> QED
      BY <1>1, <1>2, <2>1 DEF SessionInv, NewTokens, serverVars
  <1>8. StoredToken'
    <2>1. \A j \in Token : InFlight(j) => InFlight(j)' \/ j \in accident
      <3> SUFFICES ASSUME NEW j \in Token, NEW s \in Tab,
                          j \in {exchange[s].token, leaving[s], changing[s]}
                   PROVE  InFlight(j)' \/ j \in accident
        BY DEF InFlight
      <3>1. j # 0
        BY DEF Token
      <3> QED
        BY <1>1, <1>2, <3>1 DEF InFlight, SessionInv, ClosedPages
    <2> QED
      BY <1>1, <2>1 DEF SessionInv, StoredToken, serverVars, historyVars
  <1> QED
    BY <1>1, <1>4, <1>5, <1>6, <1>7, <1>8
       DEF SessionInv, ExchangedOnce, ResetOnlyAfterAccident, serverVars, historyVars

-----------------------------------------------------------------------------

LEMMA SessionInductive == SessionInv /\ [SessionNext]_sessionVars => SessionInv'
  <1> SUFFICES ASSUME SessionInv, [SessionNext]_sessionVars
               PROVE  SessionInv'
    OBVIOUS
  <1>1. CASE UNCHANGED sessionVars
    <2>1. Asking' = Asking
      BY <1>1 DEF sessionVars, Asking
    <2> QED
      BY <1>1, <2>1
         DEF sessionVars, SessionInv, SessionTypeOK, ClosedPages, TokensInRange, NewTokens,
             StoredToken, InFlight, ExchangedOnce, ResetOnlyAfterAccident
  <1>2. CASE SessionNext
    BY <1>2, SendStep, AnswerStep, UnauthorizedStep, ServerChecksStep, ServerRotatesStep,
       LoseAnswerStep, StoreTokensStep, RefreshFailsStep, LoginStep, LogoutPostStep,
       LogoutClearStep, ChangePasswordPostStep, ChangePasswordAnsweredStep,
       ChangePasswordLostStep, ClosePageStep, OpenPageStep, GraceEndsStep
       DEF SessionNext
  <1> QED
    BY <1>1, <1>2

LEMMA SessionInitially == SessionInit => SessionInv
  <1> SUFFICES ASSUME SessionInit PROVE SessionInv
    OBVIOUS
  <1>1. NoExchange \in ExchangeState /\ NoExchange.at = "none" /\ NoExchange.token = 0
    BY DEF NoExchange, ExchangeState
  <1>2. Asking = {} /\ Cardinality(Asking) = 0
    BY <1>1, FS_EmptySet DEF SessionInit, Asking
  <1>3. Cardinality(Tab) \in Nat /\ MaxToken \in Nat \ {0}
    BY AskingBound, SessionAssumption
  <1>4. SessionTypeOK
    BY <1>1 DEF SessionInit, SessionTypeOK, CallState
  <1>5. ClosedPages
    BY <1>1 DEF SessionInit, ClosedPages
  <1>6. TokensInRange
    BY <1>1, <1>2, <1>3 DEF SessionInit, TokensInRange
  <1>7. NewTokens /\ StoredToken
    BY <1>1 DEF SessionInit, NewTokens, StoredToken
  <1> QED
    BY <1>4, <1>5, <1>6, <1>7 DEF SessionInit, SessionInv, ExchangedOnce, ResetOnlyAfterAccident

=============================================================================
