-------------------------------- MODULE Terms --------------------------------
(***************************************************************************)
(* School terms as the administrator keeps them (term.service.js,          *)
(* createTerm and setCurrentTerm).  No index covers is_current, so the     *)
(* UPDATE that clears it waits for the lock of every row of the table.     *)
(***************************************************************************)
EXTENDS Naturals, FiniteSets

CONSTANTS
    TermId,        \* ids of terms
    Admin,         \* requests of administrators
    FirstTerm      \* the term that migrations have made current

ASSUME FirstTermAssumption == FirstTerm \in TermId

VARIABLES
    terms,         \* ids that exist
    current,       \* ids with is_current
    switch         \* each request: the target it has locked, and the term it read as current

termsVars == <<terms, current, switch>>

NoSwitch == [at |-> "idle"]

TermsInit ==
    /\ terms = {FirstTerm}
    /\ current = {FirstTerm}
    /\ switch = [a \in Admin |-> NoSwitch]

LockedTerms(a) == {switch[b].target : b \in {b \in Admin \ {a} : switch[b] # NoSwitch}}

createTerm(t) ==
    /\ t \notin terms /\ \A a \in Admin : t \notin LockedTerms(a)
    /\ terms' = terms \cup {t}
    /\ UNCHANGED <<current, switch>>

\* SELECT ... FOR UPDATE of the target, then a plain read of the current term.
LockTarget(a, t) ==
    /\ switch[a] = NoSwitch /\ t \in terms /\ t \notin LockedTerms(a)
    /\ \E prev \in current :
          switch' = [switch EXCEPT ![a] = [at |-> "locked", target |-> t, prev |-> prev]]
    /\ UNCHANGED <<terms, current>>

\* Variant for mutation runs: only the term that was read as current is cleared.
ScannedPrevious(a) == {switch[a].prev}

\* WHERE is_current = TRUE, by a scan of the table.
Scanned(a) == terms

\* The rows are locked one after the other; the last lock granted, all are cleared as
\* they are now.
ClearAndSet(a) ==
    /\ switch[a].at = "locked" /\ Scanned(a) \cap LockedTerms(a) = {}
    /\ current' = (current \ Scanned(a)) \cup {switch[a].target}
    /\ switch' = [switch EXCEPT ![a] = NoSwitch]
    /\ UNCHANGED terms

\* Two requests with a target each wait for one another: one is the victim.
SwitchFails(a) ==
    /\ switch[a].at = "locked"
    /\ switch' = [switch EXCEPT ![a] = NoSwitch]
    /\ UNCHANGED <<terms, current>>

TermsNext ==
    \/ \E t \in TermId : createTerm(t)
    \/ \E a \in Admin :
          \/ \E t \in TermId : LockTarget(a, t)
          \/ ClearAndSet(a)
          \/ SwitchFails(a)

-----------------------------------------------------------------------------

\* term.service.js:214-215: clear and set in one transaction "makes a double-current
\* state unreachable", and never leaves the schools without a current term either.
OneCurrentTerm == Cardinality(current) = 1 /\ current \subseteq terms

=============================================================================
