------------------------------ MODULE Recovery ------------------------------
(***************************************************************************)
(* Recovery of one account's password by a link sent to the LINE account   *)
(* it is bound to (adminPasswordRecovery.routes.js).  That a link expires  *)
(* is that nobody uses it any more.                                        *)
(***************************************************************************)
EXTENDS Naturals

CONSTANTS
    LineAccount,   \* LINE accounts of the owner
    LinkId,        \* ids of password_reset_requests
    Code,          \* recovery codes
    CodeAttempts,  \* wrong codes a link survives, plus one
    CodeRequired,  \* ADMIN_RECOVERY_REQUIRE_CODE
    MaxChanges     \* bound on the changes of the account

ASSUME RecoveryAssumption ==
    CodeAttempts \in Nat /\ MaxChanges \in Nat /\ CodeRequired \in BOOLEAN

VARIABLES
    bound,         \* user_recovery_channels: the LINE account, or none
    codes,         \* user_recovery_codes that are unused
    resetLink,     \* password_reset_requests; history: the changes when it was asked for,
                   \* and those of the password since that were not made by this route
    changes        \* changes of the binding, the codes or the password so far, whoever made them

recoveryVars == <<bound, codes, resetLink, changes>>

NoLine == "none"
NoLink == [at |-> "none", to |-> NoLine, used |-> FALSE, wrong |-> 0, since |-> 0,
           outlived |-> 0]

RecoveryInit ==
    /\ bound = NoLine
    /\ codes = {}
    /\ resetLink = [q \in LinkId |-> NoLink]
    /\ changes = 0

\* Every transaction below locks the users row first, and keeps it until COMMIT; all but
\* the one of a request run as one step.

AccountFree == \A q \in LinkId : resetLink[q].at # "asked"

Changed == changes < MaxChanges /\ changes' = changes + 1

\* Variant for mutation runs: only links that were sent are retired.
RetiredSent(links) ==
    [q \in LinkId |-> IF links[q].at = "SENT" THEN [links[q] EXCEPT !.used = TRUE] ELSE links[q]]

\* UPDATE password_reset_requests SET used_at = NOW() WHERE used_at IS NULL.
Retired(links) ==
    [q \in LinkId |-> IF links[q].at \in {"PENDING", "SENT"}
                      THEN [links[q] EXCEPT !.used = TRUE] ELSE links[q]]

-----------------------------------------------------------------------------
(* The owner, signed in *)

handleLinkLine(a) ==
    /\ AccountFree /\ Changed
    /\ resetLink' = Retired(resetLink)
    /\ bound' = a
    /\ codes' = IF CodeRequired THEN Code ELSE codes

\* The channel was read before the lock: it may be gone by now.
handleRegenerateCodes ==
    /\ AccountFree /\ Changed /\ changes > 0
    /\ codes' = Code
    /\ resetLink' = Retired(resetLink)
    /\ UNCHANGED bound

\* Unused requests are deleted.  Deleting the account does the same.
handleUnlinkLine ==
    /\ AccountFree /\ Changed
    /\ resetLink' = [q \in LinkId |->
          IF resetLink[q].at \in {"PENDING", "SENT"} /\ ~resetLink[q].used
          THEN [resetLink[q] EXCEPT !.at = "deleted"] ELSE resetLink[q]]
    /\ codes' = {}
    /\ bound' = NoLine

\* POST /api/auth/change-password, and the resets by administrators: users.password_hash
\* is written, and the requests are left as they are.
changePassword ==
    /\ AccountFree /\ Changed
    /\ resetLink' = [q \in LinkId |->
          IF resetLink[q].at \in {"PENDING", "SENT"} /\ ~resetLink[q].used
          THEN [resetLink[q] EXCEPT !.outlived = @ + 1] ELSE resetLink[q]]
    /\ UNCHANGED <<bound, codes>>

-----------------------------------------------------------------------------
(* POST /request *)

\* SELECT ... FOR UPDATE of the user and the channel: where the link will be sent.
AskForLink(q) ==
    /\ AccountFree /\ bound # NoLine
    /\ CodeRequired => codes # {}
    /\ resetLink[q].at = "none"
    /\ resetLink' = [resetLink EXCEPT ![q].at = "asked", ![q].to = bound, ![q].since = changes]
    /\ UNCHANGED <<bound, codes, changes>>

IssueLink(q) ==
    /\ resetLink[q].at = "asked"
    /\ resetLink' = [Retired(resetLink) EXCEPT ![q].at = "PENDING"]
    /\ UNCHANGED <<bound, codes, changes>>

LinkFails(q) ==
    /\ resetLink[q].at = "asked"
    /\ resetLink' = [resetLink EXCEPT ![q].at = "failed"]
    /\ UNCHANGED <<bound, codes, changes>>

\* After COMMIT the message is sent, and then its outcome written, to the row as it is
\* by then: a link retired meanwhile stays retired.
MarkDelivery(q) ==
    /\ resetLink[q].at = "PENDING"
    /\ \/ resetLink' = [resetLink EXCEPT ![q].at = "SENT"]
       \/ resetLink' = [resetLink EXCEPT ![q].at = "FAILED", ![q].used = TRUE]
    /\ UNCHANGED <<bound, codes, changes>>

-----------------------------------------------------------------------------
(* POST /complete *)

Usable(q) ==
    /\ resetLink[q].at = "SENT" /\ ~resetLink[q].used
    /\ resetLink[q].wrong < CodeAttempts
    /\ bound # NoLine

\* A code that is sent is checked even where none is required.
WrongCode(q) ==
    /\ AccountFree /\ Usable(q)
    /\ resetLink' = [resetLink EXCEPT ![q].wrong = @ + 1,
                                      ![q].used = resetLink[q].wrong + 1 >= CodeAttempts]
    /\ UNCHANGED <<bound, codes, changes>>

CompleteReset(q, spent) ==
    /\ AccountFree /\ Usable(q) /\ Changed
    /\ spent \subseteq codes
    /\ CodeRequired => spent # {}
    /\ codes' = codes \ spent
    /\ resetLink' = Retired(resetLink)
    /\ UNCHANGED bound

RecoveryNext ==
    \/ \E a \in LineAccount : handleLinkLine(a)
    \/ handleRegenerateCodes
    \/ handleUnlinkLine
    \/ changePassword
    \/ \E q \in LinkId :
          \/ AskForLink(q) \/ IssueLink(q) \/ LinkFails(q) \/ MarkDelivery(q)
          \/ WrongCode(q)
          \/ \E spent \in {{}} \cup {{k} : k \in Code} : CompleteReset(q, spent)

-----------------------------------------------------------------------------

\* The link that works is the newest one, went to the LINE account that is bound now, and
\* of all that was changed since it was asked for, it has outlived only changes of the
\* password outside of the recovery, which retire no link: neither the binding nor the
\* codes were changed, nor was another link used.  One whose message was still under way
\* when it was retired does not come alive with the report of its delivery.
UsableLinkIsCurrent ==
    \A q \in LinkId : Usable(q) =>
       /\ resetLink[q].to = bound
       /\ resetLink[q].since + resetLink[q].outlived = changes
       /\ \A p \in LinkId \ {q} : ~Usable(p)

=============================================================================
