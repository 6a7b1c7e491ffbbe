------------------------------- MODULE Linking -------------------------------
(***************************************************************************)
(* Parents bind their LINE account to the phone that the school has on     *)
(* file, and are then notified there (line.service.js, line.routes.js,     *)
(* parent.routes.js).  The conversation that collects phone and student    *)
(* code lives in the memory of a process and binds nothing.                *)
(***************************************************************************)
CONSTANTS
    LineUser,      \* LINE accounts of parents
    Phone,         \* phones of parents rows
    Link           \* messages and LIFF calls being handled, each with its connection

VARIABLES
    binding,       \* line_bindings: the account bound to each phone
    verified,      \* line_users: the phone of the verified parent_id of each account
    link           \* each handler: its next statement and local variables

linkingVars == <<binding, verified, link>>

NoOneBound == "none"
Unasked == [at |-> "idle"]

LinkingInit ==
    /\ binding = [p \in Phone |-> NoOneBound]
    /\ verified = [u \in LineUser |-> NoOneBound]
    /\ link = [h \in Link |-> Unasked]

BoundPhone(u) == {p \in Phone : binding[p] = u}

\* getLinkedParentId: the binding, or else the older columns of line_users.
IsLinked(u) == BoundPhone(u) # {} \/ verified[u] # NoOneBound

Handles(h, step) == link' = [link EXCEPT ![h] = step]

-----------------------------------------------------------------------------
(* Binding *)

\* The chat has asked for a phone and a student code, and both fit: it looked whether the
\* account is linked when the conversation began, which may be long ago.
tryLink(h, u, p) ==
    /\ link[h] = Unasked
    /\ Handles(h, [at |-> "check", user |-> u, phone |-> p])
    /\ UNCHANGED <<binding, verified>>

\* The LIFF page looks now, in a statement of its own.
confirmLink(h, u, p) == ~IsLinked(u) /\ tryLink(h, u, p)

\* bindLineUserToPhone: both plain reads are of one snapshot.
CheckBinding(h) ==
    LET u == link[h].user
        p == link[h].phone IN
    /\ link[h].at = "check"
    /\ IF binding[p] \in {NoOneBound, u} /\ BoundPhone(u) \subseteq {p}
         THEN Handles(h, [link[h] EXCEPT !.at = "insert"])
         ELSE Handles(h, Unasked)
    /\ UNCHANGED <<binding, verified>>

\* Variant for mutation runs: the UPDATE of the upsert sets the account as well.
UpsertedOver(u, p) == [binding EXCEPT ![p] = u]

\* INSERT ... ON DUPLICATE KEY UPDATE: a row of the phone, or else one of the account, keeps
\* its phone and its account, whatever the check had found.
Upserted(u, p) ==
    IF binding[p] = NoOneBound /\ BoundPhone(u) = {}
      THEN [binding EXCEPT ![p] = u]
      ELSE binding

\* The upsert waits for the locks of both keys; line_users is written, COMMIT.  The
\* answer is a success also when the row was another's.
WriteBinding(h) ==
    /\ link[h].at = "insert"
    /\ binding' = Upserted(link[h].user, link[h].phone)
    /\ verified' = [verified EXCEPT ![link[h].user] = link[h].phone]
    /\ Handles(h, Unasked)

-----------------------------------------------------------------------------
(* Letting go *)

\* unlinkAccount, for a confirmed wish to unbind or to bind another phone: a plain read.
unlinkAccount(h, u) ==
    /\ link[h] = Unasked /\ IsLinked(u)
    /\ Handles(h, [at |-> "unlink", user |-> u])
    /\ UNCHANGED <<binding, verified>>

\* unbindLineUser: whatever the account is bound to by now.
unbindLineUser(h) ==
    LET u == link[h].user IN
    /\ link[h].at = "unlink"
    /\ binding' = [p \in Phone |-> IF binding[p] = u THEN NoOneBound ELSE binding[p]]
    /\ verified' = [verified EXCEPT ![u] = NoOneBound]
    /\ Handles(h, Unasked)

\* unfollow: the binding stays, and reaches nobody until the account is bound again.
removeLineUser(u) ==
    /\ verified' = [verified EXCEPT ![u] = NoOneBound]
    /\ UNCHANGED <<binding, link>>

\* An error, a deadlock or the process is lost: ROLLBACK.
LinkingFails(h) ==
    /\ link[h] # Unasked
    /\ Handles(h, Unasked)
    /\ UNCHANGED <<binding, verified>>

LinkingNext ==
    \/ \E h \in Link, u \in LineUser, p \in Phone : tryLink(h, u, p) \/ confirmLink(h, u, p)
    \/ \E h \in Link : CheckBinding(h)
    \/ \E h \in Link : WriteBinding(h)
    \/ \E h \in Link, u \in LineUser : unlinkAccount(h, u)
    \/ \E h \in Link : unbindLineUser(h)
    \/ \E u \in LineUser : removeLineUser(u)
    \/ \E h \in Link : LinkingFails(h)

-----------------------------------------------------------------------------
(* Properties *)

\* Who hears of the children of a phone (checkin.service.js:456-470) changes only by that
\* account's own unlinking: not by a second account that passed the check of the phone
\* before the first was bound, nor by an unlinking that was asked for when the account
\* held another phone.  And an account never holds two.
OnlyTheHolderLetsGo ==
    [][\A p \in Phone :
          \/ binding'[p] = binding[p]
          \/ /\ binding[p] = NoOneBound
             /\ \A q \in Phone : binding'[q] = binding'[p] => q = p
          \/ /\ binding'[p] = NoOneBound
             /\ \E h \in Link : link[h].at = "unlink" /\ link[h].user = binding[p]
      ]_linkingVars

=============================================================================
