---------------------------- MODULE RefreshTokens ----------------------------
(***************************************************************************)
(* The refresh-token table of Backend/app/Services/AuthService.py and the  *)
(* requests that read and write it: logins, rotations, reuse detection,    *)
(* logouts.                                                                *)
(*                                                                         *)
(* A handler runs in the thread pool on a session of its own.  It SELECTs  *)
(* the rows it decides on, without a lock, and what it writes becomes      *)
(* visible at db.commit().  A handler is therefore two actions: ...Read    *)
(* takes the decision and ...Commit applies it, possibly much later.  The  *)
(* UPDATE of RevokeFamily is a statement of its own and sees the rows that *)
(* are committed when it runs.                                             *)
(***************************************************************************)

CONSTANTS
    Token,      \* the ids refresh_tokens rows can take
    Family,     \* the uuid4 values family_id can take
    User,       \* the users of the system
    Request,    \* the handlers that can be in flight at once
    Closed,     \* the statuses an operator closes accounts with
    Nil         \* SQL NULL

ASSUME NilIsNoValue == Nil \notin Token \cup Family \cup User
ASSUME ClosedIsNotActive == Closed \subseteq {"suspended", "deleted"}

VARIABLES
    status,     \* users.status; "deleted" also stands for deleted_at set
    family,     \* refresh_tokens.family_id, Nil while the row does not exist
    owner,      \* refresh_tokens.user_id
    replacedBy, \* refresh_tokens.replaced_by_id
    revoked,    \* refresh_tokens.revoked_at IS NOT NULL
    expired,    \* refresh_tokens.expires_at < now()
    pc,         \* what each handler does at its next commit
    held,       \* the row a handler has read: its ORM instance `current`
    caller,     \* the user a login handler has authenticated
    reuseLog    \* families named by "Refresh token reuse detected" warnings

rows == <<family, owner, replacedBy, revoked>>
handlers == <<pc, held, caller>>
vars == <<status, rows, expired, handlers, reuseLog>>

Status == {"active"} \cup Closed
Step == {"idle", "issue", "rotate", "revoke", "logout"}

Issued == {t \in Token : family[t] # Nil}
Members(f) == {t \in Token : family[t] = f}
Families == {f \in Family : Members(f) # {}}

(* The branch that treats a presented token as reused. *)
Reused(t) == replacedBy[t] # Nil \/ revoked[t]

(* A token that the next rotation would accept, its owner permitting. *)
Usable(t) == t \in Issued /\ ~Reused(t) /\ ~expired[t]

TypeOK ==
    /\ status \in [User -> Status]
    /\ family \in [Token -> Family \cup {Nil}]
    /\ owner \in [Token -> User \cup {Nil}]
    /\ replacedBy \in [Token -> Token \cup {Nil}]
    /\ revoked \in [Token -> BOOLEAN]
    /\ expired \in [Token -> BOOLEAN]
    /\ pc \in [Request -> Step]
    /\ held \in [Request -> Token \cup {Nil}]
    /\ caller \in [Request -> User \cup {Nil}]
    /\ reuseLog \subseteq Family

Init ==
    /\ status = [u \in User |-> "active"]
    /\ family = [t \in Token |-> Nil]
    /\ owner = [t \in Token |-> Nil]
    /\ replacedBy = [t \in Token |-> Nil]
    /\ revoked = [t \in Token |-> FALSE]
    /\ expired = [t \in Token |-> FALSE]
    /\ pc = [r \in Request |-> "idle"]
    /\ held = [r \in Request |-> Nil]
    /\ caller = [r \in Request |-> Nil]
    /\ reuseLog = {}

-----------------------------------------------------------------------------
(* Handlers: begin with a decision, end idle. *)

Await(r, step, t, u) ==
    /\ pc[r] = "idle"
    /\ pc' = [pc EXCEPT ![r] = step]
    /\ held' = [held EXCEPT ![r] = t]
    /\ caller' = [caller EXCEPT ![r] = u]

Finish(r) ==
    /\ pc' = [pc EXCEPT ![r] = "idle"]
    /\ held' = [held EXCEPT ![r] = Nil]
    /\ caller' = [caller EXCEPT ![r] = Nil]

(* _new_refresh_row: a row for u in family f, under an id nobody has. *)
NewRow(t, f, u) ==
    /\ t \notin Issued
    /\ family' = [family EXCEPT ![t] = f]
    /\ owner' = [owner EXCEPT ![t] = u]

(* authenticate_password wants a live, active user.  verify_magic_link wants *)
(* a live one only, and authenticate_google takes the user its identity row  *)
(* names whatever has become of it, so any user can come out of a sign-in.   *)
PasswordLogin(r, u) ==
    /\ status[u] = "active"
    /\ Await(r, "issue", Nil, u)
    /\ UNCHANGED <<status, rows, expired, reuseLog>>

MagicLinkLogin(r, u) ==
    /\ status[u] # "deleted"
    /\ Await(r, "issue", Nil, u)
    /\ UNCHANGED <<status, rows, expired, reuseLog>>

GoogleLogin(r, u) ==
    /\ Await(r, "issue", Nil, u)
    /\ UNCHANGED <<status, rows, expired, reuseLog>>

(* issue_tokens starts a family with a fresh uuid4. *)
IssueTokens(r, t, f) ==
    /\ pc[r] = "issue"
    /\ f \notin Families
    /\ NewRow(t, f, caller[r])
    /\ Finish(r)
    /\ UNCHANGED <<status, replacedBy, revoked, expired, reuseLog>>

(* Mutants of RotateRead: a logged-out token is not recognised; the owner is *)
(* not looked at.                                                            *)
RotateReadReplacedOnly(r, t) ==
    /\ t \in Issued
    /\ status[owner[t]] = "active" /\ ~expired[t]
    /\ Await(r, IF replacedBy[t] # Nil THEN "revoke" ELSE "rotate", t, Nil)
    /\ UNCHANGED <<status, rows, expired, reuseLog>>

RotateReadAnyOwner(r, t) ==
    /\ t \in Issued
    /\ \/ Reused(t) /\ Await(r, "revoke", t, Nil)
       \/ Usable(t) /\ Await(r, "rotate", t, Nil)
    /\ UNCHANGED <<status, rows, expired, reuseLog>>

(* rotate_refresh_token up to its branch.  An unknown token, an expired one *)
(* and one whose owner is not active are answered 401 and change nothing.   *)
RotateRead(r, t) ==
    /\ t \in Issued
    /\ \/ Reused(t) /\ Await(r, "revoke", t, Nil)
       \/ /\ Usable(t)
          /\ status[owner[t]] = "active"
          /\ Await(r, "rotate", t, Nil)
    /\ UNCHANGED <<status, rows, expired, reuseLog>>

(* Mutants of RotateCommit: a family of its own for the successor; the held *)
(* row is not pointed at it.                                                *)
RotateIntoNewFamily(r, t) ==
    /\ pc[r] = "rotate"
    /\ \E f \in Family \ Families : NewRow(t, f, owner[held[r]])
    /\ replacedBy' = [replacedBy EXCEPT ![held[r]] = t]
    /\ Finish(r)
    /\ UNCHANGED <<status, revoked, expired, reuseLog>>

RotateWithoutReplacing(r, t) ==
    /\ pc[r] = "rotate"
    /\ NewRow(t, family[held[r]], owner[held[r]])
    /\ Finish(r)
    /\ UNCHANGED <<status, replacedBy, revoked, expired, reuseLog>>

(* The accepting branch: INSERT the successor, point the held row at it.  *)
(* Only replaced_by_id is written back: a revocation committed since the   *)
(* read survives, a replaced_by_id committed since the read is overwritten. *)
RotateCommit(r, t) ==
    /\ pc[r] = "rotate"
    /\ NewRow(t, family[held[r]], owner[held[r]])
    /\ replacedBy' = [replacedBy EXCEPT ![held[r]] = t]
    /\ Finish(r)
    /\ UNCHANGED <<status, revoked, expired, reuseLog>>

(* Mutant of RevokeFamily: only the row that was presented is revoked. *)
RevokePresentedOnly(r) ==
    /\ pc[r] = "revoke"
    /\ revoked' = [revoked EXCEPT ![held[r]] = TRUE]
    /\ reuseLog' = reuseLog \cup {family[held[r]]}
    /\ Finish(r)
    /\ UNCHANGED <<status, family, owner, replacedBy, expired>>

(* The reuse branch: UPDATE ... SET revoked_at WHERE family_id, commit, warn. *)
RevokeFamily(r) ==
    /\ pc[r] = "revoke"
    /\ revoked' = [t \in Token |-> revoked[t] \/ family[t] = family[held[r]]]
    /\ reuseLog' = reuseLog \cup {family[held[r]]}
    /\ Finish(r)
    /\ UNCHANGED <<status, family, owner, replacedBy, expired>>

(* revoke_refresh_token: a row that is unknown or already revoked is left. *)
LogoutRead(r, t) ==
    /\ t \in Issued /\ ~revoked[t]
    /\ Await(r, "logout", t, Nil)
    /\ UNCHANGED <<status, rows, expired, reuseLog>>

LogoutCommit(r) ==
    /\ pc[r] = "logout"
    /\ revoked' = [revoked EXCEPT ![held[r]] = TRUE]
    /\ Finish(r)
    /\ UNCHANGED <<status, family, owner, replacedBy, expired, reuseLog>>

(* Time: REFRESH_TOKEN_EXPIRE_DAYS after its creation a row has expired. *)
Expire(t) ==
    /\ t \in Issued /\ ~expired[t]
    /\ expired' = [expired EXCEPT ![t] = TRUE]
    /\ UNCHANGED <<status, rows, handlers, reuseLog>>

(* No endpoint sets users.status: an operator does, in the database. *)
SetStatus(u, s) ==
    /\ status[u] # s
    /\ status' = [status EXCEPT ![u] = s]
    /\ UNCHANGED <<rows, expired, handlers, reuseLog>>

(* The server restarts: open transactions roll back, committed rows stay. *)
Crash ==
    /\ \E r \in Request : pc[r] # "idle"
    /\ pc' = [r \in Request |-> "idle"]
    /\ held' = [r \in Request |-> Nil]
    /\ caller' = [r \in Request |-> Nil]
    /\ UNCHANGED <<status, rows, expired, reuseLog>>

(* The endpoints of the sessions. *)
SignInEndpoint(r) ==
    \/ \E u \in User : PasswordLogin(r, u) \/ MagicLinkLogin(r, u) \/ GoogleLogin(r, u)
    \/ \E t \in Token, f \in Family : IssueTokens(r, t, f)

RefreshEndpoint(r) ==
    \/ \E t \in Token : RotateRead(r, t) \/ RotateCommit(r, t)
    \/ RevokeFamily(r)

LogoutEndpoint(r) ==
    \/ \E t \in Token : LogoutRead(r, t)
    \/ LogoutCommit(r)

Handler(r) == SignInEndpoint(r) \/ RefreshEndpoint(r) \/ LogoutEndpoint(r)

Next ==
    \/ \E r \in Request : Handler(r)
    \/ \E t \in Token : Expire(t)
    \/ \E u \in User, s \in Status : SetStatus(u, s)
    \/ Crash

Spec == Init /\ [][Next]_vars

-----------------------------------------------------------------------------
(* Properties. *)

(* A replaced row points at a row of its own family and its own user, so    *)
(* the chain that reuse detection follows never leaves the session it is    *)
(* about (rotate_refresh_token copies family_id and user_id to the          *)
(* successor), and no family is shared by two users.                        *)
Lineage ==
    /\ \A t \in Issued : replacedBy[t] # Nil =>
          /\ replacedBy[t] # t
          /\ family[replacedBy[t]] = family[t]
    /\ \A s, t \in Issued : family[s] = family[t] => owner[s] = owner[t]

Rotating(f) == \E r \in Request : pc[r] = "rotate" /\ family[held[r]] = f

Dead(f) == f \in Families /\ (\A t \in Members(f) : ~Usable(t)) /\ ~Rotating(f)

(* Once no token of a session can be rotated and no rotation of it is in     *)
(* flight, the session is over for good: no order of later logins, replays,  *)
(* logouts, reactivations or crashes brings it back, whoever still holds one *)
(* of its tokens (rotate_refresh_token must refuse each of them).            *)
DeadFamilyStaysDead == [][\A f \in Family : Dead(f) => Dead(f)']_vars

(* No session of a closed account is carried on: from the moment a user is   *)
(* not active and no rotation of theirs is in flight, none starts and none   *)
(* of their tokens gets a successor, until the account is active again       *)
(* (rotate_refresh_token looks at the user after the token).  This is about  *)
(* rotation only: MagicLinkLogin and GoogleLogin refuse no suspended user,   *)
(* and begin sessions that no rotation carries on while the account is closed. *)
LockedOut(u) ==
    status[u] # "active" /\ \A r \in Request : pc[r] = "rotate" => owner[held[r]] # u

LockoutHolds ==
    [][\A u \in User : LockedOut(u) /\ status'[u] # "active" =>
          /\ LockedOut(u)'
          /\ \A t \in Token : owner[t] = u => replacedBy'[t] = replacedBy[t]]_vars
=============================================================================
