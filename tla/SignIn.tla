-------------------------------- MODULE SignIn --------------------------------
(***************************************************************************)
(* Accounts and the ways into them (Backend/app/Services/AuthService.py):   *)
(* registration, passwords, magic links, Google, and the administrator the  *)
(* deployment creates.                                                      *)
(*                                                                         *)
(* Every SELECT of a handler is a step of its own.  What it writes, the new *)
(* account included, becomes visible in one transaction at the end, where   *)
(* the unique indexes decide: a conflict is an error that undoes all of it. *)
(***************************************************************************)

CONSTANTS
    Request,    \* the handlers, each of one request
    User,       \* the ids users rows can take
    Email,      \* addresses, as they are spelt
    Lower,      \* Lower[e]: e in lower case
    Google,     \* the subjects of Google accounts
    Link,       \* magic links
    Closing,    \* the statuses an operator closes accounts with
    Nil         \* SQL NULL

ASSUME Parameters ==
    /\ Closing \subseteq {"suspended", "deleted"}
    /\ Lower \in [Email -> Email] /\ \A e \in Email : Lower[Lower[e]] = Lower[e]
    /\ Nil \notin User \cup Email \cup Google \cup Link
    /\ Nil \notin {"password", "magic_link", "google"}

VARIABLES
    email,      \* users.email, Nil while the row does not exist
    status,     \* users.status; "deleted" also stands for deleted_at set
    identity,   \* auth_identities: pairs of a user and a provider
    subject,    \* the user of the identity row with this provider_subject
    link,       \* magic_link_tokens.email, Nil before the link is requested
    consumed,   \* links with consumed_at set
    expired,    \* links past expires_at
    step,       \* what each handler does next
    way,        \* what it was called for
    proof,      \* the link or Google subject it was given
    address,    \* the address it goes by
    found,      \* the user it has read, and signs in at the end
    known,      \* whether it has read the identity row of its provider
    earlier     \* the requests that had ended when it began (history)

accounts == <<email, status, identity, subject>>
links == <<link, consumed, expired>>
handlers == <<step, way, proof, address, found, known, earlier>>
vars == <<accounts, links, handlers>>

Provider == {"password", "magic_link", "google"}
Way == {"register", "admin", "password", "magic_link", "google"}
Ended == {"done", "refused", "failed"}

Rows == {u \in User : email[u] # Nil}
Live == {u \in Rows : status[u] # "deleted"}

(* _live_user_by_email.  The column is Text: A@x and a@x are two addresses, and *)
(* the unique index leaves one account at most to each.                       *)
Holders(e) == {u \in Live : email[u] = e}

(* Mutant of Matches: the script looks as the handlers do. *)
MatchesAsSpelt(r) == Holders(address[r])

(* Whom a handler's SELECT finds: ensure_demo_admin compares lower(users.email). *)
Matches(r) ==
    IF way[r] = "admin"
        THEN {u \in Live : Lower[email[u]] = address[r]}
        ELSE Holders(address[r])

TypeOK ==
    /\ email \in [User -> Email \cup {Nil}]
    /\ status \in [User -> {"active"} \cup Closing]
    /\ identity \subseteq User \X Provider
    /\ subject \in [Google -> User \cup {Nil}]
    /\ link \in [Link -> Email \cup {Nil}]
    /\ consumed \subseteq Link /\ expired \subseteq Link
    /\ step \in [Request -> {"new", "user", "identity", "commit"} \cup Ended]
    /\ way \in [Request -> Way \cup {Nil}]
    /\ proof \in [Request -> Link \cup Google \cup {Nil}]
    /\ address \in [Request -> Email \cup {Nil}]
    /\ found \in [Request -> User \cup {Nil}]
    /\ known \in [Request -> BOOLEAN]
    /\ earlier \in [Request -> SUBSET Request]

Init ==
    /\ email = [u \in User |-> Nil]
    /\ status = [u \in User |-> "active"]
    /\ identity = {}
    /\ subject = [g \in Google |-> Nil]
    /\ link = [l \in Link |-> Nil]
    /\ consumed = {} /\ expired = {}
    /\ step = [r \in Request |-> "new"]
    /\ way = [r \in Request |-> Nil]
    /\ proof = [r \in Request |-> Nil]
    /\ address = [r \in Request |-> Nil]
    /\ found = [r \in Request |-> Nil]
    /\ known = [r \in Request |-> FALSE]
    /\ earlier = [r \in Request |-> {}]

-----------------------------------------------------------------------------
(* Handlers. *)

Begin(r, w, p, e, next) ==
    /\ step[r] = "new"
    /\ step' = [step EXCEPT ![r] = next]
    /\ way' = [way EXCEPT ![r] = w]
    /\ proof' = [proof EXCEPT ![r] = p]
    /\ address' = [address EXCEPT ![r] = e]
    /\ earlier' = [earlier EXCEPT ![r] = {q \in Request : step[q] \in Ended}]

Goto(r, next) == step' = [step EXCEPT ![r] = next]

(* register_with_password. *)
Register(r, e) ==
    /\ Begin(r, "register", Nil, e, "user")
    /\ UNCHANGED <<accounts, links, found, known>>

(* ensure_demo_admin: the same two steps in a script of the deployment, for the *)
(* lower case of the address that the environment gives.                      *)
EnsureAdmin(r, e) ==
    /\ Begin(r, "admin", Nil, Lower[e], "user")
    /\ UNCHANGED <<accounts, links, found, known>>

(* request_magic_link, for any address. *)
RequestLink(l, e) ==
    /\ link[l] = Nil
    /\ link' = [link EXCEPT ![l] = e]
    /\ UNCHANGED <<accounts, consumed, expired, handlers>>

(* Mutant of VerifyLink: consumed_at is not looked at. *)
VerifyLinkAgain(r, l) ==
    /\ link[l] # Nil /\ l \notin expired
    /\ Begin(r, "magic_link", l, link[l], "user")
    /\ UNCHANGED <<accounts, links, found, known>>

(* verify_magic_link reads its token. *)
VerifyLink(r, l) ==
    /\ link[l] # Nil /\ l \notin consumed /\ l \notin expired
    /\ Begin(r, "magic_link", l, link[l], "user")
    /\ UNCHANGED <<accounts, links, found, known>>

(* authenticate_google knows the subject: its user signs in, deleted or not. *)
GoogleKnown(r, g, e) ==
    /\ subject[g] # Nil
    /\ Begin(r, "google", g, e, "commit")
    /\ found' = [found EXCEPT ![r] = subject[g]]
    /\ known' = [known EXCEPT ![r] = TRUE]
    /\ UNCHANGED <<accounts, links>>

GoogleNew(r, g, e) ==
    /\ subject[g] = Nil
    /\ Begin(r, "google", g, e, "user")
    /\ UNCHANGED <<accounts, links, found, known>>

(* A registration and the script want nobody there, the others take whom they *)
(* find.  Only a magic link looks for its identity row before it inserts one. *)
ReadUser(r) ==
    /\ step[r] = "user"
    /\ \/ /\ Matches(r) = {}
          /\ Goto(r, "commit")
          /\ UNCHANGED found
       \/ \E u \in Matches(r) :
             \/ /\ way[r] \in {"register", "admin"}
                /\ Goto(r, "refused")
                /\ UNCHANGED found
             \/ /\ way[r] \in {"magic_link", "google"}
                /\ found' = [found EXCEPT ![r] = u]
                /\ Goto(r, IF way[r] = "google" THEN "commit" ELSE "identity")
    /\ UNCHANGED <<accounts, links, way, proof, address, known, earlier>>

ReadIdentity(r) ==
    /\ step[r] = "identity"
    /\ known' = [known EXCEPT ![r] = <<found[r], "magic_link">> \in identity]
    /\ Goto(r, "commit")
    /\ UNCHANGED <<accounts, links, way, proof, address, found, earlier>>

ProviderOf(r) == IF way[r] \in {"register", "admin"} THEN "password" ELSE way[r]

(* Mutant of Conflict: without idx_users_email. *)
ConflictOfIdentity(r, u) ==
    ~known[r] /\ \/ <<u, ProviderOf(r)>> \in identity
                 \/ way[r] = "google" /\ subject[proof[r]] # Nil

(* Mutant of Conflict: without idx_auth_identities_google_subject. *)
ConflictOfUser(r, u) ==
    \/ found[r] = Nil /\ Holders(address[r]) # {}
    \/ ~known[r] /\ <<u, ProviderOf(r)>> \in identity

(* idx_users_email, uq_auth_identities_user_provider and                    *)
(* idx_auth_identities_google_subject.                                      *)
Conflict(r, u) ==
    \/ found[r] = Nil /\ Holders(address[r]) # {}
    \/ ~known[r] /\ \/ <<u, ProviderOf(r)>> \in identity
                    \/ way[r] = "google" /\ subject[proof[r]] # Nil

(* The account of this handler: the one it has found, or a new row. *)
Target(r, u) == IF found[r] = Nil THEN email[u] = Nil ELSE u = found[r]

(* Mutant of Commit: the account is committed before its identity. *)
CommitUserFirst(r, u) ==
    /\ step[r] = "commit" /\ Target(r, u) /\ ~Conflict(r, u)
    /\ email' = [email EXCEPT ![u] = IF found[r] = Nil THEN address[r] ELSE @]
    /\ found' = [found EXCEPT ![r] = u]
    /\ IF found[r] = Nil
          THEN UNCHANGED <<identity, subject, consumed, step>>
          ELSE /\ identity' = identity \cup {<<u, ProviderOf(r)>>}
               /\ subject' = IF way[r] = "google" THEN [subject EXCEPT ![proof[r]] = u] ELSE subject
               /\ consumed' = IF way[r] = "magic_link" THEN consumed \cup {proof[r]} ELSE consumed
               /\ Goto(r, "done")
    /\ UNCHANGED <<status, link, expired, way, proof, address, known, earlier>>

(* One transaction: the account, its identity and the use of the link. *)
Commit(r, u) ==
    /\ step[r] = "commit" /\ Target(r, u) /\ ~Conflict(r, u)
    /\ email' = [email EXCEPT ![u] = IF found[r] = Nil THEN address[r] ELSE @]
    /\ identity' = identity \cup {<<u, ProviderOf(r)>>}
    /\ subject' = IF way[r] = "google" THEN [subject EXCEPT ![proof[r]] = u] ELSE subject
    /\ consumed' = IF way[r] = "magic_link" THEN consumed \cup {proof[r]} ELSE consumed
    /\ found' = [found EXCEPT ![r] = u]
    /\ Goto(r, "done")
    /\ UNCHANGED <<status, link, expired, way, proof, address, known, earlier>>

(* A conflict, a lost connection or a restart: the transaction is undone. *)
Fail(r) ==
    /\ step[r] \in {"user", "identity", "commit"}
    /\ Goto(r, "failed")
    /\ UNCHANGED <<accounts, links, way, proof, address, found, known, earlier>>

(* authenticate_password writes nothing but last_used_at. *)
PasswordLogin(r, u) ==
    /\ u \in Live /\ status[u] = "active" /\ <<u, "password">> \in identity
    /\ Begin(r, "password", Nil, email[u], "done")
    /\ found' = [found EXCEPT ![r] = u]
    /\ UNCHANGED <<accounts, links, known>>

-----------------------------------------------------------------------------
(* Time, and the operator, who closes accounts. *)

LinkExpires(l) ==
    /\ link[l] # Nil /\ l \notin expired
    /\ expired' = expired \cup {l}
    /\ UNCHANGED <<accounts, link, consumed, handlers>>

CloseAccount(u, s) ==
    /\ u \in Live /\ status[u] # s
    /\ status' = [status EXCEPT ![u] = s]
    /\ UNCHANGED <<email, identity, subject, links, handlers>>

Next ==
    \/ \E r \in Request, e \in Email :
          \/ Register(r, e) \/ EnsureAdmin(r, e)
          \/ \E g \in Google : GoogleKnown(r, g, e) \/ GoogleNew(r, g, e)
    \/ \E r \in Request, l \in Link : VerifyLink(r, l)
    \/ \E r \in Request, u \in User : Commit(r, u) \/ PasswordLogin(r, u)
    \/ \E r \in Request : ReadUser(r) \/ ReadIdentity(r) \/ Fail(r)
    \/ \E l \in Link, e \in Email : RequestLink(l, e)
    \/ \E l \in Link : LinkExpires(l)
    \/ \E u \in User, s \in Closing : CloseAccount(u, s)

Spec == Init /\ [][Next]_vars

-----------------------------------------------------------------------------
(* Properties. *)

(* Handlers look for an account and insert one in another step; still no      *)
(* spelling of an address ever has two accounts that are not deleted.         *)
OneAccount == \A u, v \in Live : email[u] = email[v] => u = v

(* No error, conflict or restart leaves an account that nobody can sign in to, *)
(* nor one that a Google subject names without an identity row.               *)
NoEmptyAccount ==
    /\ \A u \in Rows : \E p \in Provider : <<u, p>> \in identity
    /\ \A g \in Google : subject[g] # Nil => <<subject[g], "google">> \in identity

(* Whoever uses up a link is signed in by it: a handler that fails after it    *)
(* has looked at the link leaves it as it was.                                *)
LinkNotWasted ==
    \A l \in consumed : \E u \in Rows :
        email[u] = link[l] /\ <<u, "magic_link">> \in identity

(* The script makes nobody administrator beside an account that a request has *)
(* come out at before, in whatever spelling of the address.                   *)
AdminIsFirst ==
    \A r \in Request : \A q \in earlier[r] :
        /\ step[r] = "done" /\ way[r] = "admin"
        /\ step[q] = "done" /\ found[q] \in Live
        => Lower[email[found[q]]] # address[r]

(* The four together: the rows of accounts fit one another whatever overlaps  *)
(* and whatever fails.                                                        *)
AccountsAreSound == OneAccount /\ NoEmptyAccount /\ LinkNotWasted /\ AdminIsFirst

(* "CITEXT at the DB level" (Models/users.py): whichever way it is spelt, an   *)
(* address has one live account.                                              *)
OneAccountPerAddress ==
    \A u, v \in Live : Lower[email[u]] = Lower[email[v]] => u = v

(* "Single-use": a link signs in twice only by requests that overlapped.      *)
LinkOnce ==
    \A r, q \in Request :
        /\ r # q /\ step[r] = "done" /\ step[q] = "done"
        /\ way[r] = "magic_link" /\ way[q] = "magic_link" /\ proof[r] = proof[q]
        => r \notin earlier[q]

(* A Google account always comes out at the same account of the shop, however *)
(* its first sign-ins overlapped and whatever address it has by then.         *)
SubjectIsStable ==
    \A r, q \in Request :
        /\ step[r] = "done" /\ step[q] = "done"
        /\ way[r] = "google" /\ way[q] = "google" /\ proof[r] = proof[q]
        => found[r] = found[q]
=============================================================================
