---------------------------- MODULE SessionRefresh ----------------------------
(***************************************************************************)
(* One browser in front of RefreshTokens: its cookie jar, the Next.js      *)
(* proxy that refreshes an expired access token (Frontend/src/proxy.ts),   *)
(* and the login and logout server actions.                                *)
(*                                                                         *)
(* A browser request carries the cookies it had when it was sent, and its  *)
(* answer's Set-Cookie headers take effect when it arrives.  A browser     *)
(* has several requests under way at once: the account sidebar alone links *)
(* five pages, and Next.js prefetches links.  Each runs one handler of the *)
(* backend, so browser requests are named by the Request they run.         *)
(***************************************************************************)
EXTENDS RefreshTokens, Naturals, FiniteSets

CONSTANT Faults     \* BOOLEAN: whether the backend restarts and answers get lost

ASSUME FaultsIsBoolean == Faults \in BOOLEAN

VARIABLES
    jar,        \* the browser's access_token and refresh_token cookies
    page,       \* where each browser request is
    sent,       \* the refresh token a request carries, then the one it was granted
    signedIn    \* whose session the person at the browser believes to be in

browser == <<jar, page, sent, signedIn>>
svars == <<vars, browser>>

Jar == [access : BOOLEAN, refresh : Token \cup {Nil}]
Page == {"none", "signin", "refreshing", "leaving", "welcomed", "granted", "failed", "left"}

SessionTypeOK ==
    /\ TypeOK
    /\ jar \in Jar
    /\ page \in [Request -> Page]
    /\ sent \in [Request -> Token \cup {Nil}]
    /\ signedIn \in User \cup {Nil}

SInit ==
    /\ Init
    /\ jar = [access |-> FALSE, refresh |-> Nil]
    /\ page = [r \in Request |-> "none"]
    /\ sent = [r \in Request |-> Nil]
    /\ signedIn = Nil

(* Bound: a request starts only while every request can still take a row id *)
(* and a family, so that running out of model values never blocks one.      *)
RoomForRow ==
    LET busy == Cardinality({r \in Request : page[r] # "none"})
    IN  /\ Cardinality(Token \ Issued) > busy
        /\ Cardinality(Family \ Families) > busy

Send(r, where, t) ==
    /\ page[r] = "none"
    /\ page' = [page EXCEPT ![r] = where]
    /\ sent' = [sent EXCEPT ![r] = t]
    /\ UNCHANGED <<jar, signedIn>>

Answer(r, where, t) ==
    /\ page' = [page EXCEPT ![r] = where]
    /\ sent' = [sent EXCEPT ![r] = t]
    /\ UNCHANGED <<jar, signedIn>>

-----------------------------------------------------------------------------
(* Requests of the browser. *)

(* The login form; a login handler keeps its user in `caller`. *)
SignIn(r, u) ==
    /\ RoomForRow
    /\ PasswordLogin(r, u)
    /\ Send(r, "signin", Nil)

(* The backend answers the login with a fresh family's first token. *)
SignInGranted(r) ==
    /\ page[r] = "signin"
    /\ \E t \in Token, f \in Family : IssueTokens(r, t, f) /\ Answer(r, "welcomed", t)

(* proxy(): a page under /account or /admin without an access cookie.  With *)
(* one the request passes through, with neither cookie it is redirected:    *)
(* both leave the state alone.                                              *)
Navigate(r) ==
    /\ RoomForRow
    /\ ~jar.access /\ jar.refresh # Nil
    /\ Send(r, "refreshing", jar.refresh)
    /\ UNCHANGED vars

(* POST /auth/refresh: the backend reads the row... *)
RefreshRead(r) ==
    /\ page[r] = "refreshing"
    /\ RotateRead(r, sent[r])
    /\ UNCHANGED browser

(* ...answers 401 to an expired token or to one of a closed account... *)
RefreshRefused(r) ==
    /\ page[r] = "refreshing" /\ pc[r] = "idle"
    /\ ~Reused(sent[r])
    /\ expired[sent[r]] \/ status[owner[sent[r]]] # "active"
    /\ Answer(r, "failed", Nil)
    /\ UNCHANGED vars

(* ...rotates... *)
RefreshGranted(r) ==
    /\ page[r] = "refreshing"
    /\ \E t \in Token : RotateCommit(r, t) /\ Answer(r, "granted", t)

(* Mutant of RefreshReuse: the proxy does not look at res.ok. *)
RefreshReuseTaken(r) ==
    /\ page[r] = "refreshing"
    /\ RevokeFamily(r)
    /\ Answer(r, "granted", sent[r])

(* ...or revokes the family. *)
RefreshReuse(r) ==
    /\ page[r] = "refreshing"
    /\ RevokeFamily(r)
    /\ Answer(r, "failed", Nil)

(* Mutant of SetCookies: a refresh stores the access token only. *)
SetAccessCookie(r) ==
    /\ page[r] \in {"granted", "welcomed"}
    /\ jar' = [access |-> TRUE, refresh |-> IF page[r] = "granted" THEN jar.refresh ELSE sent[r]]
    /\ signedIn' = IF page[r] = "welcomed" THEN owner[sent[r]] ELSE signedIn
    /\ page' = [page EXCEPT ![r] = "none"]
    /\ sent' = [sent EXCEPT ![r] = Nil]
    /\ UNCHANGED vars

(* The answer arrives: Set-Cookie for both tokens, over whatever the jar     *)
(* holds by now (applySessionCookies, and the proxy for a refresh).          *)
SetCookies(r) ==
    /\ page[r] \in {"granted", "welcomed"}
    /\ jar' = [access |-> TRUE, refresh |-> sent[r]]
    /\ signedIn' = IF page[r] = "welcomed" THEN owner[sent[r]] ELSE signedIn
    /\ page' = [page EXCEPT ![r] = "none"]
    /\ sent' = [sent EXCEPT ![r] = Nil]
    /\ UNCHANGED vars

(* redirectToLogin: the person lands on the login page, the cookies stay. *)
Bounce(r) ==
    /\ page[r] = "failed"
    /\ Answer(r, "none", Nil)
    /\ UNCHANGED vars

(* The logout action, behind a proxy that lets it through: the backend gets  *)
(* the refresh cookie (with an expired access cookie the proxy refreshes     *)
(* first, which is a Navigate before it)...                                  *)
SignOut(r) ==
    /\ jar.access /\ jar.refresh # Nil
    /\ Send(r, "leaving", jar.refresh)
    /\ UNCHANGED vars

SignOutRead(r) ==
    /\ page[r] = "leaving"
    /\ LogoutRead(r, sent[r])
    /\ UNCHANGED browser

SignOutDone(r) ==
    /\ page[r] = "leaving"
    /\ \/ LogoutCommit(r)
       \/ pc[r] = "idle" /\ revoked[sent[r]] /\ UNCHANGED vars
    /\ Answer(r, "left", Nil)

(* Mutant of ClearCookies: the refresh cookie is forgotten. *)
ClearAccessCookie(r) ==
    /\ page[r] = "left"
    /\ jar' = [jar EXCEPT !.access = FALSE]
    /\ signedIn' = Nil
    /\ page' = [page EXCEPT ![r] = "none"]
    /\ UNCHANGED <<vars, sent>>

(* ...and clearSessionCookies runs whatever the backend answered. *)
ClearCookies(r) ==
    /\ page[r] = "left"
    /\ jar' = [access |-> FALSE, refresh |-> Nil]
    /\ signedIn' = Nil
    /\ page' = [page EXCEPT ![r] = "none"]
    /\ UNCHANGED <<vars, sent>>

(* The access cookie's max-age runs out long before the refresh cookie's. *)
AccessExpires ==
    /\ jar.access
    /\ jar' = [jar EXCEPT !.access = FALSE]
    /\ UNCHANGED <<vars, page, sent, signedIn>>

(* Mutant of BackendCrash: the login form is never told. *)
BackendCrashSilent ==
    /\ Faults
    /\ Crash
    /\ page' = [r \in Request |-> CASE page[r] = "refreshing" -> "failed"
                                 [] page[r] = "leaving" -> "left"
                                 [] OTHER -> page[r]]
    /\ sent' = [r \in Request |-> IF page[r] \in {"refreshing", "leaving"} THEN Nil ELSE sent[r]]
    /\ UNCHANGED <<jar, signedIn>>

(* A restart of the backend fails every fetch under way: the login form shows *)
(* an error, the proxy and the logout action catch it.                        *)
BackendCrash ==
    /\ Faults
    /\ Crash
    /\ page' = [r \in Request |-> CASE page[r] = "signin" -> "none"
                                 [] page[r] = "refreshing" -> "failed"
                                 [] page[r] = "leaving" -> "left"
                                 [] OTHER -> page[r]]
    /\ sent' = [r \in Request |-> IF page[r] \in {"refreshing", "leaving"} THEN Nil ELSE sent[r]]
    /\ UNCHANGED <<jar, signedIn>>

(* The tokens are committed and their answer never reaches the frontend. *)
LoseAnswer(r) ==
    /\ Faults
    /\ page[r] \in {"granted", "welcomed"}
    /\ Answer(r, IF page[r] = "granted" THEN "failed" ELSE "none", Nil)
    /\ UNCHANGED vars

Progress(r) ==
    \/ SignInGranted(r)
    \/ RefreshRead(r) \/ RefreshRefused(r) \/ RefreshGranted(r) \/ RefreshReuse(r)
    \/ SetCookies(r) \/ Bounce(r)
    \/ SignOutRead(r) \/ SignOutDone(r) \/ ClearCookies(r)

Environment ==
    \/ AccessExpires
    \/ (\E t \in Token : Expire(t)) /\ UNCHANGED browser
    \/ (\E u \in User, s \in Status : SetStatus(u, s)) /\ UNCHANGED browser
    \/ BackendCrash
    \/ \E r \in Request : LoseAnswer(r)

SNext ==
    \/ \E r \in Request : Progress(r) \/ Navigate(r) \/ SignOut(r)
    \/ \E r \in Request, u \in User : SignIn(r, u)
    \/ Environment

SSpec == SInit /\ [][SNext]_svars

(* The thread pool runs every handler it has accepted, and a fetch the        *)
(* frontend awaits is answered or fails.                                      *)
FairSSpec == SSpec /\ \A r \in Request : WF_svars(Progress(r))

-----------------------------------------------------------------------------
(* Properties. *)

Entitled ==
    /\ signedIn # Nil /\ \A r \in Request : page[r] \notin {"leaving", "left"}
    /\ jar.refresh # Nil /\ ~expired[jar.refresh] /\ status[owner[jar.refresh]] = "active"

(* proxy.ts "refreshes the session transparently": the refresh of a person    *)
(* who is signed in and not leaving, with a refresh cookie that has not expired   *)
(* and an active account, is not refused.                                     *)
Bounced == \E r \in Request : page[r] = "refreshing" /\ page'[r] = "failed" /\ Entitled

NeverBounced == [][~Bounced]_svars

Carried == ({jar.refresh} \cup {sent[r] : r \in Request}) \ {Nil}

Over ==
    /\ ~jar.access
    /\ \A t \in Carried : Dead(family[t])
    /\ \A r \in Request : page[r] \notin {"signin", "welcomed", "granted"}

(* A browser whose session is over gets no access cookie until somebody signs *)
(* in again, whatever requests are still under way: neither the backend nor   *)
(* the proxy brings the session back.                                         *)
OverUntilSignIn == [][Over => Over' \/ \E r \in Request : page'[r] = "signin"]_svars

(* Every request of the browser ends, through restarts and lost answers too.  *)
RequestsEnd == \A r \in Request : page[r] # "none" ~> page[r] = "none"
=============================================================================
