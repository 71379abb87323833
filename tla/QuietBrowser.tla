----------------------------- MODULE QuietBrowser -----------------------------
(* SessionRefresh with a history of what went wrong.  What a person may rely   *)
(* on is true while the requests of the browser come one by one and are       *)
(* answered.                                                                   *)
EXTENDS SessionRefresh

VARIABLE disturbed  \* since the last login that had the browser to itself,
                    \* requests overlapped, the backend restarted or an answer was lost (history)

Busy == {r \in Request : page[r] # "none"}

SignsInAlone == \E r \in Request : Busy = {r} /\ page[r] = "welcomed" /\ SetCookies(r)

Disturbs ==
    \/ \E q, r \in Busy' : q # r
    \/ BackendCrash
    \/ \E r \in Request : LoseAnswer(r)

QuietInit == SInit /\ disturbed = FALSE

QuietNext ==
    /\ SNext
    /\ disturbed' = (~SignsInAlone /\ (disturbed \/ Disturbs))

QuietSpec == QuietInit /\ [][QuietNext]_<<svars, disturbed>>

-----------------------------------------------------------------------------
(* While the requests of the browser come one by one and are answered, the     *)
(* session in the jar is the one of the person who signed in last, whatever    *)
(* happened before that login, and there is none after a logout                *)
(* (applySessionCookies, clearSessionCookies).                                 *)
JarIsOwn == ~disturbed /\ jar.refresh # Nil => owner[jar.refresh] = signedIn

(* proxy.ts "refreshes the session transparently": while requests come one by  *)
(* one and are answered, nobody who is signed in and not leaving, with a refresh *)
(* cookie that has not expired and an active account, is sent to the login page. *)
StaysSignedIn == [][disturbed' \/ ~Bounced]_<<svars, disturbed>>
=============================================================================
