---------------------------- MODULE SerialRotations ----------------------------
(* RefreshTokens with a history of overlaps.  What the documents promise of    *)
(* reuse detection, and of one working token at a time, is true of sessions    *)
(* whose rotations come one by one.                                            *)
EXTENDS RefreshTokens

VARIABLE overlapped     \* families that two rotations have worked on at once (history)

At(r, f) == pc[r] \in {"rotate", "revoke"} /\ family[held[r]] = f
Overlaps == {f \in Family : \E q, r \in Request : q # r /\ At(q, f) /\ At(r, f)}

SerialInit == Init /\ overlapped = {}

SerialNext == Next /\ overlapped' = overlapped \cup Overlaps'

SerialSpec == SerialInit /\ [][SerialNext]_<<vars, overlapped>>

-----------------------------------------------------------------------------
(* "reuse of a replaced or revoked token revokes the whole family": after a   *)
(* reuse was detected no token of that family can be rotated any more, whatever *)
(* handlers of other families and logouts do, if the rotations of this family *)
(* came one by one (rotate_refresh_token).                                    *)
ReuseKillsSerialFamily ==
    \A f \in reuseLog \ overlapped : \A t \in Members(f) : ~Usable(t)

(* A session whose rotations came one by one has one token that works: the last *)
(* one handed out by issue_tokens or rotate_refresh_token.                     *)
OneUsableToken ==
    \A s, t \in Issued : family[s] = family[t] /\ family[s] \notin overlapped
                            /\ Usable(s) /\ Usable(t) => s = t
=============================================================================
