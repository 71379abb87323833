------------------------- MODULE RefreshTokensProofs -------------------------
(***************************************************************************)
(* Theorems about RefreshTokens, SerialRotations, SessionRefresh and       *)
(* QuietBrowser for every number of tokens, families, users and concurrent *)
(* handlers or requests.                                                   *)
(***************************************************************************)
EXTENDS SerialRotations, QuietBrowser, TLAPS

(* What a handler holds is a committed row, or a user it authenticated. *)
HandlersHoldRows ==
    \A r \in Request :
        /\ pc[r] \in {"rotate", "revoke", "logout"} => held[r] \in Issued
        /\ pc[r] = "issue" => caller[r] \in User

(* An id no row has taken yet carries no pointer, and an issued row has a user. *)
BlankRows ==
    \A t \in Token :
        /\ t \notin Issued => replacedBy[t] = Nil
        /\ t \in Issued => owner[t] \in User

(* The inductive invariant: Lineage alone is not inductive, because a        *)
(* rotation writes to the row it holds and takes an id nobody has.           *)
IInv == TypeOK /\ HandlersHoldRows /\ BlankRows /\ Lineage

-----------------------------------------------------------------------------
(* The initial state satisfies the inductive invariant. *)
LEMMA InitIInv == Init => IInv
BY NilIsNoValue DEF Init, IInv, TypeOK, HandlersHoldRows, BlankRows, Lineage,
                    Issued, Status, Step

(* A row that exists stays in its family and with its owner, whatever runs. *)
LEMMA RowsKeepIdentity ==
    ASSUME IInv, [Next]_vars, NEW t \in Token, t \in Issued
    PROVE  t \in Issued' /\ family'[t] = family[t] /\ owner'[t] = owner[t]
<1> USE NilIsNoValue DEF IInv, TypeOK, Issued
<1>1. ASSUME NEW r \in Request, NEW s \in Token, NEW f \in Family, IssueTokens(r, s, f)
      PROVE  t \in Issued' /\ family'[t] = family[t] /\ owner'[t] = owner[t]
  BY <1>1 DEF IssueTokens, NewRow
<1>2. ASSUME NEW r \in Request, NEW s \in Token, RotateCommit(r, s)
      PROVE  t \in Issued' /\ family'[t] = family[t] /\ owner'[t] = owner[t]
  BY <1>2 DEF RotateCommit, NewRow
<1>3. CASE UNCHANGED <<family, owner>>
  BY <1>3
<1> QED
  BY <1>1, <1>2, <1>3 DEF Next,
     Handler, SignInEndpoint, RefreshEndpoint, LogoutEndpoint, PasswordLogin, MagicLinkLogin, GoogleLogin,
     RotateRead, RevokeFamily, LogoutRead, LogoutCommit, Expire, SetStatus, Crash, vars, rows

(* Every step preserves the types. *)
LEMMA TypeStep == TypeOK /\ HandlersHoldRows /\ BlankRows /\ [Next]_vars => TypeOK'
<1> SUFFICES ASSUME TypeOK, HandlersHoldRows, BlankRows, [Next]_vars
             PROVE  TypeOK'
  OBVIOUS
<1> USE NilIsNoValue DEF TypeOK, Step, Status, Issued
<1>1. ASSUME NEW r \in Request, NEW u \in User,
             PasswordLogin(r, u) \/ MagicLinkLogin(r, u) \/ GoogleLogin(r, u)
      PROVE  TypeOK'
  BY <1>1 DEF PasswordLogin, MagicLinkLogin, GoogleLogin, Await, rows
<1>2. ASSUME NEW r \in Request, NEW t \in Token, NEW f \in Family, IssueTokens(r, t, f)
      PROVE  TypeOK'
  BY <1>2 DEF IssueTokens, NewRow, Finish, HandlersHoldRows
<1>3. ASSUME NEW r \in Request, NEW t \in Token, RotateRead(r, t) \/ LogoutRead(r, t)
      PROVE  TypeOK'
  BY <1>3 DEF RotateRead, LogoutRead, Await, rows
<1>4. ASSUME NEW r \in Request, NEW t \in Token, RotateCommit(r, t)
      PROVE  TypeOK'
  BY <1>4 DEF RotateCommit, NewRow, Finish, HandlersHoldRows, BlankRows
<1>5. ASSUME NEW r \in Request, RevokeFamily(r)
      PROVE  TypeOK'
  <2>1. revoked' \in [Token -> BOOLEAN]
    BY <1>5 DEF RevokeFamily
  <2>2. family[held[r]] \in Family
    BY <1>5 DEF RevokeFamily, HandlersHoldRows
  <2> QED
    BY <1>5, <2>1, <2>2 DEF RevokeFamily, Finish
<1>6. ASSUME NEW r \in Request, LogoutCommit(r)
      PROVE  TypeOK'
  BY <1>6 DEF LogoutCommit, Finish
<1>7. ASSUME NEW t \in Token, Expire(t)
      PROVE  TypeOK'
  BY <1>7 DEF Expire, rows, handlers
<1>8. ASSUME NEW u \in User, NEW s \in Status, SetStatus(u, s)
      PROVE  TypeOK'
  BY <1>8 DEF SetStatus, rows, handlers
<1>9. CASE Crash
  BY <1>9 DEF Crash, rows
<1>10. CASE UNCHANGED vars
  BY <1>10 DEF vars, rows, handlers
<1> QED
  BY <1>1, <1>2, <1>3, <1>4, <1>5, <1>6, <1>7, <1>8, <1>9, <1>10 DEF Next,
     Handler, SignInEndpoint, RefreshEndpoint, LogoutEndpoint

(* Every step preserves what the handlers hold. *)
LEMMA HandlersStep == IInv /\ TypeOK' /\ [Next]_vars => HandlersHoldRows'
<1> SUFFICES ASSUME IInv, TypeOK', [Next]_vars, NEW q \in Request
             PROVE  /\ pc'[q] \in {"rotate", "revoke", "logout"} => held'[q] \in Issued'
                    /\ pc'[q] = "issue" => caller'[q] \in User
  BY DEF HandlersHoldRows
<1>0. Issued \subseteq Issued'
  BY RowsKeepIdentity DEF Issued
<1>a. TypeOK /\ HandlersHoldRows
  BY DEF IInv
<1>1. ASSUME NEW r \in Request, NEW u \in User,
             PasswordLogin(r, u) \/ MagicLinkLogin(r, u) \/ GoogleLogin(r, u)
      PROVE  /\ pc'[q] \in {"rotate", "revoke", "logout"} => held'[q] \in Issued'
             /\ pc'[q] = "issue" => caller'[q] \in User
  BY <1>0, <1>a, <1>1 DEF PasswordLogin, MagicLinkLogin, GoogleLogin, Await,
     HandlersHoldRows, TypeOK
<1>2. ASSUME NEW r \in Request, NEW t \in Token, RotateRead(r, t) \/ LogoutRead(r, t)
      PROVE  /\ pc'[q] \in {"rotate", "revoke", "logout"} => held'[q] \in Issued'
             /\ pc'[q] = "issue" => caller'[q] \in User
  <2>1. t \in Issued
    BY <1>2 DEF RotateRead, LogoutRead
  <2>2. \E s \in {"rotate", "revoke", "logout"} : Await(r, s, t, Nil)
    BY <1>2 DEF RotateRead, LogoutRead
  <2> QED
    BY <1>0, <1>a, <2>1, <2>2 DEF Await, HandlersHoldRows, TypeOK
<1>3. ASSUME NEW r \in Request, Finish(r)
      PROVE  /\ pc'[q] \in {"rotate", "revoke", "logout"} => held'[q] \in Issued'
             /\ pc'[q] = "issue" => caller'[q] \in User
  BY <1>0, <1>a, <1>3 DEF Finish, HandlersHoldRows, TypeOK
<1>4. CASE Crash
  BY <1>4, <1>a DEF Crash
<1>5. CASE UNCHANGED handlers
  BY <1>0, <1>a, <1>5 DEF handlers, HandlersHoldRows
<1> QED
  BY <1>1, <1>2, <1>3, <1>4, <1>5 DEF Next,
     Handler, SignInEndpoint, RefreshEndpoint, LogoutEndpoint, IssueTokens, RotateCommit,
     RevokeFamily, LogoutCommit, Expire, SetStatus, vars

(* Every step preserves the blank rows and the lineage. *)
LEMMA LineageStep == IInv /\ TypeOK' /\ [Next]_vars => BlankRows' /\ Lineage'
<1> SUFFICES ASSUME IInv, TypeOK', [Next]_vars
             PROVE  BlankRows' /\ Lineage'
  OBVIOUS
<1> USE NilIsNoValue DEF IInv, TypeOK, Issued
<1>1. ASSUME NEW r \in Request, NEW n \in Token, NEW f \in Family, IssueTokens(r, n, f)
      PROVE  BlankRows' /\ Lineage'
  <2>1. /\ n \notin Issued /\ caller[r] \in User /\ replacedBy' = replacedBy
        /\ family' = [family EXCEPT ![n] = f]
        /\ owner' = [owner EXCEPT ![n] = caller[r]]
        /\ \A t \in Issued : family[t] # f
    BY <1>1 DEF IssueTokens, NewRow, HandlersHoldRows, Families, Members
  <2>2. BlankRows'
    BY <2>1 DEF BlankRows
  <2>3. Lineage'
    BY <2>1 DEF Lineage, BlankRows
  <2> QED BY <2>2, <2>3
<1>2. ASSUME NEW r \in Request, NEW n \in Token, RotateCommit(r, n)
      PROVE  BlankRows' /\ Lineage'
  <2>1. /\ n \notin Issued /\ held[r] \in Issued
        /\ replacedBy' = [replacedBy EXCEPT ![held[r]] = n]
        /\ family' = [family EXCEPT ![n] = family[held[r]]]
        /\ owner' = [owner EXCEPT ![n] = owner[held[r]]]
    BY <1>2 DEF RotateCommit, NewRow, HandlersHoldRows
  <2>2. BlankRows'
    BY <2>1 DEF BlankRows
  <2>3. Lineage'
    BY <2>1 DEF Lineage, BlankRows
  <2> QED BY <2>2, <2>3
<1>3. CASE UNCHANGED <<family, owner, replacedBy>>
  BY <1>3 DEF BlankRows, Lineage
<1> QED
  BY <1>1, <1>2, <1>3 DEF Next,
     Handler, SignInEndpoint, RefreshEndpoint, LogoutEndpoint, PasswordLogin, MagicLinkLogin, GoogleLogin,
     RotateRead, RevokeFamily, LogoutRead, LogoutCommit, Expire, SetStatus, Crash, vars, rows

LEMMA InvariantStep == IInv /\ [Next]_vars => IInv'
BY TypeStep, HandlersStep, LineageStep DEF IInv

(* The table and the handlers keep their types. *)
THEOREM TypeCorrect == Spec => []TypeOK
<1>1. IInv => TypeOK
  BY DEF IInv
<1> QED
  BY <1>1, InitIInv, InvariantStep, PTL DEF Spec

(* Reuse detection follows a chain that stays in one session of one user. *)
THEOREM LineageCorrect == Spec => []Lineage
<1>1. IInv => Lineage
  BY DEF IInv
<1> QED
  BY <1>1, InitIInv, InvariantStep, PTL DEF Spec

-----------------------------------------------------------------------------
(* A token that cannot be rotated never can be again. *)
LEMMA UnusableStaysUnusable ==
    ASSUME IInv, IInv', [Next]_vars, NEW t \in Token, t \in Issued, ~Usable(t)
    PROVE  ~Usable(t)'
<1> USE NilIsNoValue DEF IInv, TypeOK, Issued
<1>0. /\ replacedBy[t] # Nil => replacedBy'[t] # Nil
      /\ revoked[t] => revoked'[t]
      /\ expired[t] => expired'[t]
  <2>1. ASSUME NEW r \in Request, NEW n \in Token, RotateCommit(r, n)
        PROVE  <1>0!:
    BY <2>1 DEF RotateCommit
  <2>2. ASSUME NEW r \in Request, RevokeFamily(r)
        PROVE  <1>0!:
    BY <2>2 DEF RevokeFamily
  <2>3. ASSUME NEW r \in Request, LogoutCommit(r)
        PROVE  <1>0!:
    BY <2>3 DEF LogoutCommit
  <2>4. ASSUME NEW s \in Token, Expire(s)
        PROVE  <1>0!:
    BY <2>4 DEF Expire, rows
  <2>5. CASE UNCHANGED <<replacedBy, revoked, expired>>
    BY <2>5
  <2> QED
    BY <2>1, <2>2, <2>3, <2>4, <2>5 DEF Next,
       Handler, SignInEndpoint, RefreshEndpoint, LogoutEndpoint, PasswordLogin, MagicLinkLogin,
       GoogleLogin, IssueTokens, RotateRead, LogoutRead, SetStatus, Crash, vars, rows
<1> QED
  BY <1>0 DEF Usable, Reused

(* One step from a dead session leaves it dead. *)
LEMMA DeadStep ==
    ASSUME IInv, IInv', [Next]_vars, NEW f \in Family, Dead(f)
    PROVE  Dead(f)'
<1>0. /\ f \in Families /\ Members(f) # {} /\ f # Nil /\ ~Rotating(f)
      /\ \A t \in Members(f) : t \in Token /\ t \in Issued /\ ~Usable(t)
  BY NilIsNoValue DEF Dead, Families, Members, Issued
<1>1. Members(f)' = Members(f)
  <2>1. ASSUME NEW r \in Request, NEW n \in Token, NEW g \in Family, IssueTokens(r, n, g)
        PROVE  Members(f)' = Members(f)
    BY <1>0, <2>1, NilIsNoValue DEF IssueTokens, NewRow, Families, Members, Issued, IInv, TypeOK
  <2>2. ASSUME NEW r \in Request, NEW n \in Token, RotateCommit(r, n)
        PROVE  Members(f)' = Members(f)
    <3>1. family[held[r]] # f
      BY <1>0, <2>2 DEF Rotating, RotateCommit
    <3> QED
      BY <1>0, <2>2, <3>1, NilIsNoValue DEF RotateCommit, NewRow, Members, Issued, IInv, TypeOK
  <2>3. CASE UNCHANGED family
    BY <2>3 DEF Members
  <2> QED
    BY <2>1, <2>2, <2>3 DEF Next,
       Handler, SignInEndpoint, RefreshEndpoint, LogoutEndpoint, PasswordLogin, MagicLinkLogin, GoogleLogin,
       RotateRead, RevokeFamily, LogoutRead, LogoutCommit, Expire, SetStatus, Crash, vars, rows
<1>2. \A t \in Members(f)' : ~Usable(t)'
  BY <1>0, <1>1, UnusableStaysUnusable
<1>3. ~Rotating(f)'
  <2> SUFFICES ASSUME NEW q \in Request, pc'[q] = "rotate"
               PROVE  family'[held'[q]] # f
    BY DEF Rotating
  <2>1. ASSUME NEW r \in Request, NEW t \in Token, RotateRead(r, t)
        PROVE  family'[held'[q]] # f
    <3>1. family' = family
      BY <2>1 DEF RotateRead, rows
    <3>2. CASE q = r
      <4>1. held'[q] = t /\ Usable(t)
        BY <2>1, <3>2 DEF RotateRead, Await, IInv, TypeOK, Step
      <4>2. t \notin Members(f)
        BY <1>0, <4>1
      <4> QED
        BY <3>1, <4>1, <4>2 DEF Members
    <3>3. CASE q # r
      <4>1. pc[q] = "rotate" /\ held'[q] = held[q]
        BY <2>1, <3>3 DEF RotateRead, Await, IInv, TypeOK
      <4> QED
        BY <1>0, <3>1, <4>1 DEF Rotating
    <3> QED BY <3>2, <3>3
  <2>2. CASE pc[q] = "rotate" /\ held'[q] = held[q]
    <3>1. held[q] \in Issued /\ held[q] \in Token
      BY <2>2 DEF IInv, HandlersHoldRows, Issued
    <3>2. family'[held[q]] = family[held[q]]
      BY <3>1, RowsKeepIdentity
    <3> QED
      BY <1>0, <2>2, <3>2 DEF Rotating
  <2>3. ASSUME NEW r \in Request, NEW s \in {"issue", "logout"}, NEW t, NEW u, Await(r, s, t, u)
        PROVE  pc[q] = "rotate" /\ held'[q] = held[q]
    BY <2>3 DEF Await, IInv, TypeOK
  <2>4. ASSUME NEW r \in Request, Finish(r)
        PROVE  pc[q] = "rotate" /\ held'[q] = held[q]
    BY <2>4 DEF Finish, IInv, TypeOK
  <2>5. ~Crash
    BY DEF Crash
  <2>6. CASE UNCHANGED handlers
    BY <2>2, <2>6 DEF handlers
  <2> QED
    BY <2>1, <2>2, <2>3, <2>4, <2>5, <2>6 DEF Next,
       Handler, SignInEndpoint, RefreshEndpoint, LogoutEndpoint, PasswordLogin, MagicLinkLogin,
       GoogleLogin, IssueTokens, RotateCommit, RevokeFamily, LogoutRead, LogoutCommit,
       Expire, SetStatus, vars
<1>4. f \in Families'
  BY <1>0, <1>1 DEF Families
<1> QED
  BY <1>2, <1>3, <1>4 DEF Dead

(* A session that is over stays over, under any interleaving and any crash. *)
THEOREM DeadFamiliesStayDead == Spec => DeadFamilyStaysDead
<1>1. IInv /\ IInv' /\ [Next]_vars => [\A f \in Family : Dead(f) => Dead(f)']_vars
  BY DeadStep
<1> QED
  BY <1>1, InitIInv, InvariantStep, PTL DEF Spec, DeadFamilyStaysDead

(* A session of a locked-out account is not carried on in one step. *)
LEMMA LockoutStep ==
    ASSUME IInv, IInv', [Next]_vars, NEW u \in User, LockedOut(u), status'[u] # "active"
    PROVE  /\ LockedOut(u)'
           /\ \A t \in Token : owner[t] = u => replacedBy'[t] = replacedBy[t]
<1>0. \A r \in Request : pc[r] = "rotate" => owner[held[r]] # u
  BY DEF LockedOut
<1>1. ASSUME NEW t \in Token, owner[t] = u
      PROVE  replacedBy'[t] = replacedBy[t]
  <2>1. ASSUME NEW r \in Request, NEW n \in Token, RotateCommit(r, n)
        PROVE  replacedBy'[t] = replacedBy[t]
    BY <1>0, <1>1, <2>1 DEF RotateCommit, IInv, TypeOK
  <2>2. CASE UNCHANGED replacedBy
    BY <2>2
  <2> QED
    BY <2>1, <2>2 DEF Next,
       Handler, SignInEndpoint, RefreshEndpoint, LogoutEndpoint, PasswordLogin, MagicLinkLogin, GoogleLogin, IssueTokens,
       RotateRead, RevokeFamily, LogoutRead, LogoutCommit, Expire, SetStatus, Crash, vars, rows
<1>2. ASSUME NEW q \in Request, pc'[q] = "rotate"
      PROVE  owner'[held'[q]] # u
  <2>1. ASSUME NEW r \in Request, NEW t \in Token, RotateRead(r, t)
        PROVE  owner'[held'[q]] # u
    <3>1. owner' = owner /\ status' = status
      BY <2>1 DEF RotateRead, rows
    <3>2. CASE q = r
      <4>1. held'[q] = t /\ status[owner[t]] = "active"
        BY <1>2, <2>1, <3>2 DEF RotateRead, Await, IInv, TypeOK, Step
      <4> QED
        BY <3>1, <4>1
    <3>3. CASE q # r
      <4>1. pc[q] = "rotate" /\ held'[q] = held[q]
        BY <1>2, <2>1, <3>3 DEF RotateRead, Await, IInv, TypeOK
      <4> QED
        BY <1>0, <3>1, <4>1
    <3> QED BY <3>2, <3>3
  <2>2. CASE pc[q] = "rotate" /\ held'[q] = held[q]
    <3>1. held[q] \in Issued /\ held[q] \in Token
      BY <2>2 DEF IInv, HandlersHoldRows, Issued
    <3>2. owner'[held[q]] = owner[held[q]]
      BY <3>1, RowsKeepIdentity
    <3> QED
      BY <1>0, <2>2, <3>2
  <2>3. ASSUME NEW r \in Request, NEW s \in {"issue", "logout"}, NEW t, NEW c, Await(r, s, t, c)
        PROVE  pc[q] = "rotate" /\ held'[q] = held[q]
    BY <1>2, <2>3 DEF Await, IInv, TypeOK
  <2>4. ASSUME NEW r \in Request, Finish(r)
        PROVE  pc[q] = "rotate" /\ held'[q] = held[q]
    BY <1>2, <2>4 DEF Finish, IInv, TypeOK
  <2>5. ~Crash
    BY <1>2 DEF Crash
  <2>6. CASE UNCHANGED handlers
    BY <1>2, <2>2, <2>6 DEF handlers
  <2> QED
    BY <2>1, <2>2, <2>3, <2>4, <2>5, <2>6 DEF Next,
       Handler, SignInEndpoint, RefreshEndpoint, LogoutEndpoint, PasswordLogin, MagicLinkLogin,
       GoogleLogin, IssueTokens, RotateCommit, RevokeFamily, LogoutRead, LogoutCommit,
       Expire, SetStatus, vars
<1> QED
  BY <1>1, <1>2 DEF LockedOut

(* Once an account is closed and its rotations in flight are over, none begins *)
(* and no token of its sessions gets a successor until it is reopened          *)
(* (rotate_refresh_token).  What a suspended user gets by signing in again     *)
(* with Google or a magic link is not covered.                                 *)
THEOREM ClosedAccountsStayLockedOut == Spec => LockoutHolds
<1>1. IInv /\ IInv' /\ [Next]_vars =>
        [\A u \in User : LockedOut(u) /\ status'[u] # "active" =>
           /\ LockedOut(u)'
           /\ \A t \in Token : owner[t] = u => replacedBy'[t] = replacedBy[t]]_vars
  BY LockoutStep
<1> QED
  BY <1>1, InitIInv, InvariantStep, PTL DEF Spec, LockoutHolds

-----------------------------------------------------------------------------
(* What the history of overlaps says of the sessions it does not name: two      *)
(* rotations of one are not under way, the row that one of them holds has no    *)
(* successor yet, only one row has none, and a reuse has ended the session.     *)
OverlapsNoted == Overlaps \subseteq overlapped

HeldIsLast ==
    \A r \in Request : pc[r] = "rotate" /\ family[held[r]] \notin overlapped
                          => replacedBy[held[r]] = Nil

OneLast ==
    \A s, t \in Issued : family[s] = family[t] /\ family[s] \notin overlapped
                            /\ replacedBy[s] = Nil /\ replacedBy[t] = Nil => s = t

ReuseIsDeath == \A f \in reuseLog \ overlapped : Dead(f)

SerialIInv == IInv /\ OverlapsNoted /\ HeldIsLast /\ OneLast /\ ReuseIsDeath

LEMMA SerialInitIInv == SerialInit => SerialIInv
BY InitIInv, NilIsNoValue DEF SerialInit, SerialIInv, OverlapsNoted, HeldIsLast, OneLast,
   ReuseIsDeath, Init, Overlaps, At, Issued

LEMMA SerialSteps == [SerialNext]_<<vars, overlapped>> => [Next]_vars /\ overlapped \subseteq overlapped'
BY DEF SerialNext

LEMMA OverlapsStep == OverlapsNoted /\ [SerialNext]_<<vars, overlapped>> => OverlapsNoted'
BY DEF OverlapsNoted, SerialNext, Overlaps, At, vars, rows, handlers

(* A rotation writes to a row that nobody has replaced since it was read:      *)
(* whoever has would have overlapped with it.                                  *)
LEMMA HeldIsLastStep ==
    ASSUME SerialIInv, IInv', OverlapsNoted', [SerialNext]_<<vars, overlapped>>
    PROVE  HeldIsLast'
<1> SUFFICES ASSUME NEW q \in Request, pc'[q] = "rotate", family'[held'[q]] \notin overlapped'
             PROVE  replacedBy'[held'[q]] = Nil
  BY DEF HeldIsLast
<1>0. IInv /\ TypeOK /\ HeldIsLast /\ overlapped \subseteq overlapped' /\ [Next]_vars
  BY SerialSteps DEF SerialIInv, IInv
<1>1. ASSUME NEW r \in Request, NEW t \in Token, RotateRead(r, t)
      PROVE  replacedBy'[held'[q]] = Nil
  <2>1. replacedBy' = replacedBy /\ family' = family
    BY <1>1 DEF RotateRead, rows
  <2>2. CASE q = r
    BY <1>0, <1>1, <2>1, <2>2 DEF RotateRead, Await, Usable, Reused, TypeOK
  <2>3. CASE q # r
    BY <1>0, <1>1, <2>1, <2>3 DEF RotateRead, Await, HeldIsLast, TypeOK
  <2> QED BY <2>2, <2>3
<1>2. CASE pc[q] = "rotate" /\ held'[q] = held[q]
  <2>1. held[q] \in Issued /\ held[q] \in Token
    BY <1>0, <1>2 DEF IInv, HandlersHoldRows, Issued
  <2>2. family'[held[q]] = family[held[q]]
    BY <1>0, <2>1, RowsKeepIdentity
  <2>3. replacedBy[held[q]] = Nil
    BY <1>0, <1>2, <2>2 DEF HeldIsLast
  <2>4. ASSUME NEW r \in Request, NEW n \in Token, RotateCommit(r, n)
        PROVE  replacedBy'[held[q]] = replacedBy[held[q]]
    <3>1. pc[r] = "rotate" /\ q # r
      BY <1>0, <2>4 DEF RotateCommit, Finish, TypeOK
    <3>2. family[held[q]] \in Family
      BY <1>0, <2>1, NilIsNoValue DEF TypeOK, Issued
    <3>3. held[r] # held[q]
      BY <1>0, <1>2, <2>2, <3>1, <3>2 DEF SerialIInv, OverlapsNoted, Overlaps, At
    <3> QED
      BY <1>0, <2>1, <2>4, <3>3 DEF RotateCommit, TypeOK
  <2>5. CASE UNCHANGED replacedBy
    BY <2>3, <1>2, <2>5
  <2> QED
    BY <1>0, <1>2, <2>3, <2>4, <2>5 DEF Next,
       Handler, SignInEndpoint, RefreshEndpoint, LogoutEndpoint, PasswordLogin, MagicLinkLogin, GoogleLogin, IssueTokens,
       RotateRead, RevokeFamily, LogoutRead, LogoutCommit, Expire, SetStatus, Crash, vars, rows
<1>3. ASSUME NEW r \in Request, NEW s \in {"issue", "logout"}, NEW t, NEW c, Await(r, s, t, c)
      PROVE  pc[q] = "rotate" /\ held'[q] = held[q]
  BY <1>0, <1>3 DEF Await, TypeOK
<1>4. ASSUME NEW r \in Request, Finish(r)
      PROVE  pc[q] = "rotate" /\ held'[q] = held[q]
  BY <1>0, <1>4 DEF Finish, TypeOK
<1>5. ~Crash
  BY DEF Crash
<1>6. CASE UNCHANGED handlers
  BY <1>2, <1>6 DEF handlers
<1> QED
  BY <1>0, <1>1, <1>2, <1>3, <1>4, <1>5, <1>6 DEF Next,
     Handler, SignInEndpoint, RefreshEndpoint, LogoutEndpoint, PasswordLogin, MagicLinkLogin,
     GoogleLogin, IssueTokens, RotateCommit, RevokeFamily, LogoutRead, LogoutCommit,
     Expire, SetStatus, vars

(* A new row is the last of its session, and the one before it is not any more. *)
LEMMA OneLastStep ==
    ASSUME SerialIInv, IInv', [SerialNext]_<<vars, overlapped>>
    PROVE  OneLast'
<1>0. IInv /\ TypeOK /\ BlankRows /\ OneLast /\ overlapped \subseteq overlapped' /\ [Next]_vars
  BY SerialSteps DEF SerialIInv, IInv
<1>1. ASSUME NEW r \in Request, NEW n \in Token, NEW f \in Family, IssueTokens(r, n, f)
      PROVE  OneLast'
  <2>1. /\ n \notin Issued /\ replacedBy' = replacedBy
        /\ family' = [family EXCEPT ![n] = f]
        /\ \A t \in Issued : family[t] # f
    BY <1>1 DEF IssueTokens, NewRow, Families, Members, Issued
  <2> QED
    BY <1>0, <2>1, NilIsNoValue DEF OneLast, Issued, TypeOK
<1>2. ASSUME NEW r \in Request, NEW n \in Token, RotateCommit(r, n)
      PROVE  OneLast'
  <2>1. /\ n \notin Issued /\ held[r] \in Issued /\ pc[r] = "rotate" /\ replacedBy[n] = Nil
        /\ replacedBy' = [replacedBy EXCEPT ![held[r]] = n]
        /\ family' = [family EXCEPT ![n] = family[held[r]]]
    BY <1>0, <1>2 DEF RotateCommit, NewRow, IInv, HandlersHoldRows, BlankRows
  <2>2. family[held[r]] \notin overlapped' => replacedBy[held[r]] = Nil
    BY <1>0, <2>1 DEF SerialIInv, HeldIsLast
  <2>3. ASSUME NEW s \in Issued', NEW t \in Issued', family'[s] = family'[t],
               family'[s] \notin overlapped', replacedBy'[s] = Nil, replacedBy'[t] = Nil
        PROVE  s = t
    <3>1. \A x \in Issued' : /\ x \in Token
                             /\ x # n => x \in Issued /\ family'[x] = family[x]
                             /\ replacedBy'[x] = Nil => x # held[r] /\ replacedBy[x] = Nil
      BY <1>0, <2>1, NilIsNoValue DEF Issued, TypeOK
    <3>2. \A x \in Issued' : x # n /\ family[x] = family[held[r]] /\ replacedBy'[x] = Nil
                               => family[x] \in overlapped'
      BY <1>0, <2>1, <2>2, <3>1 DEF OneLast
    <3>3. family'[n] = family[held[r]]
      BY <1>0, <2>1 DEF TypeOK
    <3> QED
      BY <1>0, <2>3, <3>1, <3>2, <3>3 DEF OneLast
  <2> QED
    BY <2>3 DEF OneLast
<1>3. CASE UNCHANGED <<family, replacedBy>>
  BY <1>0, <1>3 DEF OneLast, Issued
<1> QED
  BY <1>0, <1>1, <1>2, <1>3 DEF Next,
     Handler, SignInEndpoint, RefreshEndpoint, LogoutEndpoint, PasswordLogin, MagicLinkLogin, GoogleLogin,
     RotateRead, RevokeFamily, LogoutRead, LogoutCommit, Expire, SetStatus, Crash, vars, rows

(* The UPDATE of a detected reuse misses nothing if no other rotation of the   *)
(* session is under way, and the session is over.                              *)
LEMMA ReuseStep ==
    ASSUME SerialIInv, IInv', [SerialNext]_<<vars, overlapped>>
    PROVE  ReuseIsDeath'
<1> SUFFICES ASSUME NEW f \in reuseLog', f \notin overlapped'
             PROVE  Dead(f)'
  BY DEF ReuseIsDeath
<1>0. IInv /\ TypeOK /\ f \notin overlapped /\ [Next]_vars
  BY SerialSteps DEF SerialIInv, IInv
<1>1. f \in Family
  BY DEF IInv, TypeOK
<1>2. CASE f \in reuseLog
  <2>1. Dead(f)
    BY <1>0, <1>2 DEF SerialIInv, ReuseIsDeath
  <2> QED
    BY <1>0, <1>1, <2>1, DeadStep
<1>3. ASSUME NEW r \in Request, RevokeFamily(r), f = family[held[r]]
      PROVE  Dead(f)'
  <2>1. held[r] \in Token /\ held[r] \in Issued /\ family' = family /\ pc[r] = "revoke"
    BY <1>0, <1>3 DEF RevokeFamily, IInv, HandlersHoldRows, Issued
  <2>2. f \in Families'
    BY <1>1, <1>3, <2>1 DEF Families, Members
  <2>3. \A t \in Members(f)' : ~Usable(t)'
    BY <1>3, <2>1 DEF RevokeFamily, Members, Usable, Reused
  <2>4. ~Rotating(f)'
    <3> SUFFICES ASSUME NEW q \in Request, pc'[q] = "rotate", family[held'[q]] = f
                 PROVE  FALSE
      BY <2>1 DEF Rotating
    <3>1. q # r /\ pc[q] = "rotate" /\ held'[q] = held[q]
      BY <1>0, <1>3 DEF RevokeFamily, Finish, TypeOK
    <3> QED
      BY <1>0, <1>1, <1>3, <2>1, <3>1 DEF SerialIInv, OverlapsNoted, Overlaps, At
  <2> QED
    BY <2>2, <2>3, <2>4 DEF Dead
<1>4. f \notin reuseLog => \E r \in Request : RevokeFamily(r) /\ f = family[held[r]]
  <2>1. ASSUME NEW r \in Request, RevokeFamily(r), f \notin reuseLog
        PROVE  f = family[held[r]]
    BY <2>1 DEF RevokeFamily
  <2> QED
    BY <1>0, <2>1 DEF Next,
       Handler, SignInEndpoint, RefreshEndpoint, LogoutEndpoint, PasswordLogin, MagicLinkLogin, GoogleLogin, IssueTokens,
       RotateRead, RotateCommit, LogoutRead, LogoutCommit, Expire, SetStatus, Crash, vars, rows
<1> QED
  BY <1>2, <1>3, <1>4

LEMMA SerialInvariantStep == SerialIInv /\ [SerialNext]_<<vars, overlapped>> => SerialIInv'
<1> SUFFICES ASSUME SerialIInv, [SerialNext]_<<vars, overlapped>>
             PROVE  SerialIInv'
  OBVIOUS
<1>1. IInv' /\ OverlapsNoted'
  BY SerialSteps, InvariantStep, OverlapsStep DEF SerialIInv
<1> QED
  BY <1>1, HeldIsLastStep, OneLastStep, ReuseStep DEF SerialIInv

(* A detected reuse ends a session whose rotations came one by one. *)
THEOREM ReuseEndsSerialSessions == SerialSpec => []ReuseKillsSerialFamily
<1>1. SerialIInv => ReuseKillsSerialFamily
  BY DEF SerialIInv, ReuseIsDeath, Dead, ReuseKillsSerialFamily
<1> QED
  BY <1>1, SerialInitIInv, SerialInvariantStep, PTL DEF SerialSpec

(* A session whose rotations came one by one has one working token at most. *)
THEOREM SerialSessionsHaveOneToken == SerialSpec => []OneUsableToken
<1>1. SerialIInv => OneUsableToken
  BY DEF SerialIInv, OneLast, OneUsableToken, Usable, Reused
<1> QED
  BY <1>1, SerialInitIInv, SerialInvariantStep, PTL DEF SerialSpec

-----------------------------------------------------------------------------
(* SessionRefresh.  What the browser knows of a request says where its handler *)
(* is and which row it has read.                                               *)
PagesAgree ==
    \A r \in Request :
        /\ page[r] \in {"none", "granted", "welcomed", "failed", "left"} => pc[r] = "idle"
        /\ page[r] = "signin" => pc[r] = "issue"
        /\ page[r] = "refreshing" => pc[r] \in {"idle", "rotate", "revoke"}
        /\ page[r] = "leaving" => pc[r] \in {"idle", "logout"}
        /\ page[r] \in {"refreshing", "leaving"} /\ pc[r] # "idle" => held[r] = sent[r]
        /\ page[r] \in {"refreshing", "leaving", "granted", "welcomed"} => sent[r] \in Issued
        /\ page[r] \notin {"refreshing", "leaving", "granted", "welcomed"} => sent[r] = Nil

JarHoldsRow == jar.refresh # Nil => jar.refresh \in Issued

UnissuedNotRevoked == \A t \in Token : t \notin Issued => ~revoked[t]

SessionIInv == IInv /\ SessionTypeOK /\ PagesAgree /\ JarHoldsRow /\ UnissuedNotRevoked

(* Every step of the browser is one of the token table or leaves it alone. *)
LEMMA SessionSteps == [SNext]_svars => [Next]_vars
<1> SUFFICES ASSUME [SNext]_svars, ~UNCHANGED vars
             PROVE  Next
  OBVIOUS
<1>1. ASSUME NEW r \in Request, Progress(r)
      PROVE  Next
  <2>1. Handler(r) \/ UNCHANGED vars
    <3>1. CASE SignInGranted(r)
      BY <3>1 DEF SignInGranted, Handler, SignInEndpoint
    <3>2. CASE RefreshRead(r) \/ RefreshGranted(r) \/ RefreshReuse(r)
      BY <3>2 DEF RefreshRead, RefreshGranted, RefreshReuse, Handler, RefreshEndpoint, RotateRead, Issued
    <3>3. CASE SignOutRead(r) \/ SignOutDone(r)
      BY <3>3 DEF SignOutRead, SignOutDone, Handler, LogoutEndpoint, LogoutRead, Issued
    <3>4. CASE RefreshRefused(r) \/ SetCookies(r) \/ Bounce(r) \/ ClearCookies(r)
      BY <3>4 DEF RefreshRefused, SetCookies, Bounce, ClearCookies
    <3> QED
      BY <1>1, <3>1, <3>2, <3>3, <3>4 DEF Progress
  <2> QED
    BY <2>1 DEF Next
<1>2. ASSUME NEW r \in Request, Navigate(r) \/ SignOut(r) \/ LoseAnswer(r)
      PROVE  UNCHANGED vars
  BY <1>2 DEF Navigate, SignOut, LoseAnswer
<1>3. ASSUME NEW r \in Request, NEW u \in User, SignIn(r, u)
      PROVE  Next
  BY <1>3 DEF SignIn, Next, Handler, SignInEndpoint
<1> QED
  BY <1>1, <1>2, <1>3 DEF SNext, Environment, AccessExpires, BackendCrash, svars, Next

LEMMA SessionInitIInv == SInit => SessionIInv
BY InitIInv, NilIsNoValue DEF SInit, SessionIInv, SessionTypeOK, Jar, Page, PagesAgree, JarHoldsRow,
   UnissuedNotRevoked, Init, IInv, Issued

LEMMA UnissuedStep ==
    ASSUME IInv, UnissuedNotRevoked, [Next]_vars
    PROVE  UnissuedNotRevoked'
<1> SUFFICES ASSUME NEW t \in Token, t \notin Issued'
             PROVE  ~revoked'[t]
  BY DEF UnissuedNotRevoked
<1>0. t \notin Issued /\ ~revoked[t] /\ TypeOK
  BY RowsKeepIdentity DEF UnissuedNotRevoked, IInv
<1>1. ASSUME NEW r \in Request, RevokeFamily(r)
      PROVE  ~revoked'[t]
  BY <1>0, <1>1 DEF RevokeFamily, IInv, HandlersHoldRows, Issued
<1>2. ASSUME NEW r \in Request, LogoutCommit(r)
      PROVE  ~revoked'[t]
  BY <1>0, <1>2 DEF LogoutCommit, IInv, HandlersHoldRows, TypeOK
<1>3. CASE UNCHANGED revoked
  BY <1>0, <1>3
<1> QED
  BY <1>1, <1>2, <1>3 DEF Next,
     Handler, SignInEndpoint, RefreshEndpoint, LogoutEndpoint, PasswordLogin, MagicLinkLogin, GoogleLogin, IssueTokens,
     RotateRead, RotateCommit, LogoutRead, Expire, SetStatus, Crash, vars, rows

LEMMA SessionTypeStep ==
    ASSUME SessionIInv, TypeOK', [SNext]_svars
    PROVE  SessionTypeOK'
<1> USE NilIsNoValue DEF SessionTypeOK, Jar, Page, Answer, Send
<1>0. SessionTypeOK /\ TypeOK'
  BY DEF SessionIInv
<1>1. ASSUME NEW r \in Request, Progress(r) PROVE SessionTypeOK'
  <2>1. CASE SignInGranted(r) \/ RefreshGranted(r)
    BY <1>0, <2>1 DEF SignInGranted, RefreshGranted
  <2>2. CASE RefreshRefused(r) \/ RefreshReuse(r) \/ Bounce(r) \/ SignOutDone(r)
    BY <1>0, <2>2 DEF RefreshRefused, RefreshReuse, Bounce, SignOutDone
  <2>3. CASE SetCookies(r)
    <3>1. sent[r] \in Token
      BY <2>3 DEF SetCookies, SessionIInv, PagesAgree, Issued
    <3> QED
      BY <1>0, <2>3, <3>1 DEF SetCookies, TypeOK
  <2>4. CASE ClearCookies(r)
    BY <1>0, <2>4 DEF ClearCookies
  <2>5. CASE RefreshRead(r) \/ SignOutRead(r)
    BY <1>0, <2>5 DEF RefreshRead, SignOutRead, browser
  <2> QED
    BY <1>1, <2>1, <2>2, <2>3, <2>4, <2>5 DEF Progress
<1>2. ASSUME NEW r \in Request, Navigate(r) \/ SignOut(r) PROVE SessionTypeOK'
  BY <1>0, <1>2 DEF Navigate, SignOut
<1>3. ASSUME NEW r \in Request, NEW u \in User, SignIn(r, u) PROVE SessionTypeOK'
  BY <1>0, <1>3 DEF SignIn
<1>4. CASE Environment
  <2>1. CASE AccessExpires
    BY <1>0, <2>1 DEF AccessExpires
  <2>2. CASE BackendCrash
    BY <1>0, <2>2 DEF BackendCrash
  <2>3. ASSUME NEW r \in Request, LoseAnswer(r) PROVE SessionTypeOK'
    BY <1>0, <2>3 DEF LoseAnswer
  <2>4. CASE UNCHANGED browser
    BY <1>0, <2>4 DEF browser
  <2> QED
    BY <1>4, <2>1, <2>2, <2>3, <2>4 DEF Environment
<1>5. CASE UNCHANGED svars
  BY <1>0, <1>5 DEF svars, browser
<1> QED
  BY <1>1, <1>2, <1>3, <1>4, <1>5 DEF SNext

(* A request is where the answers it has had put it. *)
LEMMA PagesStep ==
    ASSUME SessionIInv, [SNext]_svars
    PROVE  PagesAgree' /\ JarHoldsRow'
<1>0. /\ SessionTypeOK /\ TypeOK /\ PagesAgree /\ JarHoldsRow
      /\ \A t \in Issued : t \in Issued'
  BY SessionSteps, RowsKeepIdentity DEF SessionIInv, IInv, Issued
<1> USE <1>0 DEF SessionTypeOK, TypeOK, Jar, Page, Answer, Send, PagesAgree, JarHoldsRow
<1>1. ASSUME NEW r \in Request, NEW u \in User, SignIn(r, u)
      PROVE  PagesAgree' /\ JarHoldsRow'
  BY <1>1 DEF SignIn, PasswordLogin, Await, rows, Issued
<1>2. ASSUME NEW r \in Request, SignInGranted(r)
      PROVE  PagesAgree' /\ JarHoldsRow'
  <2>1. PICK t \in Token, f \in Family : IssueTokens(r, t, f) /\ Answer(r, "welcomed", t)
    BY <1>2 DEF SignInGranted
  <2>2. t \in Issued'
    BY <2>1, NilIsNoValue DEF IssueTokens, NewRow, Issued
  <2> QED
    BY <2>1, <2>2 DEF IssueTokens, Finish
<1>3. ASSUME NEW r \in Request, RefreshRead(r) \/ SignOutRead(r)
      PROVE  PagesAgree' /\ JarHoldsRow'
  BY <1>3 DEF RefreshRead, SignOutRead, RotateRead, LogoutRead, Await, browser, rows
<1>4. ASSUME NEW r \in Request, RefreshGranted(r)
      PROVE  PagesAgree' /\ JarHoldsRow'
  <2>1. PICK t \in Token : RotateCommit(r, t) /\ Answer(r, "granted", t)
    BY <1>4 DEF RefreshGranted
  <2>2. held[r] \in Issued
    BY <2>1 DEF RotateCommit, SessionIInv, IInv, HandlersHoldRows
  <2>3. t \in Issued'
    BY <2>1, <2>2 DEF RotateCommit, NewRow, Issued
  <2> QED
    BY <2>1, <2>3 DEF RotateCommit, Finish
<1>5. ASSUME NEW r \in Request, RefreshReuse(r)
      PROVE  PagesAgree' /\ JarHoldsRow'
  BY <1>5 DEF RefreshReuse, RevokeFamily, Finish
<1>6. ASSUME NEW r \in Request, SignOutDone(r)
      PROVE  PagesAgree' /\ JarHoldsRow'
  BY <1>6 DEF SignOutDone, LogoutCommit, Finish, vars, handlers
<1>7. ASSUME NEW r \in Request,
             \/ RefreshRefused(r) \/ SetCookies(r) \/ Bounce(r) \/ ClearCookies(r)
             \/ Navigate(r) \/ SignOut(r) \/ LoseAnswer(r)
      PROVE  PagesAgree' /\ JarHoldsRow'
  <2>1. UNCHANGED handlers
    BY <1>7 DEF RefreshRefused, SetCookies, Bounce, ClearCookies, Navigate, SignOut, LoseAnswer, vars
  <2> QED
    BY <1>7, <2>1 DEF RefreshRefused, SetCookies, Bounce, ClearCookies, Navigate, SignOut, LoseAnswer, handlers
<1>8. CASE BackendCrash
  BY <1>8 DEF BackendCrash, Crash
<1>9. CASE UNCHANGED <<handlers, page, sent>> /\ (UNCHANGED jar \/ AccessExpires)
  BY <1>9 DEF AccessExpires, handlers
<1> QED
  BY <1>1, <1>2, <1>3, <1>4, <1>5, <1>6, <1>7, <1>8, <1>9 DEF SNext, Progress, Environment, AccessExpires,
     Expire, SetStatus, svars, vars, browser

LEMMA SessionInvariantStep == SessionIInv /\ [SNext]_svars => SessionIInv'
<1> SUFFICES ASSUME SessionIInv, [SNext]_svars
             PROVE  SessionIInv'
  OBVIOUS
<1>1. IInv' /\ UnissuedNotRevoked'
  BY SessionSteps, InvariantStep, UnissuedStep DEF SessionIInv
<1>2. SessionTypeOK'
  BY <1>1, SessionTypeStep DEF IInv
<1> QED
  BY <1>1, <1>2, PagesStep DEF SessionIInv

-----------------------------------------------------------------------------
(* A session that is over for the browser.                                     *)
LEMMA CarriedAreRows == SessionIInv => \A t \in Carried : t \in Token /\ t \in Issued
BY DEF SessionIInv, PagesAgree, JarHoldsRow, Carried, Issued

(* A rotation of a token that the browser carries is one of a live session.    *)
LEMMA OverIsNotGranted ==
    ASSUME SessionIInv, Over, NEW r \in Request
    PROVE  ~RefreshGranted(r)
<1> SUFFICES ASSUME RefreshGranted(r)
             PROVE  FALSE
  OBVIOUS
<1>1. pc[r] = "rotate" /\ page[r] = "refreshing"
  BY DEF RefreshGranted, RotateCommit
<1>2. held[r] = sent[r] /\ sent[r] \in Carried
  BY <1>1, NilIsNoValue DEF SessionIInv, PagesAgree, Carried, Issued
<1> QED
  BY <1>1, <1>2 DEF Over, Dead, Rotating

(* Nothing but a sign-in brings a cookie, or a token that was not carried.     *)
LEMMA OverStep ==
    ASSUME SessionIInv, SessionIInv', [SNext]_svars, Over
    PROVE  Over' \/ \E r \in Request : page'[r] = "signin"
<1> DEFINE Nothing == /\ Carried' \subseteq Carried /\ ~jar'.access
                      /\ \A q \in Request : page'[q] \notin {"signin", "welcomed", "granted"}
<1>0. /\ ~jar.access /\ jar \in Jar /\ page \in [Request -> Page] /\ sent \in [Request -> Token \cup {Nil}]
      /\ \A q \in Request : page[q] \notin {"signin", "welcomed", "granted"}
  BY DEF Over, SessionIInv, SessionTypeOK
<1>1. ASSUME NEW r \in Request, Progress(r)
      PROVE  Nothing
  <2>1. CASE RefreshRead(r) \/ SignOutRead(r)
    BY <1>0, <2>1 DEF RefreshRead, SignOutRead, browser, Carried
  <2>2. CASE RefreshRefused(r) \/ RefreshReuse(r) \/ Bounce(r) \/ SignOutDone(r)
    BY <1>0, <2>2 DEF RefreshRefused, RefreshReuse, Bounce, SignOutDone, Answer, Carried, Page
  <2>3. CASE ClearCookies(r)
    BY <1>0, <2>3 DEF ClearCookies, Carried
  <2>4. ~SignInGranted(r) /\ ~SetCookies(r)
    BY <1>0 DEF SignInGranted, SetCookies
  <2> QED
    BY <1>1, <2>1, <2>2, <2>3, <2>4, OverIsNotGranted DEF Progress
<1>2. ASSUME NEW r \in Request, Navigate(r)
      PROVE  Nothing
  BY <1>0, <1>2 DEF Navigate, Send, Carried
<1>3. ASSUME NEW r \in Request, NEW u \in User, SignIn(r, u)
      PROVE  page'[r] = "signin"
  BY <1>0, <1>3 DEF SignIn, Send
<1>4. ASSUME NEW r \in Request
      PROVE  ~SignOut(r) /\ ~LoseAnswer(r) /\ ~AccessExpires
  BY <1>0 DEF SignOut, LoseAnswer, AccessExpires
<1>5. ASSUME BackendCrash
      PROVE  Nothing
  BY <1>0, <1>5 DEF BackendCrash, Carried
<1>6. ASSUME UNCHANGED browser
      PROVE  Nothing
  BY <1>0, <1>6 DEF browser, Carried
<1>7. Nothing => Over'
  <2> SUFFICES ASSUME Nothing, NEW t \in Carried'
               PROVE  Dead(family[t])'
    BY DEF Over
  <2>1. t \in Token /\ t \in Issued /\ Dead(family[t])
    BY CarriedAreRows DEF Over
  <2>2. family[t] \in Family /\ IInv /\ IInv' /\ [Next]_vars
    BY <2>1, SessionSteps DEF SessionIInv, Dead, Families
  <2>3. family'[t] = family[t]
    BY <2>1, <2>2, RowsKeepIdentity
  <2>4. \A f \in Family : Dead(f) => Dead(f)'
    BY <2>2, DeadStep
  <2> QED
    BY <2>1, <2>2, <2>3, <2>4 DEF Dead, Families, Members, Rotating, Usable, Reused, Issued
<1> QED
  BY <1>0, <1>1, <1>2, <1>3, <1>4, <1>5, <1>6, <1>7 DEF SNext, Environment, AccessExpires, svars

(* Nothing but a sign-in brings a session back that is over for the browser.   *)
THEOREM OverStaysOver == SSpec => OverUntilSignIn
<1>1. SessionIInv /\ SessionIInv' /\ [SNext]_svars =>
        [Over => Over' \/ \E r \in Request : page'[r] = "signin"]_svars
  BY OverStep
<1> QED
  BY <1>1, SessionInitIInv, SessionInvariantStep, PTL DEF SSpec, OverUntilSignIn

-----------------------------------------------------------------------------
(* The token of a login that the browser has not stored yet is the only one of *)
(* its session, and nobody else carries it.                                    *)
WelcomedIsFresh ==
    \A r \in Request : page[r] = "welcomed" =>
        /\ ~Reused(sent[r]) /\ jar.refresh # sent[r]
        /\ \A t \in Token : family[t] = family[sent[r]] => t = sent[r]
        /\ \A q \in Request : q # r => sent[q] # sent[r]

(* A browser that is not disturbed: one request at a time, the token in the    *)
(* jar is of the person, and it can be rotated unless it is being replaced or  *)
(* revoked.                                                                    *)
Alone == \A q, r \in Busy : q = r

JarFollows ==
    \A r \in Request :
        /\ page[r] = "refreshing" => sent[r] = jar.refresh /\ pc[r] # "revoke"
        /\ page[r] = "granted" => jar.refresh # Nil /\ ~Reused(sent[r]) /\ owner[sent[r]] = owner[jar.refresh]

JarIsLast ==
    jar.refresh # Nil /\ (\A r \in Request : page[r] \notin {"granted", "leaving", "left"})
        => ~Reused(jar.refresh)

QuietIInv ==
    /\ SessionIInv /\ WelcomedIsFresh
    /\ ~disturbed => Alone /\ JarFollows /\ JarIsLast /\ JarIsOwn

LEMMA WelcomedStep ==
    ASSUME SessionIInv, SessionIInv', WelcomedIsFresh, [SNext]_svars
    PROVE  WelcomedIsFresh'
<1> SUFFICES ASSUME NEW r \in Request, page'[r] = "welcomed"
             PROVE  /\ ~Reused(sent[r])' /\ jar'.refresh # sent'[r]
                    /\ \A t \in Token : family'[t] = family'[sent'[r]] => t = sent'[r]
                    /\ \A q \in Request : q # r => sent'[q] # sent'[r]
  BY DEF WelcomedIsFresh
<1> DEFINE Fresh == /\ ~Reused(sent[r])' /\ jar'.refresh # sent'[r]
                    /\ \A t \in Token : family'[t] = family'[sent'[r]] => t = sent'[r]
                    /\ \A q \in Request : q # r => sent'[q] # sent'[r]
<1>0. /\ TypeOK /\ SessionTypeOK /\ PagesAgree /\ JarHoldsRow /\ BlankRows /\ UnissuedNotRevoked
      /\ HandlersHoldRows
      /\ sent'[r] \in Issued' /\ sent'[r] \in Token
      /\ page[r] = "welcomed" => /\ sent[r] \in Issued /\ sent[r] \in Token /\ sent[r] # Nil
                                 /\ ~Reused(sent[r]) /\ jar.refresh # sent[r]
                                 /\ \A t \in Token : family[t] = family[sent[r]] => t = sent[r]
                                 /\ \A q \in Request : q # r => sent[q] # sent[r]
  BY NilIsNoValue DEF SessionIInv, IInv, PagesAgree, WelcomedIsFresh, Issued
<1>1. ASSUME NEW q \in Request, SignInGranted(q)
      PROVE  Fresh
  <2>1. PICK n \in Token, f \in Family : IssueTokens(q, n, f) /\ Answer(q, "welcomed", n)
    BY <1>1 DEF SignInGranted
  <2>2. /\ n \notin Issued /\ replacedBy' = replacedBy /\ revoked' = revoked
        /\ family' = [family EXCEPT ![n] = f] /\ \A t \in Issued : family[t] # f
        /\ sent' = [sent EXCEPT ![q] = n] /\ jar' = jar /\ page' = [page EXCEPT ![q] = "welcomed"]
    BY <2>1 DEF IssueTokens, NewRow, Answer, Families, Members, Issued
  <2>3. \A p \in Request : sent[p] # n
    BY <1>0, <2>2, NilIsNoValue DEF PagesAgree
  <2>4. CASE q = r
    BY <1>0, <2>2, <2>3, <2>4, NilIsNoValue
       DEF Reused, JarHoldsRow, BlankRows, UnissuedNotRevoked, Issued, TypeOK, SessionTypeOK
  <2>5. CASE q # r
    <3>1. page[r] = "welcomed" /\ sent'[r] = sent[r]
      BY <1>0, <2>2, <2>5 DEF SessionTypeOK
    <3> QED
      BY <1>0, <2>2, <2>3, <2>5, <3>1, NilIsNoValue DEF Reused, Issued, TypeOK, SessionTypeOK
  <2> QED BY <2>4, <2>5
<1>2. ASSUME NEW q \in Request, RefreshGranted(q)
      PROVE  Fresh
  <2>1. PICK n \in Token : RotateCommit(q, n) /\ Answer(q, "granted", n)
    BY <1>2 DEF RefreshGranted
  <2>2. q # r /\ page[r] = "welcomed" /\ sent'[r] = sent[r]
    BY <1>0, <2>1 DEF Answer, SessionTypeOK
  <2>3. held[q] = sent[q] /\ held[q] \in Issued /\ held[q] \in Token
    BY <1>0, <1>2, <2>1 DEF RotateCommit, RefreshGranted, PagesAgree, HandlersHoldRows, Issued
  <2>4. /\ n \notin Issued /\ revoked' = revoked /\ jar' = jar /\ sent' = [sent EXCEPT ![q] = n]
        /\ replacedBy' = [replacedBy EXCEPT ![held[q]] = n]
        /\ family' = [family EXCEPT ![n] = family[held[q]]]
    BY <2>1 DEF RotateCommit, NewRow, Answer
  <2> QED
    BY <1>0, <2>2, <2>3, <2>4, NilIsNoValue DEF Reused, Issued, TypeOK, SessionTypeOK
<1>3. ASSUME NEW q \in Request, RefreshReuse(q) \/ SignOutDone(q)
      PROVE  Fresh
  <2>1. q # r /\ page[r] = "welcomed" /\ sent'[r] = sent[r] /\ jar' = jar
    BY <1>0, <1>3 DEF RefreshReuse, SignOutDone, Answer, SessionTypeOK
  <2>2. CASE RevokeFamily(q) \/ LogoutCommit(q)
    <3>1. held[q] = sent[q] /\ held[q] \in Issued /\ held[q] \in Token
      BY <1>0, <1>3, <2>2 DEF RevokeFamily, LogoutCommit, RefreshReuse, SignOutDone, PagesAgree, HandlersHoldRows, Issued
    <3>2. replacedBy' = replacedBy /\ family' = family /\ ~revoked'[sent[r]]
      BY <1>0, <2>1, <2>2, <3>1 DEF RevokeFamily, LogoutCommit, Reused, TypeOK
    <3> QED
      BY <1>0, <1>3, <2>1, <3>2, NilIsNoValue DEF Reused, RefreshReuse, SignOutDone, Answer, SessionTypeOK
  <2>3. CASE UNCHANGED vars
    BY <1>0, <1>3, <2>1, <2>3, NilIsNoValue DEF Reused, vars, rows, RefreshReuse, SignOutDone, Answer, SessionTypeOK
  <2> QED
    BY <1>3, <2>2, <2>3 DEF RefreshReuse, SignOutDone
<1>4. ASSUME NEW q \in Request,
             \/ SetCookies(q) \/ Navigate(q) \/ SignOut(q) \/ RefreshRefused(q) \/ Bounce(q)
             \/ ClearCookies(q) \/ LoseAnswer(q)
      PROVE  Fresh
  <2>1. UNCHANGED rows
    BY <1>4 DEF SetCookies, Navigate, SignOut, RefreshRefused, Bounce, ClearCookies, LoseAnswer, vars
  <2>2. q # r /\ page[r] = "welcomed" /\ sent'[r] = sent[r] /\ jar'.refresh \in {jar.refresh, sent[q], Nil}
    BY <1>0, <1>4 DEF SetCookies, Navigate, SignOut, RefreshRefused, Bounce, ClearCookies, LoseAnswer,
       Send, Answer, SessionTypeOK
  <2>3. \A p \in Request : sent'[p] \in {sent[p], jar.refresh, Nil}
    BY <1>0, <1>4 DEF SetCookies, Navigate, SignOut, RefreshRefused, Bounce, ClearCookies, LoseAnswer,
       Send, Answer, SessionTypeOK
  <2> QED
    BY <1>0, <2>1, <2>2, <2>3 DEF Reused, rows
<1>5. ASSUME UNCHANGED rows, jar'.refresh = jar.refresh, page[r] = "welcomed", sent'[r] = sent[r],
             \A p \in Request : sent'[p] \in {sent[p], Nil}
      PROVE  Fresh
  BY <1>0, <1>5 DEF Reused, rows
<1>6. ASSUME NEW q \in Request, RefreshRead(q) \/ SignOutRead(q) \/ \E u \in User : SignIn(q, u)
      PROVE  Fresh
  BY <1>0, <1>5, <1>6 DEF RefreshRead, SignOutRead, SignIn, RotateRead, LogoutRead, PasswordLogin,
     browser, Send, SessionTypeOK
<1>7. CASE AccessExpires \/ BackendCrash \/ UNCHANGED svars \/ UNCHANGED <<rows, browser>>
  BY <1>0, <1>5, <1>7 DEF AccessExpires, BackendCrash, Crash, svars, browser, vars, SessionTypeOK, Jar
<1> QED
  BY <1>1, <1>2, <1>3, <1>4, <1>6, <1>7 DEF SNext, Progress, Environment, Expire, SetStatus

LEMMA QuietInitIInv == QuietInit => QuietIInv
BY SessionInitIInv DEF QuietInit, QuietIInv, SInit, WelcomedIsFresh, Alone, Busy, JarFollows,
   JarIsLast, JarIsOwn

LEMMA QuietSteps ==
    [QuietNext]_<<svars, disturbed>> =>
        /\ [SNext]_svars
        /\ ~disturbed' => \/ SignsInAlone
                          \/ ~disturbed /\ SNext /\ ~Disturbs
                          \/ ~disturbed /\ UNCHANGED svars
<1>1. ASSUME QuietNext
      PROVE  SNext /\ (~disturbed' => SignsInAlone \/ (~disturbed /\ ~Disturbs))
  <2>1. SNext /\ disturbed' = (~SignsInAlone /\ (disturbed \/ Disturbs))
    BY <1>1 DEF QuietNext
  <2> QED
    BY <2>1, Zenon
<1>2. ASSUME UNCHANGED <<svars, disturbed>>
      PROVE  UNCHANGED svars /\ (~disturbed' => ~disturbed)
  <2>1. UNCHANGED svars /\ disturbed' = disturbed
    BY <1>2
  <2> QED
    BY <2>1, Zenon
<1> QED
  BY <1>1, <1>2, Zenon

(* A login that has the browser to itself makes an end of whatever went wrong  *)
(* before: the token it stores can be rotated and nobody else carries it.      *)
LEMMA SignInMakesQuiet ==
    ASSUME QuietIInv, SessionIInv', SignsInAlone
    PROVE  Alone' /\ JarFollows' /\ JarIsLast' /\ JarIsOwn'
<1>1. PICK r \in Request : Busy = {r} /\ page[r] = "welcomed" /\ SetCookies(r)
  BY DEF SignsInAlone
<1>2. /\ UNCHANGED vars /\ signedIn' = owner[sent[r]] /\ jar'.refresh = sent[r]
      /\ \A q \in Request : page'[q] = "none"
      /\ ~Reused(sent[r])
  BY <1>1 DEF SetCookies, QuietIInv, SessionIInv, SessionTypeOK, WelcomedIsFresh, Busy
<1> QED
  BY <1>2 DEF Alone, Busy, JarFollows, JarIsLast, JarIsOwn, Reused, vars, rows

(* The steps of a browser that is not disturbed.                               *)
LEMMA CalmStep ==
    ASSUME QuietIInv, SessionIInv', ~disturbed, SNext, ~Disturbs
    PROVE  Alone' /\ JarFollows' /\ JarIsLast' /\ JarIsOwn'
<1> DEFINE Calm == JarFollows' /\ JarIsLast' /\ (jar'.refresh # Nil => owner'[jar'.refresh] = signedIn')
<1>a. Alone'
  BY DEF Disturbs, Alone
<1>0. /\ IInv /\ TypeOK /\ SessionTypeOK /\ PagesAgree /\ JarHoldsRow /\ BlankRows /\ UnissuedNotRevoked
      /\ HandlersHoldRows /\ WelcomedIsFresh
      /\ JarFollows /\ JarIsLast /\ (jar.refresh # Nil => owner[jar.refresh] = signedIn)
  BY DEF QuietIInv, SessionIInv, IInv, JarIsOwn
<1>b. \A q, r \in Request : page'[q] # "none" /\ page'[r] # "none" => q = r
  BY <1>a DEF Alone, Busy
<1>c. \A q, r \in Request : page[q] # "none" /\ page[r] # "none" => q = r
  BY DEF QuietIInv, Alone, Busy
<1>d. \A t \in Issued : t \in Token /\ t \in Issued' /\ owner'[t] = owner[t]
  <2>1. [Next]_vars
    BY SessionSteps
  <2> QED
    BY <1>0, <2>1, RowsKeepIdentity DEF Issued
<1> USE NilIsNoValue DEF JarFollows, JarIsLast, Reused
<1>1. ASSUME NEW r \in Request, SignInGranted(r)
      PROVE  Calm
  <2>1. PICK n \in Token, f \in Family : IssueTokens(r, n, f) /\ Answer(r, "welcomed", n)
    BY <1>1 DEF SignInGranted
  <2>2. /\ page[r] = "signin" /\ page' = [page EXCEPT ![r] = "welcomed"]
        /\ UNCHANGED <<jar, signedIn, replacedBy, revoked>>
    BY <1>1, <2>1 DEF SignInGranted, IssueTokens, Answer
  <2>3. \A q \in Request : page'[q] \in {"none", "welcomed"} /\ page[q] \in {"none", "signin"}
    BY <1>0, <1>c, <2>2 DEF SessionTypeOK
  <2> QED
    BY <1>0, <1>d, <2>2, <2>3 DEF JarHoldsRow
<1>2. ASSUME NEW r \in Request, RefreshRead(r)
      PROVE  Calm
  <2>1. /\ page[r] = "refreshing" /\ UNCHANGED <<rows, browser>>
        /\ RotateRead(r, sent[r]) /\ sent[r] = jar.refresh /\ sent[r] \in Issued
    BY <1>0, <1>2 DEF RefreshRead, RotateRead, PagesAgree
  <2>2. \A q \in Request : q # r => page[q] = "none"
    BY <1>c, <2>1
  <2>3. ~Reused(sent[r])
    BY <1>0, <2>1, <2>2 DEF Issued
  <2>4. pc'[r] = "rotate"
    BY <1>0, <2>1, <2>3 DEF RotateRead, Await, TypeOK
  <2> QED
    BY <1>0, <2>1, <2>2, <2>4 DEF rows, browser
<1>3. ASSUME NEW r \in Request, RefreshGranted(r)
      PROVE  Calm
  <2>1. PICK n \in Token : RotateCommit(r, n) /\ Answer(r, "granted", n)
    BY <1>3 DEF RefreshGranted
  <2>2. /\ pc[r] = "rotate" /\ page[r] = "refreshing"
        /\ held[r] = sent[r] /\ sent[r] = jar.refresh /\ held[r] \in Issued
    BY <1>0, <1>3, <2>1 DEF RotateCommit, RefreshGranted, PagesAgree, HandlersHoldRows
  <2>3. /\ n \notin Issued /\ revoked' = revoked /\ jar' = jar /\ signedIn' = signedIn
        /\ replacedBy' = [replacedBy EXCEPT ![held[r]] = n]
        /\ owner' = [owner EXCEPT ![n] = owner[held[r]]]
        /\ page' = [page EXCEPT ![r] = "granted"] /\ sent' = [sent EXCEPT ![r] = n]
    BY <2>1 DEF RotateCommit, NewRow, Answer
  <2>4. \A q \in Request : q # r => page'[q] = "none"
    BY <1>0, <1>c, <2>2, <2>3 DEF SessionTypeOK
  <2>5. /\ page'[r] = "granted" /\ sent'[r] = n /\ ~Reused(n)' /\ owner'[n] = owner[jar.refresh]
        /\ jar.refresh # Nil
    BY <1>0, <2>2, <2>3 DEF SessionTypeOK, TypeOK, BlankRows, UnissuedNotRevoked, Issued
  <2> QED
    BY <1>0, <1>d, <2>2, <2>3, <2>4, <2>5
<1>4. ASSUME NEW r \in Request
      PROVE  ~RefreshReuse(r)
  BY <1>0 DEF RefreshReuse, RevokeFamily
<1>5. ASSUME NEW r \in Request, SetCookies(r)
      PROVE  Calm
  <2>1. /\ page[r] \in {"granted", "welcomed"} /\ UNCHANGED vars /\ jar'.refresh = sent[r]
        /\ signedIn' = IF page[r] = "welcomed" THEN owner[sent[r]] ELSE signedIn
        /\ page' = [page EXCEPT ![r] = "none"]
    BY <1>5 DEF SetCookies
  <2>2. \A q \in Request : page'[q] = "none"
    BY <1>0, <1>c, <2>1 DEF SessionTypeOK
  <2>3. ~Reused(sent[r]) /\ owner[sent[r]] = signedIn'
    BY <1>0, <2>1 DEF WelcomedIsFresh
  <2> QED
    BY <2>1, <2>2, <2>3 DEF vars, rows
<1>6. ASSUME NEW r \in Request, SignOutDone(r)
      PROVE  Calm
  <2>1. /\ page[r] = "leaving" /\ page' = [page EXCEPT ![r] = "left"] /\ UNCHANGED <<jar, signedIn>>
    BY <1>6 DEF SignOutDone, Answer
  <2>2. page'[r] = "left" /\ \A q \in Request : q # r => page'[q] = "none"
    BY <1>0, <1>c, <2>1 DEF SessionTypeOK
  <2> QED
    BY <1>0, <1>d, <2>1, <2>2 DEF JarHoldsRow
<1>7. ASSUME NEW r \in Request, Navigate(r) \/ SignOut(r)
      PROVE  Calm
  <2>1. /\ page[r] = "none" /\ UNCHANGED <<vars, jar, signedIn>> /\ sent' = [sent EXCEPT ![r] = jar.refresh]
        /\ page' \in {[page EXCEPT ![r] = "refreshing"], [page EXCEPT ![r] = "leaving"]}
    BY <1>7 DEF Navigate, SignOut, Send
  <2>2. sent'[r] = jar.refresh /\ \A q \in Request : q # r => page'[q] = "none" /\ page[q] = "none"
    BY <1>0, <1>b, <2>1 DEF SessionTypeOK
  <2>3. page'[r] \in {"refreshing", "leaving"} /\ pc'[r] = "idle"
    BY <1>0, <2>1 DEF SessionTypeOK, PagesAgree, vars, handlers
  <2> QED
    BY <1>0, <2>1, <2>2, <2>3 DEF vars, rows
<1>8. ASSUME NEW r \in Request, RefreshRefused(r) \/ Bounce(r)
      PROVE  Calm
  <2>1. /\ page[r] \in {"refreshing", "failed"} /\ UNCHANGED <<vars, jar, signedIn>>
        /\ page' \in {[page EXCEPT ![r] = "failed"], [page EXCEPT ![r] = "none"]}
    BY <1>8 DEF RefreshRefused, Bounce, Answer
  <2>2. page'[r] \in {"failed", "none"} /\ \A q \in Request : q # r => page'[q] = "none" /\ page[q] = "none"
    BY <1>0, <1>c, <2>1 DEF SessionTypeOK
  <2> QED
    BY <1>0, <2>1, <2>2 DEF vars, rows
<1>9. ASSUME NEW r \in Request, ClearCookies(r)
      PROVE  Calm
  <2>1. page[r] = "left" /\ jar'.refresh = Nil /\ page' = [page EXCEPT ![r] = "none"]
    BY <1>9 DEF ClearCookies
  <2>2. \A q \in Request : page'[q] = "none"
    BY <1>0, <1>c, <2>1 DEF SessionTypeOK
  <2> QED
    BY <2>1, <2>2
<1>10. ASSUME NEW r \in Request, NEW u \in User, SignIn(r, u)
      PROVE  Calm
  <2>1. /\ page[r] = "none" /\ UNCHANGED <<rows, jar, signedIn>> /\ page' = [page EXCEPT ![r] = "signin"]
    BY <1>10 DEF SignIn, Send, PasswordLogin
  <2>2. page'[r] = "signin" /\ \A q \in Request : q # r => page'[q] = "none" /\ page[q] = "none"
    BY <1>0, <1>b, <2>1 DEF SessionTypeOK
  <2> QED
    BY <1>0, <2>1, <2>2 DEF rows
<1>11. ASSUME UNCHANGED <<rows, page, sent, signedIn>>, jar'.refresh = jar.refresh,
              \A r \in Request : page[r] = "refreshing" => pc'[r] = pc[r]
      PROVE  Calm
  BY <1>0, <1>11 DEF rows
<1>12. ASSUME NEW r \in Request, SignOutRead(r)
      PROVE  Calm
  BY <1>0, <1>11, <1>12 DEF SignOutRead, LogoutRead, Await, browser, TypeOK
<1>13. ASSUME AccessExpires \/ \E t \in Token : Expire(t) /\ UNCHANGED browser
       PROVE  Calm
  BY <1>0, <1>11, <1>13 DEF AccessExpires, Expire, vars, handlers, browser, SessionTypeOK, Jar
<1>14. ASSUME NEW u \in User, NEW s \in Status, SetStatus(u, s) /\ UNCHANGED browser
       PROVE  Calm
  BY <1>0, <1>11, <1>14 DEF SetStatus, handlers, browser
<1>15. ~BackendCrash /\ \A r \in Request : ~LoseAnswer(r)
  BY DEF Disturbs
<1> QED
  BY <1>a, <1>1, <1>2, <1>3, <1>4, <1>5, <1>6, <1>7, <1>8, <1>9, <1>10, <1>12, <1>13, <1>14, <1>15
     DEF SNext, Progress, Environment, JarIsOwn

LEMMA QuietInvariantStep == QuietIInv /\ [QuietNext]_<<svars, disturbed>> => QuietIInv'
<1> SUFFICES ASSUME QuietIInv, [QuietNext]_<<svars, disturbed>>
             PROVE  QuietIInv'
  OBVIOUS
<1>1. [SNext]_svars /\ SessionIInv'
  BY QuietSteps, SessionInvariantStep DEF QuietIInv
<1>2. WelcomedIsFresh'
  BY <1>1, WelcomedStep DEF QuietIInv
<1>3. ASSUME ~disturbed'
      PROVE  Alone' /\ JarFollows' /\ JarIsLast' /\ JarIsOwn'
  <2>1. CASE SignsInAlone
    BY <1>1, <2>1, SignInMakesQuiet
  <2>2. CASE ~disturbed /\ SNext /\ ~Disturbs
    BY <1>1, <2>2, CalmStep
  <2>3. CASE ~disturbed /\ UNCHANGED svars
    BY <1>3, <2>3 DEF QuietIInv, Alone, Busy, JarFollows, JarIsLast, JarIsOwn, Reused,
       svars, vars, rows, handlers, browser
  <2> QED
    BY <1>3, <2>1, <2>2, <2>3, QuietSteps
<1> QED
  BY <1>1, <1>2, <1>3 DEF QuietIInv

(* While its requests come one by one and are answered, a browser holds the    *)
(* session of the person who signed in.                                        *)
THEOREM QuietJarIsOwn == QuietSpec => []JarIsOwn
<1>1. QuietIInv => JarIsOwn
  BY DEF QuietIInv, JarIsOwn
<1> QED
  BY <1>1, QuietInitIInv, QuietInvariantStep, PTL DEF QuietSpec

(* A refresh is refused to somebody who is entitled to it only if the token is *)
(* not the last one any more.                                                  *)
LEMMA QuietNotBounced ==
    ASSUME QuietIInv, QuietIInv', [QuietNext]_<<svars, disturbed>>, ~disturbed', Bounced
    PROVE  FALSE
<1>1. PICK r \in Request : page[r] = "refreshing" /\ page'[r] = "failed" /\ Entitled
  BY DEF Bounced
<1>2. SessionTypeOK /\ PagesAgree
  BY DEF QuietIInv, SessionIInv
<1>3. ~SignsInAlone
  BY <1>1 DEF SignsInAlone, Busy
<1>4. ~disturbed /\ SNext /\ ~Disturbs
  BY <1>1, <1>3, QuietSteps DEF svars, browser
<1>5. sent[r] = jar.refresh /\ pc[r] # "revoke"
  BY <1>1, <1>4 DEF QuietIInv, JarFollows
<1>6. ~RefreshRefused(r)
  BY <1>1, <1>5 DEF RefreshRefused, Entitled
<1>7. ~RefreshReuse(r)
  BY <1>5 DEF RefreshReuse, RevokeFamily
<1>8. ASSUME NEW q \in Request, Progress(q) \/ Navigate(q) \/ SignOut(q)
      PROVE  FALSE
  <2>1. CASE q = r
    BY <1>1, <1>2, <1>6, <1>7, <1>8, <2>1 DEF Progress, SignInGranted, RefreshRead, RefreshGranted, SetCookies, Bounce,
       SignOutRead, SignOutDone, ClearCookies, Navigate, SignOut, Send, Answer, browser, SessionTypeOK
  <2>2. CASE q # r
    BY <1>1, <1>2, <1>8, <2>2 DEF Progress, SignInGranted, RefreshRead, RefreshRefused, RefreshGranted, RefreshReuse,
       SetCookies, Bounce, SignOutRead, SignOutDone, ClearCookies, Navigate, SignOut, Send, Answer, browser, SessionTypeOK
  <2> QED BY <2>1, <2>2
<1>9. ASSUME NEW q \in Request, NEW u \in User, SignIn(q, u)
      PROVE  FALSE
  BY <1>1, <1>2, <1>9 DEF SignIn, Send, SessionTypeOK
<1>10. ~UNCHANGED page /\ ~BackendCrash /\ \A q \in Request : ~LoseAnswer(q)
  BY <1>1, <1>4 DEF Disturbs
<1> QED
  BY <1>4, <1>8, <1>9, <1>10 DEF SNext, Environment, AccessExpires, browser

(* While its requests come one by one and are answered, a browser is not sent  *)
(* to the login page as long as its cookie and its account are good.           *)
THEOREM QuietStaysSignedIn == QuietSpec => StaysSignedIn
<1>1. QuietIInv /\ QuietIInv' /\ [QuietNext]_<<svars, disturbed>> => [disturbed' \/ ~Bounced]_<<svars, disturbed>>
  BY QuietNotBounced
<1> QED
  BY <1>1, QuietInitIInv, QuietInvariantStep, PTL DEF QuietSpec, StaysSignedIn
=============================================================================
