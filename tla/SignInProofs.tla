----------------------------- MODULE SignInProofs -----------------------------
(***************************************************************************)
(* What SignIn guarantees for any number of requests, accounts, addresses, *)
(* links and Google accounts.                                              *)
(*                                                                         *)
(* The unique indexes are looked at in the step that writes: that no       *)
(* spelling has two accounts needs nothing but the type of a handler that  *)
(* commits.  The rest needs to know what a handler still holds from its    *)
(* SELECTs: Held says it, and Alone of the script that makes the           *)
(* administrator.                                                          *)
(***************************************************************************)
EXTENDS SignIn, TLAPS

Begun(r) == step[r] \in {"user", "identity", "commit"}

(* What a handler has read is still so when it commits, or has stayed so since: *)
(* rows keep their address, identities and subjects are never taken back.       *)
HeldBy(r) ==
    /\ Begun(r) => way[r] \in Way /\ address[r] \in Email
    /\ way[r] = "google" => proof[r] \in Google
    /\ way[r] = "magic_link" =>
          /\ proof[r] \in Link /\ link[proof[r]] # Nil
          /\ address[r] = link[proof[r]]
          /\ found[r] # Nil => email[found[r]] = address[r]
    /\ known[r] =>
          /\ found[r] # Nil
          /\ way[r] \in {"google", "magic_link"}
          /\ way[r] = "google" => subject[proof[r]] = found[r]
          /\ way[r] = "magic_link" => <<found[r], "magic_link">> \in identity
    /\ found[r] # Nil => found[r] \in Rows
    /\ step[r] \in {"new", "user"} => found[r] = Nil /\ ~known[r]
    /\ step[r] = "identity" => found[r] # Nil /\ ~known[r] /\ way[r] = "magic_link"
    /\ step[r] = "done" /\ way[r] = "google" =>
          found[r] # Nil /\ subject[proof[r]] = found[r]

(* Subjects belong to accounts that exist. *)
Held ==
    /\ \A r \in Request : HeldBy(r)
    /\ \A g \in Google : subject[g] # Nil => subject[g] \in Rows

(* A link that has signed somebody in is consumed, and a request that began    *)
(* later goes by another.                                                      *)
Spent ==
    /\ \A r \in Request : step[r] = "done" /\ way[r] = "magic_link" => proof[r] \in consumed
    /\ \A q \in Request : \A r \in earlier[q] :
          /\ step[r] \in Ended
          /\ step[r] = "done" /\ way[r] = "magic_link" /\ way[q] = "magic_link"
                => proof[r] # proof[q]

(* Whom the script has looked for is not there: not an account that a request  *)
(* had come out at before the script began.                                    *)
Alone ==
    \A r \in Request : \A q \in earlier[r] :
        /\ way[r] = "admin" /\ step[r] \in {"commit", "done"}
        /\ step[q] = "done" /\ found[q] \in Live
        => Lower[email[found[q]]] # address[r]

IInv == TypeOK /\ Held /\ Spent /\ Alone

LEMMA InitType == Init => TypeOK
  BY Parameters DEF Init, TypeOK

(* What a request leaves behind when it begins. *)
LEMMA BeginType ==
    ASSUME TypeOK, NEW r \in Request, NEW w \in Way, NEW p \in Link \cup Google \cup {Nil},
           NEW e \in Email, NEW next \in {"user", "commit", "done"}, Begin(r, w, p, e, next)
    PROVE  /\ step' \in [Request -> {"new", "user", "identity", "commit"} \cup Ended]
           /\ way' \in [Request -> Way \cup {Nil}]
           /\ proof' \in [Request -> Link \cup Google \cup {Nil}]
           /\ address' \in [Request -> Email \cup {Nil}]
           /\ earlier' \in [Request -> SUBSET Request]
  BY DEF Begin, TypeOK, Ended

LEMMA StepType == TypeOK /\ Held /\ [Next]_vars => TypeOK'
<1> SUFFICES ASSUME TypeOK, Held, [Next]_vars
             PROVE  TypeOK'
  OBVIOUS
<1>1. ASSUME NEW r \in Request, NEW e \in Email, Register(r, e) \/ EnsureAdmin(r, e)
      PROVE  TypeOK'
  <2>1. \E w \in Way, a \in Email : Begin(r, w, Nil, a, "user")
    BY <1>1, Parameters DEF Register, EnsureAdmin, Way
  <2>2. UNCHANGED <<accounts, links, found, known>>
    BY <1>1 DEF Register, EnsureAdmin
  <2> QED
    BY <2>1, <2>2, BeginType DEF TypeOK, accounts, links
<1>2. ASSUME NEW r \in Request, NEW e \in Email, NEW g \in Google, GoogleNew(r, g, e)
      PROVE  TypeOK'
  <2>1. Begin(r, "google", g, e, "user") /\ "google" \in Way
    BY <1>2 DEF GoogleNew, Way
  <2>2. UNCHANGED <<accounts, links, found, known>>
    BY <1>2 DEF GoogleNew
  <2> QED
    BY <2>1, <2>2, BeginType DEF TypeOK, accounts, links
<1>3. ASSUME NEW r \in Request, NEW e \in Email, NEW g \in Google, GoogleKnown(r, g, e)
      PROVE  TypeOK'
  <2>1. Begin(r, "google", g, e, "commit") /\ "google" \in Way
    BY <1>3 DEF GoogleKnown, Way
  <2>2. /\ UNCHANGED <<accounts, links>>
        /\ found' \in [Request -> User \cup {Nil}] /\ known' \in [Request -> BOOLEAN]
    BY <1>3 DEF GoogleKnown, TypeOK
  <2> QED
    BY <2>1, <2>2, BeginType DEF TypeOK, accounts, links
<1>4. ASSUME NEW r \in Request, NEW l \in Link, VerifyLink(r, l)
      PROVE  TypeOK'
  <2>1. Begin(r, "magic_link", l, link[l], "user") /\ "magic_link" \in Way /\ link[l] \in Email
    BY <1>4 DEF VerifyLink, Way, TypeOK
  <2>2. UNCHANGED <<accounts, links, found, known>>
    BY <1>4 DEF VerifyLink
  <2> QED
    BY <2>1, <2>2, BeginType DEF TypeOK, accounts, links
<1>5. ASSUME NEW r \in Request, NEW u \in User, PasswordLogin(r, u)
      PROVE  TypeOK'
  <2>1. Begin(r, "password", Nil, email[u], "done") /\ "password" \in Way /\ email[u] \in Email
    BY <1>5 DEF PasswordLogin, Way, TypeOK, Live, Rows
  <2>2. UNCHANGED <<accounts, links, known>> /\ found' \in [Request -> User \cup {Nil}]
    BY <1>5 DEF PasswordLogin, TypeOK
  <2> QED
    BY <2>1, <2>2, BeginType DEF TypeOK, accounts, links
<1>6. ASSUME NEW r \in Request, NEW u \in User, Commit(r, u)
      PROVE  TypeOK'
  <2>1. way[r] \in Way /\ address[r] \in Email /\ Begun(r)
    BY <1>6 DEF Commit, Held, HeldBy, Begun
  <2>2. ProviderOf(r) \in Provider
    BY <2>1 DEF ProviderOf, Provider, Way
  <2>3. identity' \subseteq User \X Provider
    BY <1>6, <2>2 DEF Commit, TypeOK
  <2>4. subject' \in [Google -> User \cup {Nil}] /\ consumed' \subseteq Link
    BY <1>6 DEF Commit, TypeOK, Held, HeldBy
  <2>5. email' \in [User -> Email \cup {Nil}]
    BY <1>6, <2>1 DEF Commit, TypeOK
  <2>6. /\ step' \in [Request -> {"new", "user", "identity", "commit"} \cup Ended]
        /\ found' \in [Request -> User \cup {Nil}]
    BY <1>6 DEF Commit, TypeOK, Goto, Ended
  <2> QED
    BY <1>6, <2>3, <2>4, <2>5, <2>6 DEF Commit, TypeOK
<1>7. ASSUME NEW r \in Request, ReadUser(r) \/ ReadIdentity(r) \/ Fail(r)
      PROVE  TypeOK'
  <2>1. step' \in [Request -> {"new", "user", "identity", "commit"} \cup Ended]
    BY <1>7 DEF TypeOK, Ended, ReadUser, ReadIdentity, Fail, Goto
  <2>2. found' \in [Request -> User \cup {Nil}]
    BY <1>7 DEF TypeOK, ReadUser, ReadIdentity, Fail, Matches, Holders, Live, Rows
  <2>3. known' \in [Request -> BOOLEAN]
    <3>1. (<<found[r], "magic_link">> \in identity) \in BOOLEAN
      OBVIOUS
    <3>2. CASE UNCHANGED known
      BY <3>2 DEF TypeOK
    <3>3. CASE \E b \in BOOLEAN : known' = [known EXCEPT ![r] = b]
      BY <3>3 DEF TypeOK
    <3> QED
      BY <1>7, <3>1, <3>2, <3>3 DEF ReadUser, ReadIdentity, Fail
  <2> QED
    <3>1. UNCHANGED <<accounts, links, way, proof, address, earlier>>
      BY <1>7 DEF ReadUser, ReadIdentity, Fail
    <3> QED
      BY <2>1, <2>2, <2>3, <3>1 DEF TypeOK, accounts, links
<1>8. ASSUME NEW l \in Link, LinkExpires(l) \/ \E e \in Email : RequestLink(l, e)
      PROVE  TypeOK'
  BY <1>8 DEF TypeOK, accounts, handlers, LinkExpires, RequestLink
<1>9. ASSUME NEW u \in User, NEW s \in Closing, CloseAccount(u, s)
      PROVE  TypeOK'
  BY <1>9 DEF TypeOK, links, handlers, CloseAccount
<1>10. CASE UNCHANGED vars
  BY <1>10 DEF TypeOK, accounts, links, handlers, vars
<1> QED
  BY <1>1, <1>2, <1>3, <1>4, <1>5, <1>6, <1>7, <1>8, <1>9, <1>10 DEF Next

(* What only grows: nobody moves to another address, and identities, subjects  *)
(* and links are never taken back.                                             *)
Growing ==
    /\ \A u \in User : email[u] # Nil => email'[u] = email[u]
    /\ identity \subseteq identity'
    /\ \A g \in Google : subject[g] # Nil => subject'[g] = subject[g]
    /\ \A l \in Link : link[l] # Nil => link'[l] = link[l]
    /\ consumed \subseteq consumed'

LEMMA Grows == TypeOK /\ Held /\ [Next]_vars => Growing
<1> SUFFICES ASSUME TypeOK, Held, [Next]_vars
             PROVE  Growing
  OBVIOUS
<1>1. ASSUME NEW r \in Request, NEW u \in User, Commit(r, u)
      PROVE  Growing
  <2>1. \A v \in User : email[v] # Nil => email'[v] = email[v]
    BY <1>1 DEF Commit, Target, TypeOK
  <2>2. \A g \in Google : subject[g] # Nil => subject'[g] = subject[g]
    <3> SUFFICES ASSUME NEW g \in Google, subject[g] # Nil, way[r] = "google", proof[r] = g
                 PROVE  subject[g] = u
      BY <1>1 DEF Commit, TypeOK
    <3>1. known[r]
      BY <1>1 DEF Commit, Conflict
    <3> QED
      BY <1>1, <3>1 DEF Commit, Target, Held, HeldBy
  <2> QED
    BY <1>1, <2>1, <2>2 DEF Commit, Growing
<1>2. ASSUME NEW l \in Link, NEW e \in Email, RequestLink(l, e)
      PROVE  Growing
  BY <1>2 DEF RequestLink, Growing, accounts, TypeOK
<1>3. CASE UNCHANGED <<email, identity, subject, link, consumed>>
  BY <1>3 DEF Growing
<1> QED
  BY <1>1, <1>2, <1>3 DEF Next, vars, accounts, links, Register, EnsureAdmin, GoogleKnown,
     GoogleNew, VerifyLink, PasswordLogin, ReadUser, ReadIdentity, Fail, LinkExpires, CloseAccount

LEMMA OthersHeld ==
    ASSUME TypeOK, TypeOK', Held, Growing, NEW q \in Request,
           step'[q] = step[q], way'[q] = way[q], proof'[q] = proof[q],
           address'[q] = address[q], found'[q] = found[q], known'[q] = known[q]
    PROVE  HeldBy(q)'
<1>1. HeldBy(q)
  BY DEF Held
<1>2. found[q] # Nil => found[q] \in User /\ email'[found[q]] = email[found[q]]
  BY <1>1 DEF HeldBy, Growing, Rows, TypeOK
<1>3. way[q] = "google" /\ found[q] # Nil /\ subject[proof[q]] = found[q]
          => subject'[proof[q]] = found[q]
  BY <1>1, Parameters DEF HeldBy, Growing, TypeOK
<1>4. way[q] = "magic_link" => link'[proof[q]] = link[proof[q]]
  BY <1>1 DEF HeldBy, Growing
<1>5. found[q] # Nil => found[q] \in Rows'
  BY <1>1, <1>2 DEF HeldBy, Rows
<1> QED
  BY <1>1, <1>2, <1>3, <1>4, <1>5 DEF HeldBy, Growing, Begun

LEMMA StepHeld == TypeOK /\ Held /\ [Next]_vars => Held'
<1> SUFFICES ASSUME TypeOK, Held, [Next]_vars
             PROVE  Held'
  OBVIOUS
<1>1. TypeOK' /\ Growing
  BY StepType, Grows
<1> USE DEF accounts, links, handlers
<1>2. \A g \in Google : subject'[g] # Nil => subject'[g] \in Rows'
  <2>1. ASSUME NEW g \in Google, subject'[g] = subject[g], subject[g] # Nil
        PROVE  subject'[g] \in Rows'
    BY <1>1, <2>1 DEF Held, Growing, Rows, TypeOK
  <2>2. ASSUME NEW r \in Request, NEW u \in User, Commit(r, u)
        PROVE  u \in Rows'
    <3>1. CASE found[r] = Nil
      <4>1. address[r] \in Email
        BY <2>2 DEF Held, HeldBy, Begun, Commit
      <4> QED
        BY <2>2, <3>1, <4>1, Parameters DEF Commit, Rows, TypeOK
    <3>2. CASE found[r] # Nil
      BY <1>1, <2>2, <3>2 DEF Commit, Target, Held, HeldBy, Growing, Rows, TypeOK
    <3> QED
      BY <3>1, <3>2
  <2>3. \/ UNCHANGED subject
        \/ \E r \in Request, u \in User : Commit(r, u)
    BY DEF Next, vars, Register, EnsureAdmin, GoogleKnown, GoogleNew, VerifyLink, PasswordLogin,
       ReadUser, ReadIdentity, Fail, LinkExpires, CloseAccount, RequestLink
  <2> QED
    BY <2>1, <2>2, <2>3 DEF Commit, TypeOK
<1>3. ASSUME NEW r \in Request, NEW w, NEW p, NEW e, NEW next, Begin(r, w, p, e, next),
             \A q \in Request \ {r} : found'[q] = found[q] /\ known'[q] = known[q],
             HeldBy(r)'
      PROVE  Held'
  BY <1>1, <1>2, <1>3, OthersHeld DEF Begin, TypeOK, Held
<1>4. ASSUME NEW r \in Request, NEW e \in Email, Register(r, e) \/ EnsureAdmin(r, e)
      PROVE  Held'
  <2>1. HeldBy(r)'
    BY <1>1, <1>4, Parameters DEF Register, EnsureAdmin, Begin, Held, HeldBy, Begun, TypeOK, Way, Ended
  <2> QED
    BY <1>3, <1>4, <2>1 DEF Register, EnsureAdmin
<1>5. ASSUME NEW r \in Request, NEW e \in Email, NEW g \in Google, GoogleNew(r, g, e)
      PROVE  Held'
  <2>1. HeldBy(r)'
    <3>1. /\ step'[r] = "user" /\ way'[r] = "google" /\ proof'[r] = g /\ address'[r] = e
          /\ found'[r] = Nil /\ ~known'[r]
      BY <1>5 DEF GoogleNew, Begin, Held, HeldBy, TypeOK
    <3> QED
      BY <3>1 DEF HeldBy, Begun, Way
  <2> QED
    BY <1>3, <1>5, <2>1 DEF GoogleNew
<1>6. ASSUME NEW r \in Request, NEW e \in Email, NEW g \in Google, GoogleKnown(r, g, e)
      PROVE  Held'
  <2>1. HeldBy(r)'
    BY <1>1, <1>2, <1>6 DEF GoogleKnown, Begin, Held, HeldBy, Begun, TypeOK, Way, Ended
  <2> QED
    BY <1>3, <1>6, <2>1 DEF GoogleKnown, TypeOK
<1>7. ASSUME NEW r \in Request, NEW l \in Link, VerifyLink(r, l)
      PROVE  Held'
  <2>1. HeldBy(r)'
    BY <1>1, <1>7 DEF VerifyLink, Begin, Held, HeldBy, Begun, TypeOK, Way, Ended
  <2> QED
    BY <1>3, <1>7, <2>1 DEF VerifyLink
<1>8. ASSUME NEW r \in Request, NEW u \in User, PasswordLogin(r, u)
      PROVE  Held'
  <2>1. HeldBy(r)'
    <3>1. /\ step'[r] = "done" /\ way'[r] = "password"
          /\ found'[r] = u /\ ~known'[r] /\ u \in Rows'
      BY <1>8 DEF PasswordLogin, Begin, Held, HeldBy, TypeOK, Live, Rows
    <3> QED
      BY <3>1 DEF HeldBy, Begun
  <2> QED
    BY <1>3, <1>8, <2>1 DEF PasswordLogin, TypeOK
<1>9. ASSUME NEW r \in Request, NEW u \in User, Commit(r, u)
      PROVE  Held'
  <2>1. u \in Rows'
    <3>1. CASE found[r] = Nil
      BY <1>9, <3>1, Parameters DEF Commit, Rows, TypeOK, Held, HeldBy, Begun
    <3>2. CASE found[r] # Nil
      BY <1>1, <1>9, <3>2 DEF Commit, Target, Held, HeldBy, Growing, Rows, TypeOK
    <3> QED
      BY <3>1, <3>2
  <2>2. way[r] = "magic_link" => email'[u] = address[r]
    BY <1>1, <1>9 DEF Commit, Target, Held, HeldBy, Growing, Rows, TypeOK
  <2>3. way[r] = "google" => subject'[proof[r]] = u
    BY <1>9 DEF Commit, TypeOK, Held, HeldBy
  <2>4. <<u, ProviderOf(r)>> \in identity'
    BY <1>9 DEF Commit
  <2>5. HeldBy(r)'
    <3>1. /\ step'[r] = "done" /\ found'[r] = u /\ u # Nil
          /\ UNCHANGED <<way, proof, address, known, link>>
      BY <1>9, Parameters DEF Commit, Goto, TypeOK
    <3>2. HeldBy(r)
      BY DEF Held
    <3>3. known[r] /\ way[r] = "magic_link" => <<u, "magic_link">> \in identity'
      BY <2>4 DEF ProviderOf
    <3> QED
      BY <2>1, <2>2, <2>3, <3>1, <3>2, <3>3 DEF HeldBy, Begun
  <2>6. \A q \in Request \ {r} : HeldBy(q)'
    BY <1>1, <1>9, OthersHeld DEF Commit, Goto, TypeOK
  <2> QED
    BY <1>2, <2>5, <2>6 DEF Held
<1>10. ASSUME NEW r \in Request, ReadUser(r) \/ ReadIdentity(r) \/ Fail(r)
       PROVE  Held'
  <2>1. \A q \in Request \ {r} : HeldBy(q)'
    BY <1>1, <1>10, OthersHeld DEF ReadUser, ReadIdentity, Fail, Goto, TypeOK
  <2>2. CASE ReadUser(r)
    <3>1. step[r] = "user" /\ found[r] = Nil /\ ~known[r] /\ HeldBy(r)
      BY <2>2 DEF ReadUser, Held, HeldBy
    <3>2. UNCHANGED <<accounts, links, way, proof, address, known>>
      BY <2>2 DEF ReadUser
    <3>3. ASSUME found' = found, step'[r] \in {"commit", "refused"}
          PROVE  HeldBy(r)'
      BY <3>1, <3>2, <3>3 DEF HeldBy, Begun, Rows
    <3>4. ASSUME NEW u \in Matches(r), found'[r] = u, step'[r] \in {"commit", "identity"},
                 way[r] = "google" => step'[r] = "commit", way[r] \in {"magic_link", "google"}
          PROVE  HeldBy(r)'
      <4>1. u \in Rows /\ email[u] = address[r] /\ u # Nil
        BY <3>4, Parameters DEF Matches, Holders, Live, Rows
      <4>2. u \in Rows'
        BY <4>1, <3>2 DEF Rows
      <4> QED
        BY <3>1, <3>2, <3>4, <4>1, <4>2 DEF HeldBy, Begun
    <3>5. \/ found' = found /\ step'[r] \in {"commit", "refused"}
          \/ \E u \in Matches(r) :
                /\ found'[r] = u /\ step'[r] \in {"commit", "identity"}
                /\ way[r] = "google" => step'[r] = "commit"
                /\ way[r] \in {"magic_link", "google"}
      BY <2>2 DEF ReadUser, Goto, TypeOK
    <3> QED
      BY <1>2, <2>1, <3>3, <3>4, <3>5 DEF Held
  <2>3. CASE ReadIdentity(r)
    <3>1. HeldBy(r)'
      BY <2>3 DEF ReadIdentity, Goto, Held, HeldBy, Begun, TypeOK, Rows
    <3> QED
      BY <1>2, <2>1, <3>1 DEF Held
  <2>4. CASE Fail(r)
    <3>1. HeldBy(r)'
      BY <2>4 DEF Fail, Goto, Held, HeldBy, Begun, TypeOK, Rows
    <3> QED
      BY <1>2, <2>1, <3>1 DEF Held
  <2> QED
    BY <1>10, <2>2, <2>3, <2>4
<1>11. CASE UNCHANGED handlers
  BY <1>1, <1>2, <1>11, OthersHeld DEF Held
<1> QED
  BY <1>4, <1>5, <1>6, <1>7, <1>8, <1>9, <1>10, <1>11
     DEF Next, vars, RequestLink, LinkExpires, CloseAccount

LEMMA StepSpent == TypeOK /\ Held /\ Spent /\ [Next]_vars => Spent'
<1> SUFFICES ASSUME TypeOK, Held, Spent, [Next]_vars
             PROVE  Spent'
  OBVIOUS
<1>1. consumed \subseteq consumed'
  BY Grows DEF Growing
<1>2. ASSUME NEW r \in Request, NEW w, NEW p, NEW e, NEW next, Begin(r, w, p, e, next),
             w = "magic_link" => next # "done" /\ p \notin consumed
      PROVE  Spent'
  <2>1. step'[r] = next /\ way'[r] = w /\ proof'[r] = p
    BY <1>2 DEF Begin, TypeOK
  <2>2. \A q \in Request \ {r} : /\ step'[q] = step[q] /\ way'[q] = way[q]
                                 /\ proof'[q] = proof[q] /\ earlier'[q] = earlier[q]
    BY <1>2 DEF Begin, TypeOK
  <2>3. step[r] = "new" /\ earlier'[r] = {q \in Request : step[q] \in Ended}
    BY <1>2 DEF Begin, TypeOK
  <2>4. \A q \in Request : earlier'[q] \subseteq Request \ {r}
    BY <2>2, <2>3 DEF Spent, Ended, TypeOK
  <2>5. \A q \in Request : step'[q] = "done" /\ way'[q] = "magic_link" => proof'[q] \in consumed'
    BY <1>1, <1>2, <2>1, <2>2 DEF Spent
  <2>6. ASSUME NEW q \in Request, NEW z \in earlier'[q]
        PROVE  /\ step'[z] \in Ended
               /\ step'[z] = "done" /\ way'[z] = "magic_link" /\ way'[q] = "magic_link"
                     => proof'[z] # proof'[q]
    <3>1. z \in Request \ {r}
      BY <2>4, <2>6
    <3>2. CASE q = r
      BY <1>2, <2>1, <2>2, <2>3, <3>1, <3>2, <2>6 DEF Spent
    <3>3. CASE q # r
      BY <2>2, <3>1, <3>3, <2>6 DEF Spent
    <3> QED
      BY <3>2, <3>3
  <2> QED
    BY <2>5, <2>6 DEF Spent
<1>3. ASSUME NEW r \in Request, step[r] \notin Ended, UNCHANGED <<way, proof, earlier>>,
             \A q \in Request \ {r} : step'[q] = step[q],
             step'[r] = "done" /\ way[r] = "magic_link" => proof[r] \in consumed'
      PROVE  Spent'
  <2>1. \A q \in Request : earlier[q] \subseteq Request \ {r}
    BY <1>3 DEF Spent, TypeOK
  <2>2. \A q \in Request : step'[q] = "done" /\ way'[q] = "magic_link" => proof'[q] \in consumed'
    BY <1>1, <1>3 DEF Spent
  <2> QED
    BY <1>3, <2>1, <2>2 DEF Spent
<1>4. ASSUME NEW r \in Request, NEW u \in User, Commit(r, u)
      PROVE  Spent'
  BY <1>3, <1>4 DEF Commit, Goto, TypeOK, Ended
<1>5. ASSUME NEW r \in Request, ReadUser(r) \/ ReadIdentity(r) \/ Fail(r)
      PROVE  Spent'
  <2>1. /\ step[r] \notin Ended /\ step'[r] # "done" /\ UNCHANGED <<way, proof, earlier>>
        /\ \A q \in Request \ {r} : step'[q] = step[q]
    BY <1>5 DEF ReadUser, ReadIdentity, Fail, Goto, TypeOK, Ended
  <2> QED
    BY <1>3, <2>1
<1>6. ASSUME NEW r \in Request, NEW e \in Email, Register(r, e) \/ EnsureAdmin(r, e)
      PROVE  Spent'
  BY <1>2, <1>6 DEF Register, EnsureAdmin
<1>7. ASSUME NEW r \in Request, NEW e \in Email, NEW g \in Google,
             GoogleKnown(r, g, e) \/ GoogleNew(r, g, e)
      PROVE  Spent'
  BY <1>2, <1>7 DEF GoogleKnown, GoogleNew
<1>8. ASSUME NEW r \in Request, NEW l \in Link, VerifyLink(r, l)
      PROVE  Spent'
  BY <1>2, <1>8 DEF VerifyLink
<1>9. ASSUME NEW r \in Request, NEW u \in User, PasswordLogin(r, u)
      PROVE  Spent'
  BY <1>2, <1>9 DEF PasswordLogin
<1>10. CASE UNCHANGED handlers
  BY <1>1, <1>10 DEF handlers, Spent
<1> QED
  BY <1>4, <1>5, <1>6, <1>7, <1>8, <1>9, <1>10
     DEF Next, vars, RequestLink, LinkExpires, CloseAccount

(* A request that has ended is not heard of again.                             *)
LEMMA EndedStays ==
    ASSUME TypeOK, [Next]_vars, NEW q \in Request, step[q] \in Ended
    PROVE  step'[q] = step[q] /\ found'[q] = found[q]
<1>1. ASSUME NEW h \in Request, NEW w, NEW p, NEW e, NEW next, Begin(h, w, p, e, next),
             \A z \in Request \ {h} : found'[z] = found[z]
      PROVE  step'[q] = step[q] /\ found'[q] = found[q]
  BY <1>1 DEF Begin, TypeOK, Ended
<1>2. ASSUME NEW h \in Request, step[h] \notin Ended, \E next : Goto(h, next),
             \A z \in Request \ {h} : found'[z] = found[z]
      PROVE  step'[q] = step[q] /\ found'[q] = found[q]
  BY <1>2 DEF Goto, TypeOK, Ended
<1>3. ASSUME NEW h \in Request, NEW e \in Email,
             \/ Register(h, e) \/ EnsureAdmin(h, e)
             \/ \E g \in Google : GoogleNew(h, g, e) \/ GoogleKnown(h, g, e)
      PROVE  step'[q] = step[q] /\ found'[q] = found[q]
  BY <1>1, <1>3 DEF Register, EnsureAdmin, GoogleNew, GoogleKnown, TypeOK
<1>4. ASSUME NEW h \in Request,
             (\E l \in Link : VerifyLink(h, l)) \/ (\E u \in User : PasswordLogin(h, u))
      PROVE  step'[q] = step[q] /\ found'[q] = found[q]
  BY <1>1, <1>4 DEF VerifyLink, PasswordLogin, TypeOK
<1>5. ASSUME NEW h \in Request,
             ReadUser(h) \/ ReadIdentity(h) \/ Fail(h) \/ \E u \in User : Commit(h, u)
      PROVE  step'[q] = step[q] /\ found'[q] = found[q]
  <2>1. step[h] \notin Ended
    BY <1>5 DEF ReadUser, ReadIdentity, Fail, Commit, Ended
  <2>2. \A z \in Request \ {h} : found'[z] = found[z]
    BY <1>5 DEF ReadUser, ReadIdentity, Fail, Commit, TypeOK
  <2> QED
    BY <1>2, <1>5, <2>1, <2>2 DEF ReadUser, ReadIdentity, Fail, Commit, Goto
<1>6. CASE UNCHANGED handlers
  BY <1>6 DEF handlers
<1> QED
  BY <1>3, <1>4, <1>5, <1>6 DEF Next, vars, RequestLink, LinkExpires, CloseAccount

LEMMA StepAlone == IInv /\ [Next]_vars => Alone'
<1> SUFFICES ASSUME IInv, [Next]_vars, NEW r \in Request, NEW q \in earlier'[r],
                    way'[r] = "admin", step'[r] \in {"commit", "done"},
                    step'[q] = "done", found'[q] \in Live'
             PROVE  Lower[email'[found'[q]]] # address'[r]
  BY DEF Alone
<1> USE DEF IInv
<1> DEFINE Kept == /\ way'[r] = way[r] /\ address'[r] = address[r] /\ earlier'[r] = earlier[r]
                   /\ \/ step[r] \in {"commit", "done"}
                      \/ step[r] = "user" /\ Matches(r) = {}
<1>1. Kept
  <2>1. ASSUME NEW h \in Request, NEW w, NEW p, NEW e, NEW next, Begin(h, w, p, e, next),
               w = "admin" => next = "user"
        PROVE  Kept
    <3>1. h # r
      BY <2>1 DEF Begin, TypeOK
    <3> QED
      BY <2>1, <3>1 DEF Begin, TypeOK
  <2>2. ASSUME NEW h \in Request, UNCHANGED <<way, address, earlier>>, NEW next, Goto(h, next),
               h = r => Kept
        PROVE  Kept
    BY <2>2 DEF Goto, TypeOK
  <2>3. ASSUME NEW e \in Email,
               \E h \in Request :
                  \/ Register(h, e) \/ EnsureAdmin(h, e)
                  \/ \E g \in Google : GoogleNew(h, g, e) \/ GoogleKnown(h, g, e)
        PROVE  Kept
    BY <2>1, <2>3 DEF Register, EnsureAdmin, GoogleNew, GoogleKnown
  <2>4. ASSUME NEW h \in Request,
               (\E l \in Link : VerifyLink(h, l)) \/ (\E u \in User : PasswordLogin(h, u))
        PROVE  Kept
    BY <2>1, <2>4 DEF VerifyLink, PasswordLogin
  <2>5. ASSUME NEW h \in Request, ReadUser(h)
        PROVE  Kept
    <3>1. h = r => step[r] = "user" /\ Matches(r) = {}
      BY <2>5 DEF ReadUser, Goto, TypeOK
    <3> QED
      BY <2>2, <2>5, <3>1 DEF ReadUser, Goto
  <2>6. ASSUME NEW h \in Request, ReadIdentity(h)
        PROVE  Kept
    <3>1. h # r
      BY <2>6 DEF ReadIdentity, Held, HeldBy
    <3> QED
      BY <2>2, <2>6, <3>1 DEF ReadIdentity
  <2>7. ASSUME NEW h \in Request, Fail(h)
        PROVE  Kept
    <3>1. h # r
      BY <2>7 DEF Fail, Goto, TypeOK
    <3> QED
      BY <2>2, <2>7, <3>1 DEF Fail
  <2>8. ASSUME NEW h \in Request, NEW u \in User, Commit(h, u)
        PROVE  Kept
    <3>1. h = r => step[r] = "commit"
      BY <2>8 DEF Commit
    <3> QED
      BY <2>2, <2>8, <3>1 DEF Commit
  <2>9. CASE UNCHANGED handlers
    BY <2>9 DEF handlers
  <2> HIDE DEF Kept
  <2> QED
    BY <2>3, <2>4, <2>5, <2>6, <2>7, <2>8, <2>9
       DEF Next, vars, RequestLink, LinkExpires, CloseAccount
<1>2. q \in earlier[r] /\ step[q] = "done" /\ found'[q] = found[q]
  BY <1>1, EndedStays DEF Spent, TypeOK
<1>3. found[q] \in Live /\ email'[found[q]] = email[found[q]]
  <2>1. found[q] \in User /\ status'[found[q]] # "deleted" /\ found[q] # Nil
    BY <1>2, Parameters DEF Live, Rows
  <2>2. q \in Request
    BY <1>1, <1>2 DEF TypeOK
  <2>3. found[q] \in Rows
    BY <2>1, <2>2 DEF Held, HeldBy
  <2>4. \A u \in User : status[u] = "deleted" => status'[u] = "deleted"
    BY DEF Next, vars, accounts, Register, EnsureAdmin, GoogleKnown, GoogleNew, VerifyLink,
       PasswordLogin, Commit, ReadUser, ReadIdentity, Fail, RequestLink, LinkExpires,
       CloseAccount, Live, TypeOK
  <2>5. email'[found[q]] = email[found[q]]
    BY <2>1, <2>3, Grows DEF Growing, Rows
  <2> QED
    BY <2>1, <2>3, <2>4, <2>5 DEF Live
<1>4. CASE step[r] = "user" /\ Matches(r) = {}
  BY <1>1, <1>3, <1>2, <1>4 DEF Matches
<1>5. CASE step[r] \in {"commit", "done"}
  BY <1>1, <1>2, <1>3, <1>5 DEF Alone
<1> QED
  BY <1>1, <1>4, <1>5

LEMMA InitIInv == Init => IInv
<1> SUFFICES ASSUME Init
             PROVE  IInv
  OBVIOUS
<1>1. Held
  <2>1. \A r \in Request : HeldBy(r)
    <3> SUFFICES ASSUME NEW r \in Request
                 PROVE  HeldBy(r)
      OBVIOUS
    <3>1. step[r] = "new" /\ way[r] = Nil /\ found[r] = Nil /\ ~known[r]
      BY DEF Init
    <3>2. way[r] # "google" /\ way[r] # "magic_link"
      BY <3>1, Parameters
    <3> QED
      BY <3>1, <3>2 DEF HeldBy, Begun
  <2> QED
    BY <2>1 DEF Init, Held
<1>2. Spent
  BY DEF Init, Spent
<1>3. Alone
  BY DEF Init, Alone
<1> QED
  BY <1>1, <1>2, <1>3, InitType DEF IInv

LEMMA InvariantStep == IInv /\ [Next]_vars => IInv'
  BY StepType, StepHeld, StepSpent, StepAlone DEF IInv

(* Accounts, links and handlers keep their types (Models/users.py,             *)
(* auth_identities.py, magic_link_tokens.py).                                  *)
THEOREM TypeCorrect == Spec => []TypeOK
<1>1. IInv => TypeOK
  BY DEF IInv
<1> QED
  BY <1>1, InitIInv, InvariantStep, PTL DEF Spec

(* A magic link signs in twice only by requests that overlapped                *)
(* (verify_magic_link reads consumed_at and sets it in the end).               *)
THEOREM LinkOnceHolds == Spec => []LinkOnce
<1>1. IInv => LinkOnce
  BY DEF IInv, Spent, LinkOnce
<1> QED
  BY <1>1, InitIInv, InvariantStep, PTL DEF Spec

(* However the first sign-ins of a Google account overlap, it comes out at one *)
(* account (authenticate_google, idx_auth_identities_google_subject).          *)
THEOREM SubjectIsAlwaysStable == Spec => []SubjectIsStable
<1>1. ASSUME Held, NEW r \in Request, step[r] = "done", way[r] = "google"
      PROVE  found[r] = subject[proof[r]]
  <2>1. HeldBy(r)
    BY <1>1 DEF Held
  <2> QED
    BY <1>1, <2>1 DEF HeldBy
<1>2. IInv => SubjectIsStable
  BY <1>1 DEF IInv, SubjectIsStable
<1> QED
  BY <1>2, InitIInv, InvariantStep, PTL DEF Spec

-----------------------------------------------------------------------------
(* The tables themselves. *)

LEMMA AdminAlone == IInv => AdminIsFirst
  BY DEF IInv, Alone, AdminIsFirst

LEMMA StepSound == IInv /\ AccountsAreSound /\ [Next]_vars => AccountsAreSound'
<1> SUFFICES ASSUME IInv, AccountsAreSound, [Next]_vars
             PROVE  AccountsAreSound'
  OBVIOUS
<1> DEFINE Tables == OneAccount /\ NoEmptyAccount /\ LinkNotWasted
<1>0. ASSUME Tables'
      PROVE  AccountsAreSound'
  BY <1>0, InvariantStep, AdminAlone, PTL DEF AccountsAreSound
<1> USE DEF IInv
<1>1. TypeOK' /\ Held' /\ Growing
  BY InvariantStep, Grows
<1>2. ASSUME NEW r \in Request, NEW u \in User, Commit(r, u)
      PROVE  AccountsAreSound'
  <2>1. /\ way[r] \in Way /\ address[r] \in Email /\ address[r] # Nil
        /\ found[r] # Nil => u \in Rows
        /\ found[r] = Nil => u \notin Rows
    BY <1>2, Parameters DEF Commit, Target, Held, HeldBy, Begun, Rows
  <2>2. <<u, ProviderOf(r)>> \in identity' /\ ProviderOf(r) \in Provider
    BY <1>2, <2>1 DEF Commit, ProviderOf, Way, Provider
  <2>3. /\ UNCHANGED <<status, link, address>>
        /\ email' = [email EXCEPT ![u] = IF found[r] = Nil THEN address[r] ELSE @]
        /\ identity \subseteq identity'
    BY <1>2 DEF Commit
  <2>4. Rows' = Rows \cup {u}
    BY <2>1, <2>3 DEF Rows, TypeOK
  <2>5. OneAccount'
    <3>1. CASE found[r] # Nil
      BY <2>3, <3>1 DEF AccountsAreSound, OneAccount, Live, Rows, TypeOK
    <3>2. CASE found[r] = Nil
      <4>1. email'[u] = address[r] /\ \A v \in User \ {u} : email'[v] = email[v]
        BY <2>3, <3>2 DEF TypeOK
      <4>2. Holders(address[r]) = {}
        BY <1>2, <3>2 DEF Commit, Conflict
      <4>3. \A v \in User \ {u} : v \in Live' => v \in Live /\ email[v] # address[r]
        BY <2>3, <4>1, <4>2 DEF Live, Rows, Holders
      <4> QED
        BY <4>1, <4>3 DEF AccountsAreSound, OneAccount, Live, Rows
    <3> QED
      BY <3>1, <3>2
  <2>6. NoEmptyAccount'
    <3>1. \A v \in Rows' : \E p \in Provider : <<v, p>> \in identity'
      BY <2>2, <2>3, <2>4 DEF AccountsAreSound, NoEmptyAccount
    <3>2. ASSUME NEW g \in Google, subject'[g] # Nil
          PROVE  <<subject'[g], "google">> \in identity'
      <4>1. CASE subject'[g] = subject[g]
        BY <2>3, <3>2, <4>1 DEF AccountsAreSound, NoEmptyAccount
      <4>2. CASE way[r] = "google" /\ subject'[g] = u
        BY <2>2, <4>2 DEF ProviderOf
      <4> QED
        BY <1>2, <4>1, <4>2 DEF Commit, TypeOK
    <3> QED
      BY <3>1, <3>2 DEF NoEmptyAccount
  <2>7. LinkNotWasted'
    <3>1. ASSUME NEW l \in consumed
          PROVE  \E v \in Rows' : email'[v] = link'[l] /\ <<v, "magic_link">> \in identity'
      <4>1. PICK v \in Rows : email[v] = link[l] /\ <<v, "magic_link">> \in identity
        BY <3>1 DEF AccountsAreSound, LinkNotWasted
      <4>2. v \in Rows' /\ email'[v] = email[v]
        BY <1>1, <2>4 DEF Growing, Rows
      <4> QED
        BY <2>3, <4>1, <4>2
    <3>2. ASSUME way[r] = "magic_link"
          PROVE  email'[u] = link'[proof[r]] /\ <<u, "magic_link">> \in identity'
      <4>1. email'[u] = address[r]
        <5>1. found[r] # Nil => u = found[r] /\ email[u] = address[r]
          BY <1>2, <3>2 DEF Commit, Target, Held, HeldBy
        <5> QED
          BY <2>3, <5>1 DEF TypeOK
      <4> QED
        BY <2>2, <2>3, <3>2, <4>1 DEF Held, HeldBy, ProviderOf
    <3> QED
      BY <1>2, <2>4, <3>1, <3>2 DEF Commit, LinkNotWasted
  <2> QED
    BY <1>0, <2>5, <2>6, <2>7
<1>3. ASSUME NEW l \in Link, NEW e \in Email, RequestLink(l, e)
      PROVE  AccountsAreSound'
  <2>1. UNCHANGED <<accounts, consumed>>
    BY <1>3 DEF RequestLink
  <2>2. \A k \in consumed : link'[k] = link[k]
    <3> SUFFICES ASSUME NEW k \in consumed
                 PROVE  link[k] # Nil /\ k \in Link
      BY <1>1 DEF Growing
    <3> QED
      BY DEF AccountsAreSound, LinkNotWasted, Rows, TypeOK
  <2> QED
    BY <1>0, <2>1, <2>2 DEF AccountsAreSound, OneAccount, NoEmptyAccount, LinkNotWasted, accounts,
       Live, Rows
<1>4. ASSUME NEW u \in User, NEW s \in Closing, CloseAccount(u, s)
      PROVE  AccountsAreSound'
  <2>1. UNCHANGED <<email, identity, subject, link, consumed>>
    BY <1>4 DEF CloseAccount, links
  <2>2. Rows' = Rows /\ Live' \subseteq Live
    BY <1>4, <2>1 DEF CloseAccount, Live, Rows, TypeOK
  <2> QED
    BY <1>0, <2>1, <2>2 DEF AccountsAreSound, OneAccount, NoEmptyAccount, LinkNotWasted
<1>5. CASE UNCHANGED <<accounts, link, consumed>>
  BY <1>0, <1>5 DEF AccountsAreSound, OneAccount, NoEmptyAccount, LinkNotWasted, accounts, Live, Rows
<1> QED
  BY <1>2, <1>3, <1>4, <1>5 DEF Next, vars, links, Register, EnsureAdmin, GoogleKnown,
     GoogleNew, VerifyLink, PasswordLogin, ReadUser, ReadIdentity, Fail, LinkExpires

LEMMA InitSound == Init => AccountsAreSound
  BY DEF Init, AccountsAreSound, OneAccount, NoEmptyAccount, LinkNotWasted, AdminIsFirst, Live, Rows

(* However registrations, first sign-ins and the script of the deployment      *)
(* overlap, and whatever fails or is cut short: no spelling of an address has  *)
(* two live accounts, the script makes no administrator beside an account that *)
(* was there before it in another spelling, every account has a way in, and a  *)
(* link is used up only in the transaction that signs its address in (the      *)
(* unique index on a Text column decides at the commit, AuthService commits a  *)
(* user with its identity, ensure_demo_admin compares lower(users.email)).     *)
THEOREM AccountsStaySound == Spec => []AccountsAreSound
<1> QED
  BY InitIInv, InvariantStep, InitSound, StepSound, PTL DEF Spec
=============================================================================
