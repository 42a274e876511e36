----------------------------- MODULE IdentityProofs -----------------------------
(***************************************************************************)
(* The properties of Identity for every number of users, requests, tokens  *)
(* and addresses.  ShapeInv is what every reachable state looks like; each *)
(* property has a strengthening of its own that is inductive with it.      *)
(***************************************************************************)
EXTENDS Identity, TLAPS, FiniteSetTheorems

\* What the step a request is at says of its locals, the roles being ro.
StepOK(l, ro) ==
  /\ l.step \in {"profile", "verified", "admin"} => l.actor \in Users /\ l.addr = NoAddr
  /\ l.step = "session" => l.target \in Users
  /\ l.step \in {"count", "write"} =>
       l.target \in Users /\ ro[l.target] # "absent" /\ l.ask # "nothing"
  /\ l.step \in {"login", "refused", "reset"} => l.addr \in Addrs

LocalsOK == \A r \in Requests : StepOK(req[r], role)

ShapeInv == TypeOK /\ LocalsOK /\ SessionsHaveUsers

\* A request that is about to create a session has the hash of now, too.
CurrentInv ==
  "password" \notin overlaps =>
    /\ \A t \in Tokens : session[t] # NoSession =>
         session[t].hash = hash[session[t].user]
    /\ \A r \in Requests : At(r, "session") => req[r].hash = hash[req[r].target]

\* A request that is about to take the role of an administrator away leaves
\* another one.
AdminInv ==
  "role" \notin overlaps =>
    /\ orgs > 0 => Admins # {}
    /\ \A r \in Requests :
         At(r, "write") /\ req[r].ask # "admin" /\ role[req[r].target] = "admin" =>
           \E a \in Admins : a # req[r].target

\* A request that is about to set the system up is the first.
OrgInv ==
  overlaps \cap {"setup", "role"} = {} =>
    /\ orgs <= 1
    /\ \A r \in Requests : At(r, "setup") => orgs = 0

-------------------------------------------------------------------------------
(* Steps of requests                                                       *)

\* Go changes one request.
LEMMA GoChangesOne ==
  ASSUME TypeOK, NEW r \in Requests, NEW l, Go(r, l)
  PROVE  req'[r] = l /\ \A q \in Requests : q # r => req'[q] = req[q]
BY DEF TypeOK, Go

\* The locals of a request that is not in flight, and of one that moves on.
LEMMA LocalsTypes ==
  /\ Idle \in Locals
  /\ \A l \in Locals, s \in Steps : [l EXCEPT !.step = s] \in Locals
  /\ \A l \in Locals, s \in Steps, a \in Addrs :
       [l EXCEPT !.step = s, !.addr = a] \in Locals
  /\ \A l \in Locals, s \in Steps, u \in Users :
       [l EXCEPT !.step = s, !.actor = u] \in Locals
  /\ \A l \in Locals, s \in Steps, u \in Users, h \in Hashes :
       [l EXCEPT !.step = s, !.target = u, !.hash = h] \in Locals
  /\ \A l \in Locals, s \in Steps, u \in Users, ask \in Roles \cup {"delete"} :
       [l EXCEPT !.step = s, !.target = u, !.ask = ask] \in Locals
<1>1. Idle \in Locals
  BY IdentityAssumption DEF Idle, Locals, Steps, Hashes
<1>2. \A l \in Locals, s \in Steps : [l EXCEPT !.step = s] \in Locals
  BY DEF Locals
<1>3. \A l \in Locals, s \in Steps, a \in Addrs :
        [l EXCEPT !.step = s, !.addr = a] \in Locals
  BY Zenon DEF Locals
<1>4. \A l \in Locals, s \in Steps, u \in Users :
        [l EXCEPT !.step = s, !.actor = u] \in Locals
  BY Zenon DEF Locals
<1>5. \A l \in Locals, s \in Steps, u \in Users, h \in Hashes :
        [l EXCEPT !.step = s, !.target = u, !.hash = h] \in Locals
  BY Zenon DEF Locals
<1>6. \A l \in Locals, s \in Steps, u \in Users, ask \in Roles \cup {"delete"} :
        [l EXCEPT !.step = s, !.target = u, !.ask = ask] \in Locals
  BY Zenon DEF Locals
<1> QED BY <1>1, <1>2, <1>3, <1>4, <1>5, <1>6

\* A change of req to well-formed locals keeps it well-formed.
LEMMA GoTypes ==
  ASSUME TypeOK, NEW r \in Requests, NEW l \in Locals, Go(r, l)
  PROVE  req' \in [Requests -> Locals]
BY DEF TypeOK, Go

-------------------------------------------------------------------------------
(* Shape                                                                   *)

\* The kinds of overlaps.
LEMMA OverlapTypes ==
  ASSUME TypeOK, NEW kind \in {"role", "setup", "password"}, NEW others,
         Overlap(kind, others)
  PROVE  overlaps' \subseteq {"role", "setup", "password"}
<1>1. CASE others = {}
  BY <1>1 DEF TypeOK, Overlap
<1>2. CASE others # {}
  BY <1>2 DEF TypeOK, Overlap
<1> QED BY <1>1, <1>2

\* SessionsWithout(u) keeps sessions of others and opens none.
LEMMA SessionsWithoutTypes ==
  ASSUME TypeOK, NEW u
  PROVE  /\ SessionsWithout(u) \in [Tokens -> [user : Users, hash : Hashes] \cup {NoSession}]
         /\ \A t \in Tokens : SessionsWithout(u)[t] # NoSession =>
              SessionsWithout(u)[t] = session[t] /\ session[t].user # u
BY DEF TypeOK, SessionsWithout

\* What a change of a password writes.
LEMMA ChangeTypes ==
  ASSUME TypeOK, NEW u \in Users, ChangePassword(u)
  PROVE  /\ hash' \in [Users -> Hashes]
         /\ session' \in [Tokens -> [user : Users, hash : Hashes] \cup {NoSession}]
         /\ overlaps' \subseteq {"role", "setup", "password"}
<1>1. hash[u] + 1 \in Hashes
  BY IdentityAssumption DEF ChangePassword, TypeOK, Hashes
<1>2. hash' \in [Users -> Hashes]
  BY <1>1 DEF ChangePassword, TypeOK
<1>3. session' \in [Tokens -> [user : Users, hash : Hashes] \cup {NoSession}]
  BY SessionsWithoutTypes DEF ChangePassword
<1>4. overlaps' \subseteq {"role", "setup", "password"}
  BY OverlapTypes DEF ChangePassword
<1> QED BY <1>2, <1>3, <1>4

\* The initial state has the shape.
LEMMA InitShape == Init => ShapeInv
<1> SUFFICES ASSUME Init PROVE ShapeInv
  OBVIOUS
<1>1. TypeOK
  <2>1. 0 \in Hashes
    BY IdentityAssumption DEF Hashes
  <2>2. /\ role \in [Users -> Roles \cup {"absent", "deleted"}]
        /\ hash \in [Users -> Hashes]
        /\ orgs \in Nat /\ attempts \in [Addrs -> Nat]
        /\ req \in [Requests -> Locals]
        /\ overlaps \subseteq {"role", "setup", "password"}
    BY <2>1, LocalsTypes DEF Init
  <2>3. session \in [Tokens -> [user : Users, hash : Hashes] \cup {NoSession}]
    BY Zenon DEF Init
  <2> QED BY <2>2, <2>3 DEF TypeOK
<1>2. LocalsOK /\ SessionsHaveUsers
  BY DEF Init, LocalsOK, StepOK, SessionsHaveUsers, Idle
<1> QED BY <1>1, <1>2 DEF ShapeInv

\* Every step keeps the types.
LEMMA TypeStep ==
  ASSUME ShapeInv, [Next]_vars
  PROVE  TypeOK'
<1> USE DEF ShapeInv
<1>1. ASSUME NEW r \in Requests, Request(r) PROVE TypeOK'
  <2>0. req[r] \in Locals
    BY DEF TypeOK
  <2>1. CASE SetupCheck(r)
    <3>1. [Idle EXCEPT !.step = "setup"] \in Locals
      BY LocalsTypes DEF Steps
    <3> QED BY <2>1, <3>1, LocalsTypes, GoTypes DEF SetupCheck, TypeOK
  <2>2. CASE Setup(r)
    <3>1. overlaps' \subseteq {"role", "setup", "password"}
      BY <2>2, OverlapTypes DEF Setup
    <3>2. req' \in [Requests -> Locals]
      BY <2>2, LocalsTypes, GoTypes DEF Setup, Return
    <3>3. role' \in [Users -> Roles \cup {"absent", "deleted"}]
      BY <2>2 DEF Setup, TypeOK, Roles
    <3>4. orgs' \in Nat
      <4>1. orgs' = orgs + 1
        BY <2>2 DEF Setup
      <4>2. orgs \in Nat
        BY DEF TypeOK
      <4> QED BY <4>1, <4>2
    <3> QED BY <2>2, <3>1, <3>2, <3>3, <3>4 DEF Setup, TypeOK
  <2>3. CASE LimiterAllow(r)
    <3>1. PICK a \in Addrs : Go(r, [Idle EXCEPT !.step = "login", !.addr = a])
      BY <2>3 DEF LimiterAllow
    <3>2. [Idle EXCEPT !.step = "login", !.addr = a] \in Locals
      BY LocalsTypes DEF Steps
    <3> QED BY <2>3, <3>1, <3>2, LocalsTypes, GoTypes DEF LimiterAllow, TypeOK
  <2>4. CASE Authenticate(r)
    <3>1. ASSUME NEW u \in Users,
                 Go(r, [req[r] EXCEPT !.step = "session", !.target = u, !.hash = hash[u]])
          PROVE  req' \in [Requests -> Locals]
      <4>1. hash[u] \in Hashes
        BY DEF TypeOK
      <4>2. [req[r] EXCEPT !.step = "session", !.target = u, !.hash = hash[u]] \in Locals
        BY <2>0, <4>1, LocalsTypes DEF Steps
      <4> QED BY <3>1, <4>2, LocalsTypes, GoTypes
    <3>2. ASSUME Go(r, [req[r] EXCEPT !.step = "refused"])
          PROVE  req' \in [Requests -> Locals]
      BY <3>2, <2>0, LocalsTypes, GoTypes DEF Steps
    <3>3. req' \in [Requests -> Locals]
      BY <2>4, <3>1, <3>2 DEF Authenticate
    <3> QED BY <2>4, <3>3 DEF Authenticate, TypeOK
  <2>5. CASE RecordFailure(r)
    <3>1. req' \in [Requests -> Locals]
      BY <2>5, LocalsTypes, GoTypes DEF RecordFailure, Return
    <3>2. req[r].addr \in Addrs
      BY <2>5 DEF RecordFailure, At, LocalsOK, StepOK
    <3>3. attempts[req[r].addr] \in Nat
      BY <3>2 DEF TypeOK
    <3>4. attempts' = [attempts EXCEPT ![req[r].addr] = attempts[req[r].addr] + 1]
      BY <2>5 DEF RecordFailure
    <3>5. attempts' \in [Addrs -> Nat]
      BY <3>2, <3>3, <3>4 DEF TypeOK
    <3> QED BY <2>5, <3>1, <3>5 DEF RecordFailure, TypeOK
  <2>6. CASE CreateSession(r)
    <3>1. req[r].target \in Users /\ req[r].hash \in Hashes
      BY <2>6, <2>0 DEF CreateSession, At, LocalsOK, StepOK, Locals
    <3>2. req' \in [Requests -> Locals]
      BY <2>6, <2>0, LocalsTypes, GoTypes DEF CreateSession, Return, Steps
    <3>3. session' \in [Tokens -> [user : Users, hash : Hashes] \cup {NoSession}]
      <4>1. [user |-> req[r].target, hash |-> req[r].hash] \in [user : Users, hash : Hashes]
        BY <3>1
      <4> DEFINE new == [user |-> req[r].target, hash |-> req[r].hash]
      <4>2. PICK t \in Tokens : session' = [session EXCEPT ![t] = new]
        BY <2>6 DEF CreateSession
      <4> HIDE DEF new
      <4> QED BY <4>1, <4>2 DEF TypeOK, new
    <3> QED BY <2>6, <3>2, <3>3 DEF CreateSession, TypeOK
  <2>7. CASE LimiterReset(r)
    BY <2>7, LocalsTypes, GoTypes DEF LimiterReset, TypeOK, Return
  <2>8. CASE VerifyUserPassword(r)
    BY <2>8, <2>0, LocalsTypes, GoTypes DEF VerifyUserPassword, TypeOK, Steps
  <2>9. CASE UpdateOwnPassword(r)
    <3>1. req[r].actor \in Users
      BY <2>9 DEF UpdateOwnPassword, At, LocalsOK, StepOK
    <3>2. /\ hash' \in [Users -> Hashes]
          /\ session' \in [Tokens -> [user : Users, hash : Hashes] \cup {NoSession}]
          /\ overlaps' \subseteq {"role", "setup", "password"}
      BY <2>9, <3>1, ChangeTypes DEF UpdateOwnPassword
    <3>3. [req[r] EXCEPT !.step = "session", !.target = req[r].actor,
                         !.hash = hash'[req[r].actor]] \in Locals
      <4>1. hash'[req[r].actor] \in Hashes
        BY <3>1, <3>2
      <4> QED BY <2>0, <3>1, <4>1, LocalsTypes DEF Steps
    <3>4. req' \in [Requests -> Locals]
      BY <2>9, <3>3, LocalsTypes, GoTypes DEF UpdateOwnPassword
    <3> QED BY <2>9, <3>2, <3>4 DEF UpdateOwnPassword, ChangePassword, TypeOK
  <2>10. CASE UserPasswordSet(r)
    <3>1. PICK u \in Users : ChangePassword(u)
      BY <2>10 DEF UserPasswordSet
    <3>2. /\ hash' \in [Users -> Hashes]
          /\ session' \in [Tokens -> [user : Users, hash : Hashes] \cup {NoSession}]
          /\ overlaps' \subseteq {"role", "setup", "password"}
      BY <3>1, ChangeTypes
    <3>3. req' \in [Requests -> Locals]
      BY <2>10, LocalsTypes, GoTypes DEF UserPasswordSet, Return
    <3> QED BY <3>1, <3>2, <3>3 DEF ChangePassword, TypeOK
  <2>11. CASE Authorize(r)
    <3>1. PICK t \in Tokens : /\ session[t] # NoSession
            /\ \E page \in {"profile", "admin"} :
                 Go(r, [Idle EXCEPT !.step = page, !.actor = session[t].user])
      BY <2>11 DEF Authorize
    <3>2. session[t].user \in Users
      BY <3>1 DEF TypeOK
    <3>3. \A page \in {"profile", "admin"} :
            [Idle EXCEPT !.step = page, !.actor = session[t].user] \in Locals
      BY <3>2, LocalsTypes DEF Steps
    <3> QED BY <2>11, <3>1, <3>3, LocalsTypes, GoTypes DEF Authorize, TypeOK
  <2>12. CASE CreateUserWithRole(r)
    BY <2>12, LocalsTypes, GoTypes DEF CreateUserWithRole, ValidRole, TypeOK, Return
  <2>13. CASE ReadTarget(r)
    <3>1. PICK u \in Users, ask \in Roles \cup {"delete"}, s \in {"count", "write"} :
            Go(r, [req[r] EXCEPT !.step = s, !.target = u, !.ask = ask])
      BY <2>13 DEF ReadTarget, ValidRole
    <3>2. [req[r] EXCEPT !.step = s, !.target = u, !.ask = ask] \in Locals
      BY <2>0, LocalsTypes DEF Steps
    <3> QED BY <2>13, <3>1, <3>2, LocalsTypes, GoTypes DEF ReadTarget, TypeOK
  <2>14. CASE CountAdmins(r)
    BY <2>14, <2>0, LocalsTypes, GoTypes DEF CountAdmins, TypeOK, Steps
  <2>15. CASE UpdateUserRole(r)
    <3>1. req[r].ask \in Roles
      BY <2>15, <2>0 DEF UpdateUserRole, At, LocalsOK, StepOK, Locals
    <3> QED BY <2>15, <3>1, LocalsTypes, GoTypes DEF UpdateUserRole, TypeOK, Return, Overlap
  <2>16. CASE DeleteUser(r)
    BY <2>16, LocalsTypes, GoTypes, SessionsWithoutTypes DEF DeleteUser, TypeOK, Return, Overlap
  <2>17. CASE RequestEnds(r)
    BY <2>17, LocalsTypes, GoTypes DEF RequestEnds, TypeOK, Return
  <2> QED BY <1>1, <2>1, <2>2, <2>3, <2>4, <2>5, <2>6, <2>7, <2>8, <2>9, <2>10,
             <2>11, <2>12, <2>13, <2>14, <2>15, <2>16, <2>17 DEF Request
<1>2. ASSUME NEW u \in Users, ResetPassword(u) PROVE TypeOK'
  BY <1>2, ChangeTypes DEF ResetPassword, ChangePassword, TypeOK
<1>3. ASSUME NEW t \in Tokens, SessionEnds(t) PROVE TypeOK'
  BY <1>3 DEF SessionEnds, TypeOK
<1>4. ASSUME NEW a \in Addrs, Forget(a) PROVE TypeOK'
  BY <1>4 DEF Forget, TypeOK
<1>5. CASE Crash
  BY <1>5, LocalsTypes DEF Crash, TypeOK
<1>6. CASE UNCHANGED vars
  BY <1>6 DEF vars, TypeOK
<1> QED BY <1>1, <1>2, <1>3, <1>4, <1>5, <1>6 DEF Next

\* A user who exists or is deleted is never absent again.
LEMMA RolesStay ==
  ASSUME ShapeInv, Next
  PROVE  \A u \in Users : role[u] # "absent" => role'[u] # "absent"
<1> USE DEF ShapeInv, TypeOK
<1>1. ASSUME NEW r \in Requests, Request(r)
      PROVE  \A u \in Users : role[u] # "absent" => role'[u] # "absent"
  <2>1. CASE Setup(r)
    BY <2>1 DEF Setup
  <2>2. CASE CreateUserWithRole(r)
    BY <2>2 DEF CreateUserWithRole, ValidRole, Roles
  <2>3. CASE UpdateUserRole(r)
    <3>1. req[r].ask \in Roles
      BY <2>3 DEF UpdateUserRole, At, LocalsOK, StepOK, Locals
    <3> QED BY <2>3, <3>1 DEF UpdateUserRole, Roles
  <2>4. CASE DeleteUser(r)
    BY <2>4 DEF DeleteUser
  <2>5. CASE UNCHANGED role
    BY <2>5
  <2> QED BY <1>1, <2>1, <2>2, <2>3, <2>4, <2>5
          DEF Request, SetupCheck, LimiterAllow, Authenticate, RecordFailure,
              CreateSession, LimiterReset, VerifyUserPassword, UpdateOwnPassword,
              UserPasswordSet, ChangePassword, Authorize, ReadTarget, CountAdmins,
              RequestEnds
<1>2. ASSUME UNCHANGED role
      PROVE  \A u \in Users : role[u] # "absent" => role'[u] # "absent"
  BY <1>2
<1> QED BY <1>1, <1>2
        DEF Next, ResetPassword, ChangePassword, SessionEnds, Forget, Crash

\* A request that moves on with good locals keeps those of all good.
LEMMA LocalsGo ==
  ASSUME ShapeInv, NEW r \in Requests, NEW l, Go(r, l), StepOK(l, role'),
         \A u \in Users : role[u] # "absent" => role'[u] # "absent"
  PROVE  LocalsOK'
<1> SUFFICES ASSUME NEW q \in Requests
             PROVE  StepOK(req'[q], role')
  BY DEF LocalsOK
<1>1. CASE q = r
  BY <1>1, GoChangesOne DEF ShapeInv
<1>2. CASE q # r
  <2>1. req'[q] = req[q]
    BY <1>2, GoChangesOne DEF ShapeInv
  <2>2. StepOK(req[q], role)
    BY DEF ShapeInv, LocalsOK
  <2> QED BY <2>1, <2>2 DEF StepOK
<1> QED BY <1>1, <1>2

\* Every step keeps the locals of requests as their step says.
LEMMA LocalsStep ==
  ASSUME ShapeInv, [Next]_vars
  PROVE  LocalsOK'
<1>1. ASSUME NEW r \in Requests, Request(r) PROVE LocalsOK'
  <2> USE RolesStay, LocalsGo
  <2>a. Next
    BY <1>1 DEF Next
  <2>b. req[r] \in Locals /\ StepOK(req[r], role)
    BY DEF ShapeInv, TypeOK, LocalsOK
  <2>c. StepOK(Idle, role')
    BY DEF StepOK, Idle
  <2>1. CASE Return(r)
    BY <2>1, <2>a, <2>c DEF Return
  <2>2. CASE SetupCheck(r)
    <3>1. StepOK([Idle EXCEPT !.step = "setup"], role')
      BY DEF StepOK, Idle
    <3> QED BY <2>2, <2>a, <3>1 DEF SetupCheck
  <2>3. CASE LimiterAllow(r)
    <3>1. PICK a \in Addrs : Go(r, [Idle EXCEPT !.step = "login", !.addr = a])
      BY <2>3 DEF LimiterAllow
    <3>2. StepOK([Idle EXCEPT !.step = "login", !.addr = a], role')
      BY DEF StepOK, Idle
    <3> QED BY <2>a, <3>1, <3>2
  <2>4. CASE Authenticate(r)
    <3>1. ASSUME NEW u \in Users,
                 Go(r, [req[r] EXCEPT !.step = "session", !.target = u, !.hash = hash[u]])
          PROVE  LocalsOK'
      <4>1. StepOK([req[r] EXCEPT !.step = "session", !.target = u, !.hash = hash[u]], role')
        BY <2>b DEF StepOK, Locals
      <4> QED BY <2>a, <3>1, <4>1
    <3>2. ASSUME Go(r, [req[r] EXCEPT !.step = "refused"])
          PROVE  LocalsOK'
      <4>1. StepOK([req[r] EXCEPT !.step = "refused"], role')
        BY <2>4, <2>b DEF StepOK, Locals, Authenticate, At
      <4> QED BY <2>a, <3>2, <4>1
    <3> QED BY <2>4, <3>1, <3>2 DEF Authenticate
  <2>5. CASE CreateSession(r)
    <3>1. ASSUME req[r].addr # NoAddr, Go(r, [req[r] EXCEPT !.step = "reset"])
          PROVE  LocalsOK'
      <4>1. StepOK([req[r] EXCEPT !.step = "reset"], role')
        BY <3>1, <2>b DEF StepOK, Locals
      <4> QED BY <2>a, <3>1, <4>1
    <3> QED BY <2>5, <2>1, <3>1 DEF CreateSession
  <2>6. CASE VerifyUserPassword(r)
    <3>1. StepOK([req[r] EXCEPT !.step = "verified"], role')
      BY <2>6, <2>b DEF StepOK, Locals, VerifyUserPassword, At
    <3> QED BY <2>6, <2>a, <3>1 DEF VerifyUserPassword
  <2>7. CASE UpdateOwnPassword(r)
    <3>1. PICK h : Go(r, [req[r] EXCEPT !.step = "session", !.target = req[r].actor,
                                        !.hash = h])
      BY <2>7 DEF UpdateOwnPassword
    <3>2. StepOK([req[r] EXCEPT !.step = "session", !.target = req[r].actor,
                                !.hash = h], role')
      BY <2>7, <2>b DEF StepOK, Locals, UpdateOwnPassword, At
    <3> QED BY <2>a, <3>1, <3>2
  <2>8. CASE Authorize(r)
    <3>1. PICK t \in Tokens, page \in {"profile", "admin"} :
            /\ session[t] # NoSession
            /\ Go(r, [Idle EXCEPT !.step = page, !.actor = session[t].user])
      BY <2>8 DEF Authorize
    <3>2. session[t].user \in Users
      BY <3>1 DEF ShapeInv, TypeOK
    <3>3. StepOK([Idle EXCEPT !.step = page, !.actor = session[t].user], role')
      BY <3>2 DEF StepOK, Idle
    <3> QED BY <2>a, <3>1, <3>3
  <2>9. CASE ReadTarget(r)
    <3>1. PICK u \in Users, ask \in Roles \cup {"delete"}, s \in {"count", "write"} :
            /\ Exists(u)
            /\ Go(r, [req[r] EXCEPT !.step = s, !.target = u, !.ask = ask])
      BY <2>9 DEF ReadTarget, ValidRole
    <3>2. role'[u] # "absent"
      BY <3>1, <2>9 DEF Exists, Roles, ReadTarget
    <3>3. ask # "nothing"
      BY DEF Roles
    <3>4. StepOK([req[r] EXCEPT !.step = s, !.target = u, !.ask = ask], role')
      BY <2>b, <3>2, <3>3 DEF StepOK, Locals
    <3> QED BY <2>a, <3>1, <3>4
  <2>10. CASE CountAdmins(r)
    <3>1. StepOK([req[r] EXCEPT !.step = "write"], role')
      BY <2>10, <2>b DEF StepOK, Locals, CountAdmins, At
    <3> QED BY <2>10, <2>a, <3>1 DEF CountAdmins
  <2> QED BY <1>1, <2>1, <2>2, <2>3, <2>4, <2>5, <2>6, <2>7, <2>8, <2>9, <2>10
          DEF Request, Setup, RecordFailure, LimiterReset, UserPasswordSet,
              CreateUserWithRole, UpdateUserRole, DeleteUser, RequestEnds
<1>2. ASSUME UNCHANGED <<req, role>> PROVE LocalsOK'
  BY <1>2 DEF ShapeInv, LocalsOK
<1>3. CASE Crash
  <2> SUFFICES ASSUME NEW r \in Requests PROVE StepOK(req'[r], role')
    BY DEF LocalsOK
  <2>1. req'[r] = req[r] \/ req'[r] = Idle
    BY <1>3 DEF Crash
  <2>2. StepOK(req[r], role') /\ StepOK(Idle, role')
    BY <1>3 DEF Crash, ShapeInv, LocalsOK, StepOK, Idle
  <2> QED BY <2>1, <2>2
<1> QED BY <1>1, <1>2, <1>3
        DEF Next, vars, ResetPassword, ChangePassword, SessionEnds, Forget

-------------------------------------------------------------------------------
(* Sessions                                                                *)

\* Only DeleteUser takes a user away.
LEMMA UsersStay ==
  ASSUME ShapeInv, [Next]_vars, NEW u \in Users, Exists(u)
  PROVE  Exists(u)' \/ \E r \in Requests : DeleteUser(r) /\ req[r].target = u
<1> USE DEF ShapeInv, TypeOK, Exists
<1>1. ASSUME NEW r \in Requests, Request(r)
      PROVE  Exists(u)' \/ (DeleteUser(r) /\ req[r].target = u)
  <2>1. CASE Setup(r)
    BY <2>1 DEF Setup, Roles
  <2>2. CASE CreateUserWithRole(r)
    BY <2>2 DEF CreateUserWithRole, ValidRole, Roles
  <2>3. CASE UpdateUserRole(r)
    <3>1. req[r].ask \in Roles
      BY <2>3 DEF UpdateUserRole, At, LocalsOK, StepOK, Locals
    <3> QED BY <2>3, <3>1 DEF UpdateUserRole
  <2>4. CASE DeleteUser(r)
    BY <2>4 DEF DeleteUser
  <2>5. CASE UNCHANGED role
    BY <2>5
  <2> QED BY <1>1, <2>1, <2>2, <2>3, <2>4, <2>5
          DEF Request, SetupCheck, LimiterAllow, Authenticate, RecordFailure,
              CreateSession, LimiterReset, VerifyUserPassword, UpdateOwnPassword,
              UserPasswordSet, ChangePassword, Authorize, ReadTarget, CountAdmins,
              RequestEnds
<1>2. ASSUME UNCHANGED role PROVE Exists(u)'
  BY <1>2
<1> QED BY <1>1, <1>2
        DEF Next, vars, ResetPassword, ChangePassword, SessionEnds, Forget, Crash

\* A step opens no session but in CreateSession.
LEMMA SessionsStay ==
  ASSUME ShapeInv, [Next]_vars, NEW t \in Tokens, session'[t] # NoSession
  PROVE  \/ session'[t] = session[t]
         \/ \E r \in Requests :
              /\ CreateSession(r)
              /\ session'[t] = [user |-> req[r].target, hash |-> req[r].hash]
<1> USE DEF ShapeInv, TypeOK
<1>1. ASSUME NEW r \in Requests, Request(r)
      PROVE  \/ session'[t] = session[t]
             \/ /\ CreateSession(r)
                /\ session'[t] = [user |-> req[r].target, hash |-> req[r].hash]
  <2>1. CASE CreateSession(r)
    <3> DEFINE new == [user |-> req[r].target, hash |-> req[r].hash]
    <3>1. PICK k \in Tokens : session' = [session EXCEPT ![k] = new]
      BY <2>1 DEF CreateSession
    <3> HIDE DEF new
    <3>2. session'[t] = session[t] \/ session'[t] = new
      BY <3>1
    <3> QED BY <2>1, <3>2 DEF new
  <2>2. ASSUME NEW u, session' = SessionsWithout(u) PROVE session'[t] = session[t]
    BY <2>2, SessionsWithoutTypes
  <2>3. CASE UNCHANGED session
    BY <2>3
  <2> QED BY <1>1, <2>1, <2>2, <2>3
          DEF Request, SetupCheck, Setup, LimiterAllow, Authenticate, RecordFailure,
              LimiterReset, VerifyUserPassword, UpdateOwnPassword, UserPasswordSet,
              ChangePassword, Authorize, CreateUserWithRole, ReadTarget, CountAdmins,
              UpdateUserRole, DeleteUser, RequestEnds
<1>2. ASSUME NEW u, session' = SessionsWithout(u) PROVE session'[t] = session[t]
  BY <1>2, SessionsWithoutTypes
<1>3. ASSUME NEW k \in Tokens, SessionEnds(k) PROVE session'[t] = session[t]
  BY <1>3 DEF SessionEnds
<1> QED BY <1>1, <1>2, <1>3
        DEF Next, vars, ResetPassword, ChangePassword, Forget, Crash

\* Every step keeps the users of sessions.
LEMMA SessionsStep ==
  ASSUME ShapeInv, [Next]_vars
  PROVE  SessionsHaveUsers'
<1> SUFFICES ASSUME NEW t \in Tokens, session'[t] # NoSession
             PROVE  role'[session'[t].user] \in Roles
  BY DEF SessionsHaveUsers, Exists
<1>1. CASE session'[t] = session[t]
  <2>1. session[t].user \in Users /\ Exists(session[t].user)
    BY <1>1 DEF ShapeInv, TypeOK, SessionsHaveUsers
  <2>2. ASSUME NEW r \in Requests, DeleteUser(r), req[r].target = session[t].user
        PROVE  FALSE
    BY <1>1, <2>2, SessionsWithoutTypes DEF DeleteUser, ShapeInv
  <2>3. PICK u \in Users : u = session[t].user
    BY <2>1
  <2>4. Exists(u)' \/ \E r \in Requests : DeleteUser(r) /\ req[r].target = u
    BY <2>1, <2>3, UsersStay
  <2>5. role'[u] \in Roles
    BY <2>2, <2>3, <2>4 DEF Exists
  <2> QED BY <1>1, <2>3, <2>5
<1>2. ASSUME NEW r \in Requests, CreateSession(r),
             session'[t] = [user |-> req[r].target, hash |-> req[r].hash]
      PROVE  role'[session'[t].user] \in Roles
  BY <1>2 DEF CreateSession, Referenced, Exists
<1> QED BY <1>1, <1>2, SessionsStay

\* The shape is inductive.
LEMMA ShapeStep ==
  ASSUME ShapeInv, [Next]_vars
  PROVE  ShapeInv'
BY TypeStep, LocalsStep, SessionsStep DEF ShapeInv

-------------------------------------------------------------------------------
(* What a step leaves alone                                                *)

\* A request changes by a step of its own or ends.
LEMMA OneMoves ==
  ASSUME ShapeInv, [Next]_vars, NEW q \in Requests
  PROVE  req'[q] = req[q] \/ Request(q) \/ req'[q] = Idle
<1>1. ASSUME NEW r \in Requests, Request(r) PROVE req'[q] = req[q] \/ Request(q)
  <2>1. \E l : Go(r, l)
    BY <1>1
       DEF Request, SetupCheck, Setup, LimiterAllow, Authenticate, RecordFailure,
           CreateSession, LimiterReset, VerifyUserPassword, UpdateOwnPassword,
           UserPasswordSet, Authorize, CreateUserWithRole, ReadTarget, CountAdmins,
           UpdateUserRole, DeleteUser, RequestEnds, Return
  <2>2. CASE q = r
    BY <1>1, <2>2
  <2>3. CASE q # r
    BY <2>1, <2>3, GoChangesOne DEF ShapeInv
  <2> QED BY <2>2, <2>3
<1>2. CASE Crash
  BY <1>2 DEF Crash
<1>3. ASSUME UNCHANGED req PROVE req'[q] = req[q]
  BY <1>3
<1> QED BY <1>1, <1>2, <1>3 DEF Next, vars, ResetPassword, SessionEnds, Forget

\* An overlap is not forgotten.
LEMMA OverlapsGrow ==
  ASSUME ShapeInv, [Next]_vars
  PROVE  overlaps \subseteq overlaps'
<1>1. ASSUME NEW kind, NEW others, Overlap(kind, others)
      PROVE  overlaps \subseteq overlaps'
  BY <1>1 DEF Overlap
<1>2. ASSUME UNCHANGED overlaps PROVE overlaps \subseteq overlaps'
  BY <1>2
<1> QED BY <1>1, <1>2
        DEF Next, vars, Request, SetupCheck, Setup, LimiterAllow, Authenticate,
            RecordFailure, CreateSession, LimiterReset, VerifyUserPassword,
            UpdateOwnPassword, UserPasswordSet, ChangePassword, Authorize,
            CreateUserWithRole, ReadTarget, CountAdmins, UpdateUserRole, DeleteUser,
            RequestEnds, ResetPassword, SessionEnds, Forget, Crash

\* A hash changes with the password only.
LEMMA HashStays ==
  ASSUME ShapeInv, [Next]_vars, NEW u \in Users
  PROVE  hash'[u] = hash[u] \/ ChangePassword(u)
<1>1. ASSUME NEW v \in Users, ChangePassword(v)
      PROVE  hash'[u] = hash[u] \/ ChangePassword(u)
  <2>1. CASE u = v
    BY <1>1, <2>1
  <2>2. CASE u # v
    BY <1>1, <2>2 DEF ChangePassword, ShapeInv, TypeOK
  <2> QED BY <2>1, <2>2
<1>2. ASSUME UNCHANGED hash PROVE hash'[u] = hash[u]
  BY <1>2
<1>3. ASSUME NEW r \in Requests, UpdateOwnPassword(r)
      PROVE  hash'[u] = hash[u] \/ ChangePassword(u)
  <2>1. req[r].actor \in Users
    BY <1>3 DEF UpdateOwnPassword, ShapeInv, LocalsOK, StepOK, At
  <2>2. PICK v \in Users : v = req[r].actor
    BY <2>1
  <2> QED BY <1>3, <1>1, <2>2 DEF UpdateOwnPassword
<1> QED BY <1>1, <1>2, <1>3
        DEF Next, vars, Request, SetupCheck, Setup, LimiterAllow, Authenticate,
            RecordFailure, CreateSession, LimiterReset, VerifyUserPassword,
            UserPasswordSet, Authorize, CreateUserWithRole, ReadTarget, CountAdmins,
            UpdateUserRole, DeleteUser, RequestEnds, ResetPassword, SessionEnds,
            Forget, Crash

\* Where each step of a request leads.
LEMMA StepAfter ==
  ASSUME ShapeInv, NEW r \in Requests
  PROVE  /\ Return(r)             => req'[r].step = "idle"
         /\ SetupCheck(r)         => req'[r].step = "setup"
         /\ LimiterAllow(r)       => req'[r].step = "login"
         /\ Authenticate(r)       => req'[r].step \in {"session", "refused"}
         /\ CreateSession(r)      => req'[r].step \in {"idle", "reset"}
         /\ VerifyUserPassword(r) => req'[r].step = "verified"
         /\ UpdateOwnPassword(r)  => req'[r].step = "session"
         /\ Authorize(r)          => req'[r].step \in {"profile", "admin"}
         /\ ReadTarget(r)         => req'[r].step \in {"count", "write"}
         /\ CountAdmins(r)        => req'[r].step = "write"
<1>1. \A l \in Locals, s \in Steps :
        /\ [l EXCEPT !.step = s].step = s
        /\ \A a : [l EXCEPT !.step = s, !.addr = a].step = s
  BY DEF Locals
<1>2. Idle \in Locals /\ Idle.step = "idle" /\ req[r] \in Locals
  BY LocalsTypes DEF Idle, ShapeInv, TypeOK
<1>3. ASSUME NEW l, Go(r, l) PROVE req'[r] = l
  BY <1>3, GoChangesOne DEF ShapeInv
<1>4. ASSUME Return(r) PROVE req'[r].step = "idle"
  BY <1>4, <1>2, <1>3 DEF Return
<1>5. SetupCheck(r) => req'[r].step = "setup"
  <2>1. [Idle EXCEPT !.step = "setup"].step = "setup"
    BY <1>1, <1>2 DEF Steps
  <2> QED BY <2>1, <1>3 DEF SetupCheck
<1>6. LimiterAllow(r) => req'[r].step = "login"
  <2>1. \A a : [Idle EXCEPT !.step = "login", !.addr = a].step = "login"
    BY <1>1, <1>2 DEF Steps
  <2> QED BY <2>1, <1>3 DEF LimiterAllow
<1>7. ASSUME Authenticate(r) PROVE req'[r].step \in {"session", "refused"}
  <2>1. ASSUME NEW u \in Users,
               Go(r, [req[r] EXCEPT !.step = "session", !.target = u, !.hash = hash[u]])
        PROVE  req'[r].step = "session"
    <3>1. req'[r] = [req[r] EXCEPT !.step = "session", !.target = u, !.hash = hash[u]]
      BY <2>1, <1>3
    <3> QED BY <3>1, <1>2 DEF Locals
  <2>2. ASSUME Go(r, [req[r] EXCEPT !.step = "refused"]) PROVE req'[r].step = "refused"
    <3>1. req'[r] = [req[r] EXCEPT !.step = "refused"]
      BY <2>2, <1>3
    <3> QED BY <3>1, <1>2 DEF Locals
  <2> QED BY <1>7, <2>1, <2>2 DEF Authenticate
<1>8. CreateSession(r) => req'[r].step \in {"idle", "reset"}
  <2>1. [req[r] EXCEPT !.step = "reset"].step = "reset"
    BY <1>1, <1>2 DEF Steps
  <2> QED BY <2>1, <1>3, <1>4 DEF CreateSession
<1>9. VerifyUserPassword(r) => req'[r].step = "verified"
  <2>1. [req[r] EXCEPT !.step = "verified"].step = "verified"
    BY <1>1, <1>2 DEF Steps
  <2> QED BY <2>1, <1>3 DEF VerifyUserPassword
<1>10. ASSUME UpdateOwnPassword(r) PROVE req'[r].step = "session"
  <2>1. req'[r] = [req[r] EXCEPT !.step = "session", !.target = req[r].actor,
                                 !.hash = hash'[req[r].actor]]
    BY <1>10, <1>3 DEF UpdateOwnPassword
  <2> QED BY <2>1, <1>2 DEF Locals
<1>11. ASSUME Authorize(r) PROVE req'[r].step \in {"profile", "admin"}
  <2>1. PICK page \in {"profile", "admin"}, t \in Tokens :
          Go(r, [Idle EXCEPT !.step = page, !.actor = session[t].user])
    BY <1>11 DEF Authorize
  <2>2. req'[r] = [Idle EXCEPT !.step = page, !.actor = session[t].user]
    BY <2>1, <1>3
  <2> QED BY <2>2, <1>2 DEF Locals
<1>12. ASSUME ReadTarget(r) PROVE req'[r].step \in {"count", "write"}
  <2>1. PICK s \in {"count", "write"}, a \in Users, b \in FormRoles \cup {"delete"} :
          Go(r, [req[r] EXCEPT !.step = s, !.target = a, !.ask = b])
    BY <1>12 DEF ReadTarget
  <2>2. req'[r] = [req[r] EXCEPT !.step = s, !.target = a, !.ask = b]
    BY <2>1, <1>3
  <2> QED BY <2>2, <1>2 DEF Locals
<1>13. CountAdmins(r) => req'[r].step = "write"
  <2>1. [req[r] EXCEPT !.step = "write"].step = "write"
    BY <1>1, <1>2 DEF Steps
  <2> QED BY <2>1, <1>3 DEF CountAdmins
<1> QED BY <1>4, <1>5, <1>6, <1>7, <1>8, <1>9, <1>10, <1>11, <1>12, <1>13

-------------------------------------------------------------------------------
(* Passwords                                                               *)

\* How a request comes to the point where it creates a session.
LEMMA ToSession ==
  ASSUME ShapeInv, [Next]_vars, NEW r \in Requests, At(r, "session")'
  PROVE  \/ req'[r] = req[r]
         \/ req'[r].hash = hash'[req'[r].target]
<1>1. ASSUME Request(r), req'[r] # req[r]
      PROVE  req'[r].hash = hash'[req'[r].target]
  <2>a. req[r] \in Locals /\ req'[r].step = "session"
    BY DEF ShapeInv, TypeOK, At
  <2> USE GoChangesOne DEF ShapeInv
  <2>1. CASE Authenticate(r)
    <3>1. ASSUME NEW u \in Users,
                 Go(r, [req[r] EXCEPT !.step = "session", !.target = u, !.hash = hash[u]])
          PROVE  req'[r].hash = hash'[req'[r].target]
      <4>1. req'[r] = [req[r] EXCEPT !.step = "session", !.target = u, !.hash = hash[u]]
        BY <3>1
      <4>2. req'[r].hash = hash[u] /\ req'[r].target = u
        BY <4>1, <2>a DEF Locals
      <4> QED BY <4>2, <2>1 DEF Authenticate
    <3>2. ASSUME Go(r, [req[r] EXCEPT !.step = "refused"]) PROVE FALSE
      <4>1. req'[r] = [req[r] EXCEPT !.step = "refused"]
        BY <3>2
      <4>2. req'[r].step = "refused"
        BY <4>1, <2>a DEF Locals
      <4> QED BY <4>2, <2>a
    <3> QED BY <2>1, <3>1, <3>2 DEF Authenticate
  <2>2. CASE UpdateOwnPassword(r)
    <3>1. req'[r] = [req[r] EXCEPT !.step = "session", !.target = req[r].actor,
                                   !.hash = hash'[req[r].actor]]
      BY <2>2 DEF UpdateOwnPassword
    <3>2. req'[r].hash = hash'[req[r].actor] /\ req'[r].target = req[r].actor
      BY <3>1, <2>a DEF Locals
    <3> QED BY <3>2
  <2> QED BY <1>1, <2>a, <2>1, <2>2, StepAfter
          DEF Request, Setup, RecordFailure, LimiterReset, UserPasswordSet,
              CreateUserWithRole, UpdateUserRole, DeleteUser, RequestEnds
<1>2. req'[r] # Idle
  BY DEF At, Idle
<1> QED BY <1>1, <1>2, OneMoves

\* Without an overlap, sessions are those of the password of now.
LEMMA CurrentStep ==
  ASSUME ShapeInv, CurrentInv, [Next]_vars
  PROVE  CurrentInv'
<1> SUFFICES ASSUME "password" \notin overlaps'
             PROVE  /\ \A t \in Tokens : session'[t] # NoSession =>
                         session'[t].hash = hash'[session'[t].user]
                    /\ \A r \in Requests : req'[r].step = "session" =>
                         req'[r].hash = hash'[req'[r].target]
  BY DEF CurrentInv, At
<1>0. "password" \notin overlaps
  BY OverlapsGrow
<1>1. ASSUME NEW t \in Tokens, session'[t] # NoSession
      PROVE  session'[t].hash = hash'[session'[t].user]
  <2>1. CASE session'[t] = session[t]
    <3>1. PICK u \in Users : u = session[t].user
      BY <1>1, <2>1 DEF ShapeInv, TypeOK
    <3>2. session[t].hash = hash[u]
      BY <1>0, <1>1, <2>1, <3>1 DEF CurrentInv
    <3>3. ~ChangePassword(u)
      BY <1>1, <2>1, <3>1, SessionsWithoutTypes DEF ChangePassword, ShapeInv
    <3> QED BY <2>1, <3>1, <3>2, <3>3, HashStays
  <2>2. ASSUME NEW r \in Requests, CreateSession(r),
               session'[t] = [user |-> req[r].target, hash |-> req[r].hash]
        PROVE  session'[t].hash = hash'[session'[t].user]
    BY <1>0, <2>2 DEF CreateSession, CurrentInv
  <2> QED BY <1>1, <2>1, <2>2, SessionsStay
<1>2. ASSUME NEW r \in Requests, req'[r].step = "session"
      PROVE  req'[r].hash = hash'[req'[r].target]
  <2>1. CASE req'[r] = req[r]
    <3>1. PICK u \in Users : u = req[r].target
      BY <1>2, <2>1 DEF ShapeInv, LocalsOK, StepOK
    <3>2. req[r].hash = hash[u]
      BY <1>0, <1>2, <2>1, <3>1 DEF CurrentInv, At
    <3>3. r \in LoginsOf(u)
      BY <1>2, <2>1, <3>1 DEF LoginsOf, At
    <3>4. ~ChangePassword(u)
      BY <3>3 DEF ChangePassword, Overlap
    <3> QED BY <2>1, <3>1, <3>2, <3>4, HashStays
  <2> QED BY <1>2, <2>1, ToSession DEF At
<1> QED BY <1>1, <1>2

-------------------------------------------------------------------------------
(* Administrators                                                          *)

\* What a request that is about to write has seen.
LEMMA ToWrite ==
  ASSUME ShapeInv, [Next]_vars, NEW r \in Requests, req'[r].step = "write"
  PROVE  \/ req'[r] = req[r]
         \/ /\ role' = role
            /\ \/ req'[r].ask = "admin"
               \/ role[req'[r].target] # "admin"
               \/ \E a \in Users : role[a] = "admin" /\ a # req'[r].target
<1>1. CASE ReadTarget(r)
  <2>1. PICK u, ask :
          Go(r, [req[r] EXCEPT
                   !.step = IF role[u] = "admin" /\ ask # "admin" THEN "count" ELSE "write",
                   !.target = u, !.ask = ask])
    BY <1>1 DEF ReadTarget
  <2>2. req'[r] = [req[r] EXCEPT
                   !.step = IF role[u] = "admin" /\ ask # "admin" THEN "count" ELSE "write",
                   !.target = u, !.ask = ask]
    BY <2>1, GoChangesOne DEF ShapeInv
  <2>3. /\ req'[r].step = IF role[u] = "admin" /\ ask # "admin" THEN "count" ELSE "write"
        /\ req'[r].target = u /\ req'[r].ask = ask
    BY <2>2 DEF ShapeInv, TypeOK, Locals
  <2> QED BY <1>1, <2>3 DEF ReadTarget
<1>2. CASE CountAdmins(r)
  <2>1. ASSUME Admins \subseteq {req'[r].target} PROVE FALSE
    <3>1. Cardinality({req'[r].target}) = 1 /\ IsFiniteSet({req'[r].target})
      BY FS_Singleton
    <3>2. Cardinality(Admins) <= 1 /\ Cardinality(Admins) \in Nat
      BY <2>1, <3>1, FS_Subset, FS_CardinalityType
    <3> QED BY <1>2, <3>2 DEF CountAdmins, EnoughAdmins, AdminCount
  <2> QED BY <1>2, <2>1 DEF CountAdmins, Admins
<1>3. CASE Request(r) /\ ~ReadTarget(r) /\ ~CountAdmins(r)
  BY <1>3, StepAfter
     DEF Request, Setup, RecordFailure, LimiterReset, UserPasswordSet,
         CreateUserWithRole, UpdateUserRole, DeleteUser, RequestEnds
<1>4. req'[r] # Idle
  BY DEF Idle
<1> QED BY <1>1, <1>2, <1>3, <1>4, OneMoves

\* Without an overlap, a request that may remove an administrator leaves one.
LEMMA AdminStep ==
  ASSUME ShapeInv, AdminInv, [Next]_vars
  PROVE  AdminInv'
<1> SUFFICES ASSUME "role" \notin overlaps'
             PROVE  /\ orgs' > 0 => \E u \in Users : role'[u] = "admin"
                    /\ \A r \in Requests :
                         /\ req'[r].step = "write" /\ req'[r].ask # "admin"
                         /\ role'[req'[r].target] = "admin"
                         => \E a \in Users : role'[a] = "admin" /\ a # req'[r].target
  BY DEF AdminInv, At, Admins
<1>0. "role" \notin overlaps
  BY OverlapsGrow
<1>a. orgs > 0 => \E u \in Users : role[u] = "admin"
  BY <1>0 DEF AdminInv, Admins
<1>b. ASSUME NEW r \in Requests, req[r].step = "write", req[r].ask # "admin",
             role[req[r].target] = "admin"
      PROVE  \E a \in Users : role[a] = "admin" /\ a # req[r].target
  BY <1>0, <1>b DEF AdminInv, Admins, At
<1>c. role \in [Users -> Roles \cup {"absent", "deleted"}]
  BY DEF ShapeInv, TypeOK
<1>d. ASSUME NEW r \in Requests, req[r].step = "write"
      PROVE  req[r].target \in Users /\ role[req[r].target] # "absent"
  BY <1>d DEF ShapeInv, LocalsOK, StepOK
<1>1. ASSUME NEW r \in Requests, UpdateUserRole(r) \/ DeleteUser(r)
      PROVE  /\ orgs' > 0 => \E u \in Users : role'[u] = "admin"
             /\ \A q \in Requests : req'[q].step # "write"
  <2>1. ChangesBut(r) = {}
    BY <1>1 DEF UpdateUserRole, DeleteUser, Overlap
  <2>2. req'[r].step = "idle" /\ \A q \in Requests : q # r => req'[q] = req[q]
    BY <1>1, GoChangesOne DEF UpdateUserRole, DeleteUser, Return, ShapeInv, Idle
  <2>3. \A q \in Requests : req'[q].step # "write"
    BY <2>1, <2>2 DEF ChangesBut, At
  <2>4. req[r].step = "write" /\ req[r].target \in Users /\ orgs' = orgs
    BY <1>1, <1>d DEF UpdateUserRole, DeleteUser, At
  <2>5. PICK to : role' = role \/ role' = [role EXCEPT ![req[r].target] = to]
    BY <1>1 DEF UpdateUserRole, DeleteUser
  <2>6. ASSUME NEW a \in Users, role[a] = "admin", a # req[r].target
        PROVE  role'[a] = "admin"
    BY <2>5, <2>6, <1>c
  <2>7. CASE role[req[r].target] = "admin" /\ req[r].ask # "admin"
    BY <1>b, <2>4, <2>6, <2>7, <2>3
  <2>8. CASE role[req[r].target] # "admin"
    BY <1>a, <2>4, <2>6, <2>8, <2>3
  <2>9. CASE role[req[r].target] = "admin" /\ req[r].ask = "admin"
    <3>1. role'[req[r].target] = "admin"
      BY <1>1, <1>c, <2>4, <2>9 DEF UpdateUserRole, DeleteUser
    <3> QED BY <3>1, <2>3, <2>4
  <2> QED BY <2>7, <2>8, <2>9
<1>2. ASSUME ~ \E r \in Requests : UpdateUserRole(r) \/ DeleteUser(r)
      PROVE  \A u \in Users : /\ role[u] = "admin" => role'[u] = "admin"
                              /\ role'[u] = "admin" => role[u] \in {"admin", "absent"}
  <2>1. ASSUME NEW r \in Requests, Request(r)
        PROVE  \A u \in Users : /\ role[u] = "admin" => role'[u] = "admin"
                                /\ role'[u] = "admin" => role[u] \in {"admin", "absent"}
    <3>1. CASE Setup(r)
      BY <3>1, <1>c DEF Setup
    <3>2. CASE CreateUserWithRole(r)
      BY <3>2, <1>c DEF CreateUserWithRole
    <3>3. CASE UNCHANGED role
      BY <3>3
    <3> QED BY <1>2, <2>1, <3>1, <3>2, <3>3
            DEF Request, SetupCheck, LimiterAllow, Authenticate, RecordFailure,
                CreateSession, LimiterReset, VerifyUserPassword, UpdateOwnPassword,
                UserPasswordSet, ChangePassword, Authorize, ReadTarget, CountAdmins,
                RequestEnds
  <2>2. ASSUME UNCHANGED role
        PROVE  \A u \in Users : /\ role[u] = "admin" => role'[u] = "admin"
                                /\ role'[u] = "admin" => role[u] \in {"admin", "absent"}
    BY <2>2
  <2> QED BY <2>1, <2>2
          DEF Next, vars, ResetPassword, ChangePassword, SessionEnds, Forget, Crash
<1>3. ASSUME ~ \E r \in Requests : UpdateUserRole(r) \/ DeleteUser(r)
      PROVE  orgs' > 0 => \E u \in Users : role'[u] = "admin"
  <2>1. ASSUME NEW r \in Requests, Setup(r)
        PROVE  \E u \in Users : role'[u] = "admin"
    BY <2>1, <1>c DEF Setup
  <2>2. ASSUME orgs' = orgs PROVE orgs' > 0 => \E u \in Users : role'[u] = "admin"
    BY <2>2, <1>a, <1>2, <1>3
  <2> QED BY <2>1, <2>2
          DEF Next, vars, Request, SetupCheck, LimiterAllow, Authenticate,
              RecordFailure, CreateSession, LimiterReset, VerifyUserPassword,
              UpdateOwnPassword, UserPasswordSet, ChangePassword, Authorize,
              CreateUserWithRole, ReadTarget, CountAdmins, UpdateUserRole, DeleteUser,
              RequestEnds, ResetPassword, SessionEnds, Forget, Crash
<1>4. ASSUME ~ \E r \in Requests : UpdateUserRole(r) \/ DeleteUser(r),
             NEW r \in Requests, req'[r].step = "write", req'[r].ask # "admin",
             role'[req'[r].target] = "admin"
      PROVE  \E a \in Users : role'[a] = "admin" /\ a # req'[r].target
  <2>1. CASE req'[r] = req[r]
    <3>1. req[r].target \in Users /\ role[req[r].target] # "absent"
      BY <1>4, <2>1, <1>d
    <3>2. role[req[r].target] = "admin"
      BY <1>4, <2>1, <3>1, <1>2
    <3> QED BY <1>4, <2>1, <3>2, <1>b, <1>2
  <2> QED BY <1>4, <2>1, ToWrite
<1> QED BY <1>1, <1>3, <1>4

-------------------------------------------------------------------------------
(* Setup                                                                   *)

\* Without an overlap, the setup that is about to be made is the first.
LEMMA OrgStep ==
  ASSUME ShapeInv, AdminInv, OrgInv, [Next]_vars
  PROVE  OrgInv'
<1> SUFFICES ASSUME overlaps' \cap {"setup", "role"} = {}
             PROVE  /\ orgs' <= 1
                    /\ \A r \in Requests : req'[r].step = "setup" => orgs' = 0
  BY DEF OrgInv, At
<1>0. overlaps \cap {"setup", "role"} = {}
  BY OverlapsGrow
<1>a. orgs <= 1 /\ \A r \in Requests : req[r].step = "setup" => orgs = 0
  BY <1>0 DEF OrgInv, At
<1>b. orgs \in Nat
  BY DEF ShapeInv, TypeOK
<1>1. ASSUME NEW r \in Requests, Setup(r)
      PROVE  /\ orgs' <= 1
             /\ \A q \in Requests : req'[q].step # "setup"
  <2>1. SetupsBut(r) = {}
    BY <1>1 DEF Setup, Overlap
  <2>2. req'[r].step = "idle" /\ \A q \in Requests : q # r => req'[q] = req[q]
    BY <1>1, GoChangesOne DEF Setup, Return, ShapeInv, Idle
  <2>3. \A q \in Requests : req'[q].step # "setup"
    BY <2>1, <2>2 DEF SetupsBut, At
  <2>4. orgs = 0 /\ orgs' = orgs + 1
    BY <1>1, <1>a DEF Setup, At
  <2> QED BY <2>3, <2>4
<1>2. CASE ~ \E r \in Requests : Setup(r)
  <2>1. orgs' = orgs
    BY <1>2
       DEF Next, vars, Request, SetupCheck, LimiterAllow, Authenticate,
           RecordFailure, CreateSession, LimiterReset, VerifyUserPassword,
           UpdateOwnPassword, UserPasswordSet, ChangePassword, Authorize,
           CreateUserWithRole, ReadTarget, CountAdmins, UpdateUserRole, DeleteUser,
           RequestEnds, ResetPassword, SessionEnds, Forget, Crash
  <2>2. ASSUME NEW r \in Requests, req'[r].step = "setup" PROVE orgs = 0
    <3>1. CASE req'[r] = req[r]
      BY <2>2, <3>1, <1>a
    <3>2. CASE SetupCheck(r)
      <4>1. Admins = {}
        BY <3>2 DEF SetupCheck, NeedsSetup, Exists, Admins, Roles
      <4> QED BY <4>1, <1>0, <1>b DEF AdminInv
    <3>3. CASE Request(r) /\ ~SetupCheck(r)
      BY <2>2, <3>3, <1>2, StepAfter
         DEF Request, RecordFailure, LimiterReset, UserPasswordSet,
             CreateUserWithRole, UpdateUserRole, DeleteUser, RequestEnds
    <3>4. req'[r] # Idle
      BY <2>2 DEF Idle
    <3> QED BY <3>1, <3>2, <3>3, <3>4, OneMoves
  <2> QED BY <2>1, <2>2, <1>a
<1> QED BY <1>1, <1>2

-------------------------------------------------------------------------------
(* The login limiter                                                       *)

\* A request keeps its address until it ends.
LEMMA AddrStays ==
  ASSUME ShapeInv, NEW r \in Requests,
         Authenticate(r) \/ CreateSession(r) \/ UpdateOwnPassword(r)
  PROVE  req'[r] = Idle \/ req'[r].addr = req[r].addr
<1>1. req[r] \in Locals
  BY DEF ShapeInv, TypeOK
<1>2. ASSUME NEW l, Go(r, l) PROVE req'[r] = l
  BY <1>2, GoChangesOne DEF ShapeInv
<1>3. CASE Authenticate(r)
  <2>1. ASSUME NEW u \in Users,
               Go(r, [req[r] EXCEPT !.step = "session", !.target = u, !.hash = hash[u]])
        PROVE  req'[r].addr = req[r].addr
    <3>1. req'[r] = [req[r] EXCEPT !.step = "session", !.target = u, !.hash = hash[u]]
      BY <2>1, <1>2
    <3> QED BY <3>1, <1>1 DEF Locals
  <2>2. ASSUME Go(r, [req[r] EXCEPT !.step = "refused"]) PROVE req'[r].addr = req[r].addr
    <3>1. req'[r] = [req[r] EXCEPT !.step = "refused"]
      BY <2>2, <1>2
    <3> QED BY <3>1, <1>1 DEF Locals
  <2> QED BY <1>3, <2>1, <2>2 DEF Authenticate
<1>4. CASE CreateSession(r)
  <2>1. ASSUME Go(r, [req[r] EXCEPT !.step = "reset"]) PROVE req'[r].addr = req[r].addr
    <3>1. req'[r] = [req[r] EXCEPT !.step = "reset"]
      BY <2>1, <1>2
    <3> QED BY <3>1, <1>1 DEF Locals
  <2>2. ASSUME Return(r) PROVE req'[r] = Idle
    BY <2>2, <1>2 DEF Return
  <2> QED BY <1>4, <2>1, <2>2 DEF CreateSession
<1>5. CASE UpdateOwnPassword(r)
  <2>1. req'[r] = [req[r] EXCEPT !.step = "session", !.target = req[r].actor,
                                 !.hash = hash'[req[r].actor]]
    BY <1>5, <1>2 DEF UpdateOwnPassword
  <2> QED BY <2>1, <1>1 DEF Locals
<1> QED BY <1>3, <1>4, <1>5

\* Only allow lets a request among the logins from an address.
LEMMA LoginsShrink ==
  ASSUME ShapeInv, [Next]_vars, NEW a \in Addrs, NEW r \in Requests,
         ~LimiterAllow(r), r \in LoginsFrom(a)'
  PROVE  r \in LoginsFrom(a)
<1> DEFINE Login == {"login", "refused", "session", "reset"}
<1>1. req'[r].addr = a /\ req'[r].step \in Login
  BY DEF LoginsFrom
<1>2. ASSUME req[r].addr = a, req[r].step \in Login PROVE r \in LoginsFrom(a)
  BY <1>2 DEF LoginsFrom
<1>3. CASE req'[r] = req[r]
  BY <1>1, <1>2, <1>3
<1>4. req'[r] # Idle
  BY <1>1 DEF Idle
<1>5. CASE Authenticate(r)
  BY <1>1, <1>2, <1>4, <1>5, AddrStays DEF Authenticate, At
<1>6. CASE CreateSession(r)
  BY <1>1, <1>2, <1>4, <1>6, AddrStays DEF CreateSession, At
<1>7. CASE UpdateOwnPassword(r)
  <2>1. req[r].addr = NoAddr
    BY <1>7 DEF UpdateOwnPassword, At, ShapeInv, LocalsOK, StepOK
  <2> QED BY <1>1, <1>4, <1>7, <2>1, AddrStays, IdentityAssumption
<1>8. CASE /\ Request(r) /\ ~Authenticate(r) /\ ~CreateSession(r)
           /\ ~UpdateOwnPassword(r)
  BY <1>1, <1>8, StepAfter
     DEF Request, Setup, RecordFailure, LimiterReset, UserPasswordSet,
         CreateUserWithRole, UpdateUserRole, DeleteUser, RequestEnds
<1> QED BY <1>3, <1>4, <1>5, <1>6, <1>7, <1>8, OneMoves

\* Failures and the logins that may add to them stay below the bound.
LEMMA LimiterStep ==
  ASSUME ShapeInv, FailuresBounded, [Next]_vars
  PROVE  FailuresBounded'
<1> SUFFICES ASSUME NEW a \in Addrs
             PROVE  attempts'[a] + Cardinality(LoginsFrom(a)')
                      < MaxAttempts + Cardinality(Requests)
  BY DEF FailuresBounded
<1>1. /\ IsFiniteSet(LoginsFrom(a)) /\ IsFiniteSet(LoginsFrom(a)')
      /\ Cardinality(LoginsFrom(a)) \in Nat /\ Cardinality(LoginsFrom(a)') \in Nat
      /\ Cardinality(Requests) \in Nat
      /\ Cardinality(LoginsFrom(a)') <= Cardinality(Requests)
  <2>1. LoginsFrom(a) \subseteq Requests /\ LoginsFrom(a)' \subseteq Requests
    BY DEF LoginsFrom
  <2> QED BY <2>1, FS_Subset, FS_CardinalityType, IdentityAssumption
<1>2. /\ attempts[a] \in Nat /\ attempts'[a] \in Nat
      /\ MaxAttempts \in Nat \ {0}
  BY TypeStep, IdentityAssumption DEF ShapeInv, TypeOK
<1>3. attempts[a] + Cardinality(LoginsFrom(a)) < MaxAttempts + Cardinality(Requests)
  BY DEF FailuresBounded
<1>4. CASE attempts'[a] < MaxAttempts
  BY <1>1, <1>2, <1>4
<1>5. CASE attempts'[a] <= attempts[a] /\ LoginsFrom(a)' \subseteq LoginsFrom(a)
  <2>1. Cardinality(LoginsFrom(a)') <= Cardinality(LoginsFrom(a))
    BY <1>1, <1>5, FS_Subset
  <2> QED BY <1>1, <1>2, <1>3, <1>5, <2>1
<1>6. ASSUME NEW r \in Requests, LimiterAllow(r)
      PROVE  \/ attempts'[a] < MaxAttempts
             \/ attempts'[a] <= attempts[a] /\ LoginsFrom(a)' \subseteq LoginsFrom(a)
  <2>1. PICK b \in Addrs : /\ attempts[b] < MaxAttempts
                           /\ Go(r, [Idle EXCEPT !.step = "login", !.addr = b])
    BY <1>6 DEF LimiterAllow, UnderLimit
  <2>2. attempts' = attempts
    BY <1>6 DEF LimiterAllow
  <2>3. CASE b = a
    BY <2>1, <2>2, <2>3
  <2>4. CASE b # a
    <3>1. req'[r] = [Idle EXCEPT !.step = "login", !.addr = b]
      BY <2>1, GoChangesOne DEF ShapeInv
    <3>2. req'[r].addr = b
      BY <3>1 DEF Idle
    <3>3. \A q \in Requests : q # r => req'[q] = req[q]
      BY <2>1, GoChangesOne DEF ShapeInv
    <3>4. LoginsFrom(a)' \subseteq LoginsFrom(a)
      BY <2>4, <3>2, <3>3 DEF LoginsFrom
    <3> QED BY <2>2, <3>4, <1>2
  <2> QED BY <2>3, <2>4
<1>7. CASE ~ \E r \in Requests : LimiterAllow(r)
  <2>1. LoginsFrom(a)' \subseteq LoginsFrom(a)
    <3> SUFFICES ASSUME NEW r \in LoginsFrom(a)' PROVE r \in LoginsFrom(a)
      OBVIOUS
    <3>1. r \in Requests
      BY DEF LoginsFrom
    <3> QED BY <1>7, <3>1, LoginsShrink
  <2>2. ASSUME NEW r \in Requests, RecordFailure(r)
        PROVE  attempts'[a] + Cardinality(LoginsFrom(a)')
                 < MaxAttempts + Cardinality(Requests)
    <3>1. CASE req[r].addr = a
      <4>1. attempts'[a] = attempts[a] + 1
        BY <2>2, <3>1 DEF RecordFailure, ShapeInv, TypeOK
      <4>2. r \in LoginsFrom(a)
        BY <2>2, <3>1 DEF RecordFailure, At, LoginsFrom
      <4>3. r \notin LoginsFrom(a)'
        BY <2>2, GoChangesOne DEF RecordFailure, Return, LoginsFrom, ShapeInv, Idle
      <4>4. LoginsFrom(a)' \subseteq LoginsFrom(a) \ {r}
        BY <2>1, <4>3
      <4>5. /\ Cardinality(LoginsFrom(a) \ {r}) = Cardinality(LoginsFrom(a)) - 1
            /\ IsFiniteSet(LoginsFrom(a) \ {r})
        BY <1>1, <4>2, FS_RemoveElement
      <4>6. Cardinality(LoginsFrom(a)') <= Cardinality(LoginsFrom(a)) - 1
        BY <4>4, <4>5, FS_Subset
      <4> QED BY <1>1, <1>2, <1>3, <4>1, <4>6
    <3>2. CASE req[r].addr # a
      <4>1. attempts'[a] = attempts[a]
        BY <2>2, <3>2 DEF RecordFailure, ShapeInv, TypeOK
      <4> QED BY <4>1, <2>1, <1>5, <1>2
    <3> QED BY <3>1, <3>2
  <2>3. ASSUME ~ \E r \in Requests : RecordFailure(r)
        PROVE  attempts'[a] <= attempts[a]
    <3>1. ASSUME NEW r \in Requests, LimiterReset(r) PROVE attempts'[a] <= attempts[a]
      <4>1. attempts'[a] = 0 \/ attempts'[a] = attempts[a]
        BY <3>1 DEF LimiterReset, ShapeInv, TypeOK
      <4> QED BY <4>1, <1>2
    <3>2. ASSUME NEW b \in Addrs, Forget(b) PROVE attempts'[a] <= attempts[a]
      <4>1. attempts'[a] = attempts[a] - 1 \/ attempts'[a] = attempts[a]
        BY <3>2 DEF Forget, ShapeInv, TypeOK
      <4> QED BY <4>1, <1>2
    <3>3. ASSUME Crash PROVE attempts'[a] <= attempts[a]
      <4>1. attempts'[a] = 0
        BY <3>3 DEF Crash
      <4> QED BY <4>1, <1>2
    <3>4. ASSUME UNCHANGED attempts PROVE attempts'[a] <= attempts[a]
      BY <3>4, <1>2
    <3> QED BY <1>7, <2>3, <3>1, <3>2, <3>3, <3>4
            DEF Next, vars, Request, SetupCheck, Setup, Authenticate, CreateSession,
                VerifyUserPassword, UpdateOwnPassword, UserPasswordSet,
                ChangePassword, Authorize, CreateUserWithRole, ReadTarget,
                CountAdmins, UpdateUserRole, DeleteUser, RequestEnds,
                ResetPassword, SessionEnds
  <2> QED BY <2>1, <2>2, <2>3, <1>5
<1> QED BY <1>4, <1>5, <1>6, <1>7

-------------------------------------------------------------------------------
(* Theorems                                                                *)

IdentityInv == ShapeInv /\ CurrentInv /\ AdminInv /\ OrgInv /\ FailuresBounded

\* The inductive invariant holds initially.
LEMMA InitInv == Init => IdentityInv
<1> SUFFICES ASSUME Init PROVE IdentityInv
  OBVIOUS
<1>1. \A r \in Requests : req[r].step = "idle"
  BY DEF Init, Idle
<1>2. CurrentInv /\ AdminInv /\ OrgInv
  BY <1>1 DEF Init, CurrentInv, AdminInv, OrgInv, At
<1>3. FailuresBounded
  <2> SUFFICES ASSUME NEW a \in Addrs
               PROVE  attempts[a] + Cardinality(LoginsFrom(a))
                        < MaxAttempts + Cardinality(Requests)
    BY DEF FailuresBounded
  <2>1. LoginsFrom(a) = {}
    BY <1>1 DEF LoginsFrom
  <2>2. Cardinality(LoginsFrom(a)) = 0
    BY <2>1, FS_EmptySet
  <2>3. attempts[a] = 0
    BY DEF Init
  <2> QED BY <2>2, <2>3, FS_CardinalityType, IdentityAssumption
<1> QED BY <1>2, <1>3, InitShape DEF IdentityInv

\* Every reachable state satisfies it.
LEMMA InvHolds == Spec => []IdentityInv
<1>1. IdentityInv /\ [Next]_vars => IdentityInv'
  BY ShapeStep, CurrentStep, AdminStep, OrgStep, LimiterStep DEF IdentityInv
<1> QED BY <1>1, InitInv, PTL DEF Spec

\* Types.
THEOREM TypeCorrect == Spec => []TypeOK
<1>1. IdentityInv => TypeOK
  BY DEF IdentityInv, ShapeInv
<1> QED BY <1>1, InvHolds, PTL

\* Sessions belong to users who exist, for all interleavings of logins with
\* deletions.
THEOREM SessionsBelongToUsers == Spec => []SessionsHaveUsers
<1>1. IdentityInv => SessionsHaveUsers
  BY DEF IdentityInv, ShapeInv
<1> QED BY <1>1, InvHolds, PTL

\* Sessions are those of the password of now, unless a change of it overlapped
\* a login.
THEOREM SessionsStayCurrent == Spec => []SessionsAreCurrent
<1>1. IdentityInv => SessionsAreCurrent
  BY DEF IdentityInv, CurrentInv, SessionsAreCurrent
<1> QED BY <1>1, InvHolds, PTL

\* An administrator remains, unless two changes of roles overlapped.
THEOREM AdministratorRemains == Spec => []AdminRemains
<1>1. IdentityInv => AdminRemains
  BY DEF IdentityInv, AdminInv, AdminRemains
<1> QED BY <1>1, InvHolds, PTL

\* The setup runs once, unless changes of roles or setups overlapped.
THEOREM SetupRunsOnce == Spec => []OneOrganization
<1>1. IdentityInv => OneOrganization
  BY DEF IdentityInv, OrgInv, OneOrganization
<1> QED BY <1>1, InvHolds, PTL

\* The failures from an address are bounded by the limit and the number of
\* concurrent requests.
THEOREM LimiterHolds == Spec => []FailuresBounded
<1>1. IdentityInv => FailuresBounded
  BY DEF IdentityInv
<1> QED BY <1>1, InvHolds, PTL

===============================================================================
