-------------------------------- MODULE Identity --------------------------------
(***************************************************************************)
(* Users, their roles and passwords, sessions, the first-run setup and the *)
(* login limiter.  A request is the sequence of SQL statements and         *)
(* critical sections that the handler makes; those of other requests and   *)
(* of the command line run between them.                                   *)
(*                                                                         *)
(* A password hash is a number that every change of the password           *)
(* increases.  User ids and session tokens are random and never given      *)
(* twice, so a deleted user stays deleted.                                 *)
(***************************************************************************)
EXTENDS Naturals, FiniteSets

CONSTANTS
  Users,
  Requests,     \* requests in flight at a time
  Tokens,       \* sessions open at a time
  Addrs,        \* client addresses that log in
  MaxAttempts,  \* loginRateLimitMax
  MaxHash,      \* bound: password changes of a user
  NoUser, NoAddr, NoSession

ASSUME IdentityAssumption ==
  /\ IsFiniteSet(Users) /\ IsFiniteSet(Requests)
  /\ MaxAttempts \in Nat \ {0} /\ MaxHash \in Nat
  /\ NoUser \notin Users /\ NoAddr \notin Addrs
  /\ NoSession \notin [user : Users, hash : 0 .. MaxHash]

VARIABLES
  role,      \* column role, or that there is no row yet or no more
  hash,      \* column password_hash
  session,   \* the rows of sessions that have not expired
  orgs,      \* how many organizations the setup has created
  attempts,  \* failures of an address within the window of the limiter
  req,       \* where each request stands, and its locals
  overlaps   \* history: kinds of changes that have run into each other

vars == <<role, hash, session, orgs, attempts, req, overlaps>>

Roles  == {"operator", "admin"}
FormRoles == Roles \cup {"other"}  \* what a form may ask for
Hashes == 0 .. MaxHash
Steps  == {"idle", "setup", "profile", "verified", "admin", "count", "write",
           "login", "refused", "session", "reset"}

Locals == [step : Steps, actor : Users \cup {NoUser}, target : Users \cup {NoUser},
           ask : Roles \cup {"delete", "nothing"}, hash : Hashes,
           addr : Addrs \cup {NoAddr}]

Idle == [step |-> "idle", actor |-> NoUser, target |-> NoUser,
         ask |-> "nothing", hash |-> 0, addr |-> NoAddr]

Init ==
  /\ role     = [u \in Users |-> "absent"]
  /\ hash     = [u \in Users |-> 0]
  /\ session  = [t \in Tokens |-> NoSession]
  /\ orgs     = 0
  /\ attempts = [a \in Addrs |-> 0]
  /\ req      = [r \in Requests |-> Idle]
  /\ overlaps = {}

-------------------------------------------------------------------------------

Exists(u)  == role[u] \in Roles
Admins     == {u \in Users : role[u] = "admin"}
AdminCount == Cardinality(Admins)
NeedsSetup == \A u \in Users : ~Exists(u)

At(r, step)   == req[r].step = step
Go(r, locals) == req' = [req EXCEPT ![r] = locals]
Return(r)     == Go(r, Idle)

\* A change of this kind is made while other requests are between the look
\* that they base theirs on and the change itself.
Overlap(kind, others) ==
  overlaps' = IF others = {} THEN overlaps ELSE overlaps \cup {kind}

SetupsBut(r) == {q \in Requests \ {r} : At(q, "setup")}
ChangesBut(r) == {q \in Requests \ {r} : At(q, "count") \/ At(q, "write")}
LoginsOf(u)   == {q \in Requests : At(q, "session") /\ req[q].target = u}

\* Mutant: the sessions of the user stay.
SessionsKept(u) == session

SessionsWithout(u) ==
  [t \in Tokens |-> IF session[t] # NoSession /\ session[t].user = u
                      THEN NoSession ELSE session[t]]

-------------------------------------------------------------------------------
(* First run: handleSetup and onboard                                      *)

SetupCheck(r) ==
  /\ At(r, "idle") /\ NeedsSetup
  /\ Go(r, [Idle EXCEPT !.step = "setup"])
  /\ UNCHANGED <<role, hash, session, orgs, attempts, overlaps>>

Setup(r) ==
  /\ At(r, "setup")
  /\ \E u \in Users : /\ role[u] = "absent"
                      /\ role' = [role EXCEPT ![u] = "admin"]
  /\ orgs' = orgs + 1
  /\ Overlap("setup", SetupsBut(r))
  /\ Return(r)
  /\ UNCHANGED <<hash, session, attempts>>

-------------------------------------------------------------------------------
(* Login, sessions                                                         *)

\* Mutant: the limit itself still passes.
UpToLimit(a) == attempts[a] <= MaxAttempts

UnderLimit(a) == attempts[a] < MaxAttempts

LimiterAllow(r) ==
  /\ At(r, "idle")
  /\ \E a \in Addrs : /\ UnderLimit(a)
                      /\ Go(r, [Idle EXCEPT !.step = "login", !.addr = a])
  /\ UNCHANGED <<role, hash, session, orgs, attempts, overlaps>>

\* The row is read; the password is compared after that.
Authenticate(r) ==
  /\ At(r, "login")
  /\ \/ \E u \in Users :
          /\ Exists(u)
          /\ Go(r, [req[r] EXCEPT !.step = "session", !.target = u, !.hash = hash[u]])
     \/ Go(r, [req[r] EXCEPT !.step = "refused"])
  /\ UNCHANGED <<role, hash, session, orgs, attempts, overlaps>>

RecordFailure(r) ==
  /\ At(r, "refused")
  /\ attempts' = [attempts EXCEPT ![req[r].addr] = @ + 1]
  /\ Return(r)
  /\ UNCHANGED <<role, hash, session, orgs, overlaps>>

\* Mutant: nothing checks that the user is still there.
AnyUser(u) == u \in Users

\* The foreign key of sessions.user_id.
Referenced(u) == Exists(u)

\* The last statement of a login, and of a change of one's own password.
CreateSession(r) ==
  /\ At(r, "session") /\ Referenced(req[r].target)
  /\ \E t \in Tokens :
       /\ session[t] = NoSession
       /\ session' = [session EXCEPT ![t] = [user |-> req[r].target, hash |-> req[r].hash]]
  /\ IF req[r].addr = NoAddr THEN Return(r)
                             ELSE Go(r, [req[r] EXCEPT !.step = "reset"])
  /\ UNCHANGED <<role, hash, orgs, attempts, overlaps>>

LimiterReset(r) ==
  /\ At(r, "reset")
  /\ attempts' = [attempts EXCEPT ![req[r].addr] = 0]
  /\ Return(r)
  /\ UNCHANGED <<role, hash, session, orgs, overlaps>>

\* Logout, or expiry; rows that have expired are not read by anything but
\* CleanupExpiredSessions, which deletes them.
SessionEnds(t) ==
  /\ session[t] # NoSession
  /\ session' = [session EXCEPT ![t] = NoSession]
  /\ UNCHANGED <<role, hash, orgs, attempts, req, overlaps>>

\* A failure leaves the window.
Forget(a) ==
  /\ attempts[a] > 0
  /\ attempts' = [attempts EXCEPT ![a] = @ - 1]
  /\ UNCHANGED <<role, hash, session, orgs, req, overlaps>>

-------------------------------------------------------------------------------
(* Passwords                                                               *)

\* UpdatePassword, one transaction; it does not mind a user who is gone.
ChangePassword(u) ==
  /\ hash[u] < MaxHash
  /\ hash'    = IF Exists(u) THEN [hash EXCEPT ![u] = @ + 1] ELSE hash
  /\ session' = SessionsWithout(u)
  /\ Overlap("password", LoginsOf(u))
  /\ UNCHANGED <<role, orgs, attempts>>

VerifyUserPassword(r) ==
  /\ At(r, "profile") /\ Exists(req[r].actor)
  /\ Go(r, [req[r] EXCEPT !.step = "verified"])
  /\ UNCHANGED <<role, hash, session, orgs, attempts, overlaps>>

UpdateOwnPassword(r) ==
  LET u == req[r].actor IN
  /\ At(r, "verified")
  /\ ChangePassword(u)
  /\ Go(r, [req[r] EXCEPT !.step = "session", !.target = u, !.hash = hash'[u]])

UserPasswordSet(r) ==
  /\ At(r, "admin")
  /\ \E u \in Users : ChangePassword(u)
  /\ Return(r)

\* The command reset-password, in a process of its own.
ResetPassword(u) ==
  /\ Exists(u) /\ ChangePassword(u)
  /\ UNCHANGED req

-------------------------------------------------------------------------------
(* Users and roles                                                         *)

\* authMiddleware reads the user of the session, requireAdmin looks at the
\* role that was read.
Authorize(r) ==
  /\ At(r, "idle")
  /\ \E t \in Tokens :
       /\ session[t] # NoSession
       /\ \E page \in {"profile", "admin"} :
            /\ page = "admin" => role[session[t].user] = "admin"
            /\ Go(r, [Idle EXCEPT !.step = page, !.actor = session[t].user])
  /\ UNCHANGED <<role, hash, session, orgs, attempts, overlaps>>

\* Mutant: the text of the form is taken as it is.
AnyRole(text) == text \in FormRoles

ValidRole(text) == text \in Roles

CreateUserWithRole(r) ==
  /\ At(r, "admin")
  /\ \E u \in Users, to \in FormRoles : /\ role[u] = "absent" /\ ValidRole(to)
                                        /\ role' = [role EXCEPT ![u] = to]
  /\ Return(r)
  /\ UNCHANGED <<hash, session, orgs, attempts, overlaps>>

\* UpdateUserRole and DeleteUserAs up to the role of the target.
ReadTarget(r) ==
  /\ At(r, "admin")
  /\ \E u \in Users \ {req[r].actor}, ask \in FormRoles \cup {"delete"} :
       /\ ask = "delete" \/ ValidRole(ask)
       /\ Exists(u)
       /\ Go(r, [req[r] EXCEPT
                   !.step = IF role[u] = "admin" /\ ask # "admin" THEN "count" ELSE "write",
                   !.target = u, !.ask = ask])
  /\ UNCHANGED <<role, hash, session, orgs, attempts, overlaps>>

\* Mutant: one administrator is enough.
EnoughWithOne == AdminCount >= 1

EnoughAdmins == AdminCount > 1

CountAdmins(r) ==
  /\ At(r, "count") /\ EnoughAdmins
  /\ Go(r, [req[r] EXCEPT !.step = "write"])
  /\ UNCHANGED <<role, hash, session, orgs, attempts, overlaps>>

UpdateUserRole(r) ==
  LET u == req[r].target IN
  /\ At(r, "write") /\ req[r].ask # "delete"
  /\ role' = IF Exists(u) THEN [role EXCEPT ![u] = req[r].ask] ELSE role
  /\ Overlap("role", ChangesBut(r))
  /\ Return(r)
  /\ UNCHANGED <<hash, session, orgs, attempts>>

\* One transaction with the user's sessions and invoices.
DeleteUser(r) ==
  LET u == req[r].target IN
  /\ At(r, "write") /\ req[r].ask = "delete"
  /\ role' = [role EXCEPT ![u] = "deleted"]
  /\ session' = SessionsWithout(u)
  /\ Overlap("role", ChangesBut(r))
  /\ Return(r)
  /\ UNCHANGED <<hash, orgs, attempts>>

-------------------------------------------------------------------------------

\* An early return: the form is invalid, a check refuses, a statement fails or
\* violates a constraint, the client is gone.
RequestEnds(r) ==
  /\ ~At(r, "idle")
  /\ Return(r)
  /\ UNCHANGED <<role, hash, session, orgs, attempts, overlaps>>

\* The server restarts.  A setup may be that of onboard, another process; if
\* it is not, it ends with RequestEnds.
Crash ==
  /\ req' = [r \in Requests |-> IF At(r, "setup") THEN req[r] ELSE Idle]
  /\ attempts' = [a \in Addrs |-> 0]
  /\ UNCHANGED <<role, hash, session, orgs, overlaps>>

Request(r) ==
  \/ SetupCheck(r) \/ Setup(r)
  \/ LimiterAllow(r) \/ Authenticate(r) \/ RecordFailure(r)
  \/ CreateSession(r) \/ LimiterReset(r)
  \/ VerifyUserPassword(r) \/ UpdateOwnPassword(r) \/ UserPasswordSet(r)
  \/ Authorize(r) \/ CreateUserWithRole(r)
  \/ ReadTarget(r) \/ CountAdmins(r) \/ UpdateUserRole(r) \/ DeleteUser(r)
  \/ RequestEnds(r)

Next ==
  \/ \E r \in Requests : Request(r)
  \/ \E u \in Users : ResetPassword(u)
  \/ \E t \in Tokens : SessionEnds(t)
  \/ \E a \in Addrs : Forget(a)
  \/ Crash

Spec == Init /\ [][Next]_vars

-------------------------------------------------------------------------------
(* Properties                                                              *)

\* Types.
TypeOK ==
  /\ role \in [Users -> Roles \cup {"absent", "deleted"}]
  /\ hash \in [Users -> Hashes]
  /\ session \in [Tokens -> [user : Users, hash : Hashes] \cup {NoSession}]
  /\ orgs \in Nat
  /\ attempts \in [Addrs -> Nat]
  /\ req \in [Requests -> Locals]
  /\ overlaps \subseteq {"role", "setup", "password"}

\* Once the system is set up there is an administrator (identity.go:263), unless
\* two changes of roles have overlapped: the target's role, the number of
\* administrators and the write are three statements.
AdminRemains ==
  orgs > 0 /\ "role" \notin overlaps => Admins # {}

\* The setup runs once.  If no two setups overlap, a second one would take a
\* system without users, which takes a last administrator removed.
OneOrganization ==
  overlaps \cap {"setup", "role"} = {} => orgs <= 1

\* A session was opened with the password that its user has now, unless a
\* password changed while somebody was between its check and the new session.
SessionsAreCurrent ==
  "password" \notin overlaps =>
    \A t \in Tokens : session[t] # NoSession => session[t].hash = hash[session[t].user]

\* A session belongs to a user who exists, although a login may have checked
\* the password of one who was deleted before the session is inserted.
SessionsHaveUsers ==
  \A t \in Tokens : session[t] # NoSession => Exists(session[t].user)

LoginsFrom(a) ==
  {r \in Requests : /\ req[r].addr = a
                    /\ req[r].step \in {"login", "refused", "session", "reset"}}

\* The failures that count against an address, and the logins that may still
\* add one, stay below the limit and the number of concurrent requests: what
\* allow has let through is bounded although recordFailure comes later.
FailuresBounded ==
  \A a \in Addrs :
    attempts[a] + Cardinality(LoginsFrom(a)) < MaxAttempts + Cardinality(Requests)

===============================================================================
