------------------------------ MODULE Accounts ------------------------------
(***************************************************************************)
(* Accounts, sessions and rate limits of the web frontend.                 *)
(*                                                                         *)
(* Handlers run on one event loop: between two awaits nothing interleaves. *)
(* Two kinds of request span an await and so see the users table change    *)
(* under them: a login, which reads the row and then verifies the password *)
(* in a thread, and an administrator's request, whose rights the           *)
(* middleware read before the handler runs.                                *)
(*                                                                         *)
(* A session is a signed cookie the server does not store, so every cookie *)
(* ever issued may come back.  A password is the number of times it was    *)
(* set.                                                                    *)
(***************************************************************************)
EXTENDS Naturals, FiniteSets

CONSTANTS
    Users,               \* usernames
    Clients,             \* how many requests can be in flight, by name
    Addresses,           \* client addresses, as client_ip_from_request sees them
    AllowRegistration,   \* settings.allow_registration
    MaxAttempts,         \* settings.max_login_attempts
    MaxAttemptsPerIp,    \* settings.max_login_attempts_per_ip
    MaxRegisterPerIp,    \* settings.max_register_attempts_per_ip
    MaxVersion,          \* bound on session versions
    MaxOutages           \* bound on the requests that find Redis down

ASSUME AccountsAssumption ==
    /\ IsFiniteSet(Users) /\ IsFiniteSet(Clients)
    /\ AllowRegistration \in BOOLEAN
    /\ {MaxAttempts, MaxAttemptsPerIp, MaxRegisterPerIp} \subseteq Nat \ {0}
    /\ {MaxVersion, MaxOutages} \subseteq Nat

VARIABLES
    users,           \* the users table
    cookies,         \* the session cookies issued so far
    bootstrap_done,  \* app.state.bootstrap_done
    counter,         \* the Redis keys auth:rl:*, 0 for one that is not there
    request,         \* the request each client has in flight
    outages          \* Redis outages left to inject

vars == <<users, cookies, bootstrap_done, counter, request, outages>>

\* A row of users; era counts deactivations and is not in the table.
Rows == [exists : BOOLEAN, is_admin : BOOLEAN, is_active : BOOLEAN,
         session_version : 0..MaxVersion, password : 0..MaxVersion, era : 0..MaxVersion]
NoRow == [exists |-> FALSE, is_admin |-> FALSE, is_active |-> FALSE,
          session_version |-> 0, password |-> 0, era |-> 0]

\* create_user.
NewRow(admin) == [NoRow EXCEPT !.exists = TRUE, !.is_admin = admin, !.is_active = TRUE]

\* A session: uid and sv, and what its holder proved when it was issued.
Cookies == [user : Users, session_version : 0..MaxVersion,
            password : 0..MaxVersion, era : 0..MaxVersion]
Cookie(u, row) == [user |-> u, session_version |-> row.session_version,
                   password |-> row.password, era |-> row.era]

RateKeys == ({"user"} \X Users) \cup ({"ip", "register"} \X Addresses)
Limit(k) == CASE k[1] = "user" -> MaxAttempts
              [] k[1] = "ip" -> MaxAttemptsPerIp
              [] k[1] = "register" -> MaxRegisterPerIp

\* A login whose password is being verified against the row it read, and an
\* administrator's request that passed the middleware.
Idle == [pc |-> "idle"]
Logins == [pc : {"verify"}, user : Users, address : Addresses, row : Rows, correct : BOOLEAN]
AdminRequests == [pc : {"admin"}, user : Users]

TypeOK ==
    /\ users \in [Users -> Rows]
    /\ cookies \subseteq Cookies
    /\ bootstrap_done \in BOOLEAN
    /\ counter \in [RateKeys -> Nat]
    /\ request \in [Clients -> {Idle} \cup Logins \cup AdminRequests]
    /\ outages \in 0..MaxOutages

Init ==
    /\ users = [u \in Users |-> NoRow]
    /\ cookies = {}
    /\ bootstrap_done = FALSE
    /\ counter = [k \in RateKeys |-> 0]
    /\ request = [c \in Clients |-> Idle]
    /\ outages = MaxOutages

-----------------------------------------------------------------------------
(* Building blocks *)

\* count_active_admins counts these.
ActiveAdmins == {u \in Users : users[u].is_admin /\ users[u].is_active}

\* AuthMiddleware honours a cookie whose user is active and has its version.
Accepted(k) == /\ users[k.user].exists /\ users[k.user].is_active
               /\ k.session_version = users[k.user].session_version

\* The latch of AuthMiddleware, which every request passes first.
LatchBootstrap == bootstrap_done' = (bootstrap_done \/ ActiveAdmins # {})

\* Mutant: the limit itself is still let through.
Locked_OffByOne(k) == counter[k] > Limit(k)

Locked(k) == counter[k] >= Limit(k)

\* INCR and EXPIRE NX of one key, in one MULTI with its sibling's: a key that counts
\* anything has a time to live.
Counted(k) == counter[k] + 1

RedisUp == UNCHANGED outages
RedisDown == outages > 0 /\ outages' = outages - 1

Begin(c, r) == request[c] = Idle /\ request' = [request EXCEPT ![c] = r]
Finish(c) == request' = [request EXCEPT ![c] = Idle]

-----------------------------------------------------------------------------
(* POST /register *)

\* Mutant: the latch decides, which a restart clears.
Bootstrapping_Latch == ~bootstrap_done

Bootstrapping == ActiveAdmins = {}

\* The handler awaits nothing, so it is one step.  Only the account that finds no
\* active administrator becomes one, and only it is neither refused nor counted.
\* During an outage nothing is refused, and the attempt may or may not be counted:
\* the lock is read and the attempt written by two commands.
Register(u, a) ==
    LET bootstrap == Bootstrapping
        k == <<"register", a>> IN
    /\ bootstrap \/ AllowRegistration
    /\ \/ RedisUp /\ (bootstrap \/ ~Locked(k))
          /\ counter' = IF bootstrap THEN counter ELSE [counter EXCEPT ![k] = Counted(k)]
       \/ RedisDown /\ ~bootstrap
          /\ counter' \in {counter, [counter EXCEPT ![k] = Counted(k)]}
    /\ IF users[u].exists
       THEN LatchBootstrap /\ UNCHANGED <<users, cookies>>
       ELSE /\ users' = [users EXCEPT ![u] = NewRow(bootstrap)]
            /\ cookies' = cookies \cup {Cookie(u, NewRow(bootstrap))}
            /\ bootstrap_done' = TRUE
    /\ UNCHANGED request

-----------------------------------------------------------------------------
(* POST /login *)

\* Up to the await: the row is read, and correct says whether the password will
\* turn out to be that row's.
LoginBegins(c, u, a) ==
    /\ \/ RedisUp /\ ~Locked(<<"user", u>>) /\ ~Locked(<<"ip", a>>)
       \/ RedisDown
    /\ \E correct \in {FALSE, users[u].exists} :
          Begin(c, [pc |-> "verify", user |-> u, address |-> a, row |-> users[u],
                    correct |-> correct])
    /\ LatchBootstrap
    /\ UNCHANGED <<users, cookies, counter>>

Verified(c) == request[c].pc = "verify"

\* _record_failure counts both keys, or nothing during an outage.
LoginFails(c) ==
    LET keys == {<<"user", request[c].user>>, <<"ip", request[c].address>>} IN
    /\ Verified(c) /\ ~request[c].correct
    /\ \/ RedisUp /\ counter' = [k \in RateKeys |-> IF k \in keys THEN Counted(k) ELSE counter[k]]
       \/ RedisDown /\ UNCHANGED counter
    /\ Finish(c)
    /\ UNCHANGED <<users, cookies, bootstrap_done>>

\* The right password of an account that was inactive counts as no failure.
LoginInactive(c) ==
    /\ Verified(c) /\ request[c].correct /\ ~request[c].row.is_active
    /\ Finish(c)
    /\ UNCHANGED <<users, cookies, bootstrap_done, counter, outages>>

\* Mutant: the version is read again after the await.
SessionOf_Reread(c) ==
    [Cookie(request[c].user, request[c].row) EXCEPT
        !.session_version = users[request[c].user].session_version]

\* The session is made from the row read before the await.
SessionOf(c) == Cookie(request[c].user, request[c].row)

LoginSucceeds(c) ==
    /\ Verified(c) /\ request[c].correct /\ request[c].row.is_active
    /\ cookies' = cookies \cup {SessionOf(c)}
    /\ \/ RedisUp /\ counter' = [counter EXCEPT ![<<"user", request[c].user>>] = 0]
       \/ RedisDown /\ UNCHANGED counter
    /\ Finish(c)
    /\ UNCHANGED <<users, bootstrap_done>>

-----------------------------------------------------------------------------
(* The administration pages *)

\* The middleware accepts the cookie and require_admin the row it read.
AdminBegins(c, k) ==
    /\ k \in cookies /\ Accepted(k) /\ users[k.user].is_admin
    /\ Begin(c, [pc |-> "admin", user |-> k.user])
    /\ LatchBootstrap
    /\ UNCHANGED <<users, cookies, counter, outages>>

\* Mutant: the last administrator is looked for among all of them.
IsLastAdmin_AnyAdmin(u) ==
    u \in ActiveAdmins /\ Cardinality({v \in Users : users[v].is_admin}) <= 1

\* The guard of set_active and set_admin.
IsLastAdmin(u) == u \in ActiveAdmins /\ Cardinality(ActiveAdmins) <= 1

\* The handler runs, whatever became of the administrator meanwhile.
AdminActs(c, u, row) ==
    /\ users' = [users EXCEPT ![u] = row]
    /\ Finish(c)
    /\ UNCHANGED <<cookies, bootstrap_done, counter, outages>>

CreateUser(c, u) ==
    /\ ~users[u].exists
    /\ \E admin \in BOOLEAN : AdminActs(c, u, NewRow(admin))

\* Mutant: the route bumps the version again.
Deactivated_BumpedTwice(row) ==
    [row EXCEPT !.is_active = FALSE, !.era = @ + 1, !.session_version = @ + 2]

Deactivated(row) ==
    [row EXCEPT !.is_active = FALSE, !.era = @ + 1, !.session_version = @ + 1]

Deactivate(c, u) ==
    /\ users[u].exists /\ u # request[c].user /\ ~IsLastAdmin(u)
    /\ users[u].session_version < MaxVersion
    /\ AdminActs(c, u, Deactivated(users[u]))

Activate(c, u) ==
    /\ users[u].exists
    /\ AdminActs(c, u, [users[u] EXCEPT !.is_active = TRUE])

ToggleAdmin(c, u) ==
    /\ users[u].exists /\ u # request[c].user /\ ~IsLastAdmin(u)
    /\ AdminActs(c, u, [users[u] EXCEPT !.is_admin = ~@])

\* set_password.
ResetPassword(c, u) ==
    /\ users[u].exists
    /\ users[u].session_version < MaxVersion
    /\ AdminActs(c, u, [users[u] EXCEPT !.password = @ + 1, !.session_version = @ + 1])

\* A guard refuses and the handler only redirects.
Refuse(c) ==
    /\ Finish(c)
    /\ UNCHANGED <<users, cookies, bootstrap_done, counter, outages>>

AdminRequest(c) ==
    /\ request[c].pc = "admin"
    /\ \/ \E u \in Users : \/ CreateUser(c, u) \/ Deactivate(c, u) \/ Activate(c, u)
                           \/ ToggleAdmin(c, u) \/ ResetPassword(c, u)
       \/ Refuse(c)

-----------------------------------------------------------------------------
\* Any other request, those the handlers refuse included, passes the latch.
Visit ==
    /\ LatchBootstrap
    /\ UNCHANGED <<users, cookies, counter, request, outages>>

\* A key reaches its time to live.
Expire(k) ==
    /\ counter[k] > 0
    /\ counter' = [counter EXCEPT ![k] = 0]
    /\ UNCHANGED <<users, cookies, bootstrap_done, request, outages>>

\* The frontend restarts: requests in flight end and the latch starts anew; with
\* SESSION_SECRET set, the sessions go on.
Restart ==
    /\ bootstrap_done' = FALSE
    /\ request' = [c \in Clients |-> Idle]
    /\ UNCHANGED <<users, cookies, counter, outages>>

Next ==
    \/ \E u \in Users, a \in Addresses : Register(u, a)
    \/ \E c \in Clients :
          \/ \E u \in Users, a \in Addresses : LoginBegins(c, u, a)
          \/ LoginFails(c) \/ LoginInactive(c) \/ LoginSucceeds(c)
          \/ \E k \in cookies : AdminBegins(c, k)
          \/ AdminRequest(c)
    \/ \E k \in RateKeys : Expire(k)
    \/ Visit
    \/ Restart

Spec == Init /\ [][Next]_vars

-----------------------------------------------------------------------------
(* Properties *)

\* Once there are accounts, someone can administer them: administrators who
\* demote or deactivate each other at the same time do not all succeed
\* (users_repo.py, LastAdminError).
AnAdminRemains == (\E u \in Users : users[u].exists) => ActiveAdmins # {}

\* A cookie the middleware honours was earned with the present password and since
\* the last deactivation, although its login may have read the row before either
\* and finished after it (set_password, set_active: "invalidates every existing session").
SessionsAreCurrent ==
    \A k \in cookies : Accepted(k) =>
        k.password = users[k.user].password /\ k.era = users[k.user].era

\* Administrators come from the bootstrap registration or from another's
\* request, whatever a restart has done to the latch.
AdminsAreAppointed ==
    [][ \A u \in Users : users'[u].is_admin /\ ~users[u].is_admin =>
          ActiveAdmins = {} \/ \E c \in Clients : AdminRequest(c) ]_vars

\* A login looks at the lock before its await and counts its failure after it, so
\* a login counter can pass its limit, but only by the requests then in flight and
\* those an outage let in.  A registration awaits nothing: only outages let it pass.
AttemptsAreBounded ==
    \A k \in RateKeys :
        counter[k] <= Limit(k) + (MaxOutages - outages)
                            + (IF k[1] = "register" THEN 0 ELSE Cardinality(Clients) - 1)
=============================================================================
