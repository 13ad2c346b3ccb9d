--------------------------- MODULE AccountsProofs ---------------------------
(***************************************************************************)
(* Theorems about Accounts, for any users, clients, addresses and limits.  *)
(***************************************************************************)
EXTENDS Accounts, FiniteSetTheorems, TLAPS

-----------------------------------------------------------------------------
(* The inductive invariant *)

\* A row not yet inserted is NoRow; only an update that also raises the session
\* version sets a password or deactivates.
Sound(row) == /\ ~row.exists => row = NoRow
              /\ row.era <= row.session_version
              /\ row.password <= row.session_version

RowsSound == \A u \in Users : Sound(users[u])

RequestersExist ==
    \A c \in Clients : request[c].pc = "admin" => users[request[c].user].exists

\* What is proved about a session k (a cookie, or a row read earlier) and the
\* present row: k is no newer, and if it is as new it has the same password and era.
Current(k, row) ==
    /\ row.exists
    /\ k.session_version <= row.session_version
    /\ k.session_version = row.session_version => k.password = row.password /\ k.era = row.era

CookiesCurrent == \A k \in cookies : Current(k, users[k.user])

LoginsCurrent ==
    \A c \in Clients : request[c].pc = "verify" /\ request[c].correct =>
        Current(request[c].row, users[request[c].user])

TableInvariant == TypeOK /\ RowsSound /\ RequestersExist

SessionInvariant == CookiesCurrent /\ LoginsCurrent

-----------------------------------------------------------------------------
(* What a step does to the users table *)

\* One row becomes row, which is as the invariants need it.
Rewrites(u, row) ==
    /\ users' = [users EXCEPT ![u] = row]
    /\ row.exists /\ Sound(row)
    /\ users[u].exists => Current(users[u], row)
    /\ u \in ActiveAdmins => (row.is_admin /\ row.is_active) \/ ~IsLastAdmin(u)
    /\ (\E v \in Users : users[v].exists) \/ (row.is_admin /\ row.is_active)

TableStep == UNCHANGED users \/ \E u \in Users, row \in Rows : Rewrites(u, row)

LEMMA NewRowSound ==
    ASSUME NEW admin \in BOOLEAN
    PROVE  /\ NewRow(admin) \in Rows /\ NewRow(admin).exists /\ Sound(NewRow(admin))
           /\ NewRow(admin).is_active /\ NewRow(admin).is_admin = admin
           /\ NewRow(admin).session_version = 0
           /\ NewRow(admin).password = 0 /\ NewRow(admin).era = 0
<1>1. NoRow \in Rows
  BY AccountsAssumption DEF AccountsAssumption, NoRow, Rows
<1>2. /\ NewRow(admin) \in Rows /\ NewRow(admin).exists
      /\ NewRow(admin).is_active /\ NewRow(admin).is_admin = admin
  BY <1>1 DEF NewRow, Rows
<1>3. /\ NewRow(admin).session_version = 0
      /\ NewRow(admin).password = 0 /\ NewRow(admin).era = 0
  BY DEF NewRow, NoRow
<1> QED
  BY <1>2, <1>3 DEF Sound

\* What an administrator can make of a row r: deactivate, activate, toggle its
\* flag, reset its password.
LEMMA UpdateTypes ==
    ASSUME NEW r \in Rows, Sound(r)
    PROVE  /\ r.session_version < MaxVersion => Deactivated(r) \in Rows
           /\ [r EXCEPT !.is_active = TRUE] \in Rows
           /\ [r EXCEPT !.is_admin = ~@] \in Rows
           /\ r.session_version < MaxVersion =>
                 [r EXCEPT !.password = @ + 1, !.session_version = @ + 1] \in Rows
<1>1. ASSUME NEW i \in 0..MaxVersion, NEW j \in 0..MaxVersion
      PROVE  /\ [r EXCEPT !.is_active = FALSE, !.era = i, !.session_version = j] \in Rows
             /\ [r EXCEPT !.password = i, !.session_version = j] \in Rows
  BY DEF Rows
<1>2. ASSUME r.session_version < MaxVersion
      PROVE  /\ r.session_version + 1 \in 0..MaxVersion
             /\ r.era + 1 \in 0..MaxVersion /\ r.password + 1 \in 0..MaxVersion
  BY <1>2, AccountsAssumption DEF AccountsAssumption, Rows, Sound
<1>3. ASSUME r.session_version < MaxVersion PROVE Deactivated(r) \in Rows
  BY <1>1, <1>2, <1>3 DEF Deactivated
<1>4. ASSUME r.session_version < MaxVersion
      PROVE  [r EXCEPT !.password = @ + 1, !.session_version = @ + 1] \in Rows
  BY <1>1, <1>2, <1>4
<1> QED
  BY <1>3, <1>4 DEF Rows

LEMMA RowNumbers ==
    ASSUME NEW r \in Rows
    PROVE  /\ r.session_version \in Nat /\ r.password \in Nat /\ r.era \in Nat
           /\ r.session_version <= MaxVersion
BY AccountsAssumption DEF AccountsAssumption, Rows

LEMMA DeactivatedSound ==
    ASSUME NEW r \in Rows, r.exists, Sound(r)
    PROVE  /\ Deactivated(r).exists /\ Sound(Deactivated(r)) /\ Current(r, Deactivated(r))
<1>1. /\ Deactivated(r).exists /\ Deactivated(r).password = r.password
      /\ Deactivated(r).session_version = r.session_version + 1
      /\ Deactivated(r).era = r.era + 1
  BY DEF Deactivated, Rows
<1> QED
  BY <1>1, RowNumbers DEF Sound, Current

LEMMA ActivatedSound ==
    ASSUME NEW r \in Rows, r.exists, Sound(r), NEW row, row = [r EXCEPT !.is_active = TRUE]
    PROVE  /\ row.exists /\ Sound(row) /\ Current(r, row)
           /\ row.is_active /\ row.is_admin = r.is_admin
<1>1. /\ row.exists /\ row.is_active /\ row.is_admin = r.is_admin /\ row.era = r.era
      /\ row.password = r.password /\ row.session_version = r.session_version
  BY DEF Rows
<1> QED
  BY <1>1, RowNumbers DEF Sound, Current

LEMMA ToggledSound ==
    ASSUME NEW r \in Rows, r.exists, Sound(r), NEW row, row = [r EXCEPT !.is_admin = ~@]
    PROVE  row.exists /\ Sound(row) /\ Current(r, row)
<1>1. /\ row.exists /\ row.era = r.era
      /\ row.password = r.password /\ row.session_version = r.session_version
  BY DEF Rows
<1> QED
  BY <1>1, RowNumbers DEF Sound, Current

LEMMA ResetSound ==
    ASSUME NEW r \in Rows, r.exists, Sound(r), NEW row,
           row = [r EXCEPT !.password = @ + 1, !.session_version = @ + 1]
    PROVE  /\ row.exists /\ Sound(row) /\ Current(r, row)
           /\ row.is_active = r.is_active /\ row.is_admin = r.is_admin
<1>1. /\ row.exists /\ row.era = r.era
      /\ row.is_active = r.is_active /\ row.is_admin = r.is_admin
      /\ row.password = r.password + 1 /\ row.session_version = r.session_version + 1
  BY DEF Rows
<1> QED
  BY <1>1, RowNumbers DEF Sound, Current

\* Registration inserts a row nobody had, an administrator's if there is none.
LEMMA RegisterRewrites ==
    ASSUME TableInvariant, NEW u \in Users, NEW a \in Addresses, Register(u, a)
    PROVE  TableStep
<1>1. CASE users[u].exists
  BY <1>1 DEF Register, TableStep
<1>2. CASE ~users[u].exists
  <2> DEFINE row == NewRow(Bootstrapping)
  <2>1. users' = [users EXCEPT ![u] = row]
    BY <1>2 DEF Register
  <2>2. Bootstrapping \in BOOLEAN
    BY DEF Bootstrapping
  <2>3. row \in Rows /\ row.exists /\ Sound(row) /\ row.is_active /\ row.is_admin = Bootstrapping
    BY <2>2, NewRowSound
  <2>4. u \notin ActiveAdmins
    BY <1>2 DEF TableInvariant, RowsSound, Sound, NoRow, ActiveAdmins
  <2>5. Bootstrapping \/ \E v \in Users : users[v].exists
    BY DEF Bootstrapping, TableInvariant, RowsSound, Sound, NoRow, ActiveAdmins
  <2> QED
    BY <1>2, <2>1, <2>3, <2>4, <2>5 DEF TableStep, Rewrites
<1> QED
  BY <1>1, <1>2

\* An administrator's request rewrites one row, and demotes or deactivates only
\* a user who is not the last active administrator.
LEMMA AdminRewrites ==
    ASSUME TableInvariant, NEW c \in Clients, AdminRequest(c)
    PROVE  TableStep
<1>1. \E v \in Users : users[v].exists
  <2>1. request[c] \in AdminRequests
    BY DEF AdminRequest, TableInvariant, TypeOK, Idle, Logins
  <2> QED
    BY <2>1 DEF AdminRequest, TableInvariant, RequestersExist, AdminRequests
<1>2. ASSUME NEW u \in Users, CreateUser(c, u) PROVE TableStep
  <2>1. PICK admin \in BOOLEAN : users' = [users EXCEPT ![u] = NewRow(admin)]
    BY <1>2 DEF CreateUser, AdminActs
  <2>2. u \notin ActiveAdmins /\ ~users[u].exists
    BY <1>2 DEF CreateUser, TableInvariant, RowsSound, Sound, NoRow, ActiveAdmins
  <2> QED
    BY <1>1, <2>1, <2>2, NewRowSound DEF TableStep, Rewrites
<1>3. ASSUME NEW u \in Users, Deactivate(c, u) PROVE TableStep
  <2> DEFINE row == Deactivated(users[u])
  <2>1. users' = [users EXCEPT ![u] = row] /\ ~IsLastAdmin(u)
    BY <1>3 DEF Deactivate, AdminActs
  <2>2. /\ row \in Rows /\ row.exists /\ Sound(row)
        /\ Current(users[u], row)
    BY <1>3, UpdateTypes, DeactivatedSound DEF Deactivate, TableInvariant, TypeOK, RowsSound
  <2> QED
    BY <1>1, <2>1, <2>2 DEF TableStep, Rewrites
<1>4. ASSUME NEW u \in Users, Activate(c, u) PROVE TableStep
  <2> DEFINE row == [users[u] EXCEPT !.is_active = TRUE]
  <2>1. users' = [users EXCEPT ![u] = row]
    BY <1>4 DEF Activate, AdminActs
  <2>2. /\ row \in Rows /\ row.exists /\ Sound(row) /\ Current(users[u], row)
        /\ row.is_active /\ row.is_admin = users[u].is_admin
    BY <1>4, UpdateTypes, ActivatedSound DEF Activate, TableInvariant, TypeOK, RowsSound
  <2>3. u \in ActiveAdmins => row.is_admin
    BY <2>2 DEF ActiveAdmins
  <2> QED
    BY <1>1, <2>1, <2>2, <2>3 DEF TableStep, Rewrites
<1>5. ASSUME NEW u \in Users, ToggleAdmin(c, u) PROVE TableStep
  <2> DEFINE row == [users[u] EXCEPT !.is_admin = ~@]
  <2>1. users' = [users EXCEPT ![u] = row] /\ ~IsLastAdmin(u)
    BY <1>5 DEF ToggleAdmin, AdminActs
  <2>2. row \in Rows /\ row.exists /\ Sound(row) /\ Current(users[u], row)
    BY <1>5, UpdateTypes, ToggledSound DEF ToggleAdmin, TableInvariant, TypeOK, RowsSound
  <2> QED
    BY <1>1, <2>1, <2>2 DEF TableStep, Rewrites
<1>6. ASSUME NEW u \in Users, ResetPassword(c, u) PROVE TableStep
  <2> DEFINE row == [users[u] EXCEPT !.password = @ + 1, !.session_version = @ + 1]
  <2>1. users' = [users EXCEPT ![u] = row]
    BY <1>6 DEF ResetPassword, AdminActs
  <2>2. /\ row \in Rows /\ row.exists /\ Sound(row) /\ Current(users[u], row)
        /\ row.is_active = users[u].is_active /\ row.is_admin = users[u].is_admin
    BY <1>6, UpdateTypes, ResetSound DEF ResetPassword, TableInvariant, TypeOK, RowsSound
  <2>3. u \in ActiveAdmins => row.is_admin /\ row.is_active
    BY <2>2 DEF ActiveAdmins
  <2> QED
    BY <1>1, <2>1, <2>2, <2>3 DEF TableStep, Rewrites
<1>7. CASE Refuse(c)
  BY <1>7 DEF Refuse, TableStep
<1> QED
  BY <1>2, <1>3, <1>4, <1>5, <1>6, <1>7 DEF AdminRequest

LEMMA NextRewrites ==
    ASSUME TableInvariant, [Next]_vars
    PROVE  TableStep
<1>1. ASSUME NEW u \in Users, NEW a \in Addresses, Register(u, a) PROVE TableStep
  BY <1>1, RegisterRewrites
<1>2. ASSUME NEW c \in Clients, AdminRequest(c) PROVE TableStep
  BY <1>2, AdminRewrites
<1>3. ASSUME NEW c \in Clients, NEW u \in Users, NEW a \in Addresses, LoginBegins(c, u, a)
      PROVE  TableStep
  BY <1>3 DEF LoginBegins, TableStep
<1>4. ASSUME NEW c \in Clients, LoginFails(c) \/ LoginInactive(c) \/ LoginSucceeds(c)
      PROVE  TableStep
  BY <1>4 DEF LoginFails, LoginInactive, LoginSucceeds, TableStep
<1>5. ASSUME NEW c \in Clients, NEW k \in cookies, AdminBegins(c, k) PROVE TableStep
  BY <1>5 DEF AdminBegins, TableStep
<1>6. ASSUME NEW k \in RateKeys, Expire(k) PROVE TableStep
  BY <1>6 DEF Expire, TableStep
<1>7. CASE Visit \/ Restart
  BY <1>7 DEF Visit, Restart, TableStep
<1>8. CASE UNCHANGED vars
  BY <1>8 DEF vars, TableStep
<1> QED
  BY <1>1, <1>2, <1>3, <1>4, <1>5, <1>6, <1>7, <1>8 DEF Next

-----------------------------------------------------------------------------
(* The rate-limit counters *)

LEMMA NextCounts ==
    ASSUME TypeOK, [Next]_vars
    PROVE  counter' \in [RateKeys -> Nat]
<1> DEFINE Counts == counter' \in [RateKeys -> Nat]
<1>1. counter \in [RateKeys -> Nat] /\ \A k \in RateKeys : Counted(k) \in Nat
  BY DEF TypeOK, Counted
<1>2. ASSUME NEW u \in Users, NEW a \in Addresses, Register(u, a) PROVE Counts
  <2> DEFINE k == <<"register", a>>
  <2>1. k \in RateKeys
    BY DEF RateKeys
  <2>2. counter' \in {counter, [counter EXCEPT ![k] = Counted(k)]}
    BY <1>2 DEF Register
  <2> QED
    BY <1>1, <2>1, <2>2
<1>3. ASSUME NEW c \in Clients, LoginFails(c) PROVE Counts
  BY <1>1, <1>3 DEF LoginFails
<1>4. ASSUME NEW c \in Clients, LoginSucceeds(c) PROVE Counts
  BY <1>1, <1>4 DEF LoginSucceeds
<1>5. ASSUME NEW k \in RateKeys, Expire(k) PROVE Counts
  BY <1>1, <1>5 DEF Expire
<1>6. ASSUME UNCHANGED counter PROVE Counts
  BY <1>1, <1>6
<1>7. ASSUME NEW c \in Clients, AdminRequest(c) PROVE UNCHANGED counter
  BY <1>7 DEF AdminRequest, CreateUser, Deactivate, Activate, ToggleAdmin, ResetPassword,
              Refuse, AdminActs
<1>8. ASSUME NEW c \in Clients, NEW u \in Users, NEW a \in Addresses,
             LoginBegins(c, u, a) \/ LoginInactive(c)
      PROVE  UNCHANGED counter
  BY <1>8 DEF LoginBegins, LoginInactive
<1>9. ASSUME NEW c \in Clients, NEW k \in cookies, AdminBegins(c, k)
      PROVE  UNCHANGED counter
  BY <1>9 DEF AdminBegins
<1>10. CASE Visit \/ Restart \/ UNCHANGED vars
  BY <1>6, <1>10 DEF Visit, Restart, vars
<1>11. ASSUME NEW c \in Clients, LoginInactive(c) PROVE UNCHANGED counter
  BY <1>11 DEF LoginInactive
<1> QED
  BY <1>2, <1>3, <1>4, <1>5, <1>6, <1>7, <1>8, <1>9, <1>10, <1>11 DEF Next

-----------------------------------------------------------------------------
(* Types *)

LEMMA CookieType ==
    ASSUME NEW u \in Users, NEW row \in Rows
    PROVE  Cookie(u, row) \in Cookies
BY DEF Cookie, Cookies, Rows

LEMMA InitInvariant == Init => TableInvariant /\ AnAdminRemains /\ SessionInvariant
<1> SUFFICES ASSUME Init PROVE TableInvariant /\ AnAdminRemains /\ SessionInvariant
  OBVIOUS
<1>1. NoRow \in Rows /\ Sound(NoRow) /\ ~NoRow.exists
  BY AccountsAssumption DEF AccountsAssumption, NoRow, Rows, Sound
<1>2. TypeOK
  <2>1. outages \in 0..MaxOutages
    BY AccountsAssumption DEF AccountsAssumption, Init
  <2>2. users \in [Users -> Rows] /\ cookies \subseteq Cookies /\ bootstrap_done \in BOOLEAN
    BY <1>1 DEF Init
  <2>3. counter \in [RateKeys -> Nat]
    BY DEF Init
  <2>4. request \in [Clients -> {Idle} \cup Logins \cup AdminRequests]
    BY DEF Init
  <2> QED
    BY <2>1, <2>2, <2>3, <2>4 DEF TypeOK
<1>3. /\ RowsSound /\ RequestersExist /\ AnAdminRemains /\ SessionInvariant
  BY <1>1 DEF Init, RowsSound, RequestersExist, AnAdminRemains, SessionInvariant,
              CookiesCurrent, LoginsCurrent, Idle
<1> QED
  BY <1>2, <1>3 DEF TableInvariant

\* What the requests in flight and the cookies become; the requests that begin
\* are about a row the table holds now.
LEMMA NextRequests ==
    ASSUME TableInvariant, [Next]_vars
    PROVE  /\ request' \in [Clients -> {Idle} \cup Logins \cup AdminRequests]
           /\ \A c \in Clients :
                 \/ request'[c] \in {request[c], Idle}
                 \/ /\ UNCHANGED users
                    /\ request'[c].pc = "verify"
                    /\ request'[c].row = users[request'[c].user]
                    /\ request'[c].correct => request'[c].row.exists
                 \/ /\ UNCHANGED users
                    /\ request'[c].pc = "admin"
                    /\ users[request'[c].user].exists
           /\ bootstrap_done' \in BOOLEAN
           /\ outages' \in 0..MaxOutages
<1> DEFINE R == {Idle} \cup Logins \cup AdminRequests
           Begun(c) ==
                 \/ request'[c] \in {request[c], Idle}
                 \/ /\ UNCHANGED users
                    /\ request'[c].pc = "verify"
                    /\ request'[c].row = users[request'[c].user]
                    /\ request'[c].correct => request'[c].row.exists
                 \/ /\ UNCHANGED users
                    /\ request'[c].pc = "admin"
                    /\ users[request'[c].user].exists
           Good == request' \in [Clients -> R] /\ \A c \in Clients : Begun(c)
           Rest == bootstrap_done' \in BOOLEAN /\ outages' \in 0..MaxOutages
<1>1. /\ request \in [Clients -> R] /\ bootstrap_done \in BOOLEAN
      /\ outages \in Nat /\ outages <= MaxOutages /\ MaxOutages \in Nat
  BY AccountsAssumption DEF AccountsAssumption, TableInvariant, TypeOK
<1>2. UNCHANGED request => Good
  BY <1>1
<1>3. ASSUME NEW c \in Clients, Finish(c) PROVE Good
  BY <1>1, <1>3 DEF Finish
<1>4. LatchBootstrap => bootstrap_done' \in BOOLEAN
  BY <1>1 DEF LatchBootstrap
<1>5. RedisUp \/ RedisDown => outages' \in 0..MaxOutages
  BY <1>1 DEF RedisUp, RedisDown
<1>6. ASSUME NEW u \in Users, NEW a \in Addresses, Register(u, a) PROVE Good /\ Rest
  BY <1>2, <1>4, <1>5, <1>6 DEF Register
<1>7. ASSUME NEW c \in Clients, NEW u \in Users, NEW a \in Addresses, LoginBegins(c, u, a)
      PROVE  Good /\ Rest
  <2>1. PICK correct \in {FALSE, users[u].exists} :
           request' = [request EXCEPT ![c] = [pc |-> "verify", user |-> u, address |-> a,
                                              row |-> users[u], correct |-> correct]]
    BY <1>7 DEF LoginBegins, Begin
  <2> DEFINE r == [pc |-> "verify", user |-> u, address |-> a,
                   row |-> users[u], correct |-> correct]
  <2>2. r \in Logins /\ (r.correct => r.row.exists) /\ r.row = users[r.user] /\ r.pc = "verify"
    BY DEF TableInvariant, TypeOK, Logins, Rows
  <2>3. UNCHANGED users
    BY <1>7 DEF LoginBegins
  <2> QED
    BY <1>1, <1>4, <1>5, <1>7, <2>1, <2>2, <2>3 DEF LoginBegins
<1>8. ASSUME NEW c \in Clients, LoginFails(c) \/ LoginInactive(c) \/ LoginSucceeds(c)
      PROVE  Good /\ Rest
  BY <1>1, <1>3, <1>5, <1>8 DEF LoginFails, LoginInactive, LoginSucceeds
<1>9. ASSUME NEW c \in Clients, NEW k \in cookies, AdminBegins(c, k) PROVE Good /\ Rest
  <2> DEFINE r == [pc |-> "admin", user |-> k.user]
  <2>1. r \in AdminRequests /\ r.pc = "admin" /\ users[r.user].exists
    BY <1>9 DEF AdminBegins, Accepted, AdminRequests, TableInvariant, TypeOK, Cookies
  <2>2. request' = [request EXCEPT ![c] = r] /\ UNCHANGED users
    BY <1>9 DEF AdminBegins, Begin
  <2> QED
    BY <1>1, <1>4, <1>9, <2>1, <2>2 DEF AdminBegins
<1>10. ASSUME NEW c \in Clients, AdminRequest(c) PROVE Good /\ Rest
  <2>1. Finish(c) /\ UNCHANGED <<bootstrap_done, outages>>
    BY <1>10 DEF AdminRequest, CreateUser, Deactivate, Activate, ToggleAdmin, ResetPassword,
                 Refuse, AdminActs
  <2> QED
    BY <1>1, <1>3, <2>1
<1>11. ASSUME NEW k \in RateKeys, Expire(k) PROVE Good /\ Rest
  BY <1>1, <1>2, <1>11 DEF Expire
<1>12. CASE Visit
  BY <1>1, <1>2, <1>4, <1>12 DEF Visit
<1>13. CASE Restart
  <2>1. request' = [c \in Clients |-> Idle]
    BY <1>13 DEF Restart
  <2>2. Good
    BY <2>1
  <2>3. bootstrap_done' \in BOOLEAN
    BY <1>13 DEF Restart
  <2>4. outages' \in 0..MaxOutages
    BY <1>1, <1>13 DEF Restart
  <2> QED
    BY <2>2, <2>3, <2>4
<1>14. CASE UNCHANGED vars
  BY <1>1, <1>2, <1>14 DEF vars
<1> QED
  BY <1>6, <1>7, <1>8, <1>9, <1>10, <1>11, <1>12, <1>13, <1>14 DEF Next

\* A cookie is issued for the row a registration inserts, or by a login.
LEMMA NextCookies ==
    ASSUME TableInvariant, [Next]_vars
    PROVE  /\ cookies' \subseteq Cookies
           /\ \A k \in cookies' :
                 \/ k \in cookies
                 \/ /\ k.user \in Users /\ users'[k.user].exists
                    /\ k = Cookie(k.user, users'[k.user])
                 \/ \E c \in Clients : LoginSucceeds(c) /\ k = SessionOf(c)
<1> DEFINE Issued(k) ==
                 \/ k \in cookies
                 \/ /\ k.user \in Users /\ users'[k.user].exists
                    /\ k = Cookie(k.user, users'[k.user])
                 \/ \E c \in Clients : LoginSucceeds(c) /\ k = SessionOf(c)
           Good == cookies' \subseteq Cookies /\ \A k \in cookies' : Issued(k)
<1>1. UNCHANGED cookies => Good
  BY DEF TableInvariant, TypeOK
<1>2. ASSUME NEW u \in Users, NEW a \in Addresses, Register(u, a) PROVE Good
  <2>1. CASE users[u].exists
    BY <1>1, <1>2, <2>1 DEF Register
  <2>2. CASE ~users[u].exists
    <3> DEFINE row == NewRow(Bootstrapping)
    <3>1. /\ users' = [users EXCEPT ![u] = row]
          /\ cookies' = cookies \cup {Cookie(u, row)}
      BY <1>2, <2>2 DEF Register
    <3>2. row \in Rows /\ row.exists
      BY NewRowSound DEF Bootstrapping
    <3>3. Cookie(u, row) \in Cookies /\ Cookie(u, row).user = u
      BY <3>2, CookieType DEF Cookie
    <3>4. users'[u] = row
      BY <3>1 DEF TableInvariant, TypeOK
    <3>5. Issued(Cookie(u, row))
      BY <3>2, <3>3, <3>4
    <3>6. cookies' \subseteq Cookies
      BY <3>1, <3>3 DEF TableInvariant, TypeOK
    <3> HIDE DEF row
    <3>7. \A k \in cookies' : Issued(k)
      BY <3>1, <3>5
    <3> QED
      BY <3>6, <3>7
  <2> QED
    BY <2>1, <2>2
<1>3. ASSUME NEW c \in Clients, LoginSucceeds(c) PROVE Good
  <2>1. request[c] \in Logins
    BY <1>3 DEF LoginSucceeds, Verified, TableInvariant, TypeOK, Idle, AdminRequests
  <2>2. SessionOf(c) \in Cookies
    BY <2>1, CookieType DEF SessionOf, Logins
  <2>3. cookies' = cookies \cup {SessionOf(c)}
    BY <1>3 DEF LoginSucceeds
  <2> QED
    BY <1>3, <2>2, <2>3 DEF TableInvariant, TypeOK
<1>4. ASSUME NEW c \in Clients, AdminRequest(c) PROVE UNCHANGED cookies
  BY <1>4 DEF AdminRequest, CreateUser, Deactivate, Activate, ToggleAdmin, ResetPassword,
              Refuse, AdminActs
<1> QED
  BY <1>1, <1>2, <1>3, <1>4 DEF Next, LoginBegins, LoginFails, LoginInactive, AdminBegins,
                                Expire, Visit, Restart, vars

LEMMA NextTypes ==
    ASSUME TableInvariant, [Next]_vars
    PROVE  TableInvariant'
<1>1. users' \in [Users -> Rows] /\ RowsSound'
  BY NextRewrites DEF TableInvariant, TypeOK, RowsSound, TableStep, Rewrites
<1>2. cookies' \subseteq Cookies
  BY NextCookies DEF TableInvariant, TypeOK
<1>3. counter' \in [RateKeys -> Nat]
  BY NextCounts DEF TableInvariant
<1>4. RequestersExist'
  <2> SUFFICES ASSUME NEW c \in Clients, request'[c].pc = "admin"
               PROVE  users'[request'[c].user].exists
    BY DEF RequestersExist
  <2>1. CASE request'[c] = request[c]
    <3>1. request[c] \in AdminRequests
      BY <2>1 DEF TableInvariant, TypeOK, Idle, Logins
    <3>2. request[c].user \in Users /\ users[request[c].user].exists
      BY <2>1, <3>1 DEF TableInvariant, RequestersExist, AdminRequests
    <3> QED
      BY <2>1, <3>2, NextRewrites DEF TableInvariant, TypeOK, TableStep, Rewrites
  <2>2. CASE request'[c] # request[c]
    BY <2>2, NextRequests DEF Idle
  <2> QED
    BY <2>1, <2>2
<1> QED
  BY <1>1, <1>2, <1>3, <1>4, NextRequests DEF TableInvariant, TypeOK

-----------------------------------------------------------------------------
(* An administrator remains *)

\* A finite set with a member and no other has cardinality one, so a member that
\* may go leaves another behind.
LEMMA AnotherAdmin ==
    ASSUME NEW u \in ActiveAdmins, ~IsLastAdmin(u)
    PROVE  \E v \in ActiveAdmins : v # u
<1> SUFFICES ASSUME \A v \in ActiveAdmins : v = u PROVE FALSE
  OBVIOUS
<1>1. ActiveAdmins = {u}
  OBVIOUS
<1>2. Cardinality(ActiveAdmins) = 1
  BY <1>1, FS_Singleton
<1> QED
  BY <1>2 DEF IsLastAdmin

LEMMA AnAdminRemainsStep ==
    ASSUME TableInvariant, AnAdminRemains, [Next]_vars
    PROVE  AnAdminRemains'
<1>1. CASE UNCHANGED users
  BY <1>1 DEF AnAdminRemains, ActiveAdmins
<1>2. ASSUME NEW u \in Users, NEW row \in Rows, Rewrites(u, row) PROVE ActiveAdmins' # {}
  <2>1. /\ users \in [Users -> Rows] /\ users' = [users EXCEPT ![u] = row]
    BY <1>2 DEF TableInvariant, TypeOK, Rewrites
  <2>2. CASE row.is_admin /\ row.is_active
    BY <2>1, <2>2 DEF ActiveAdmins
  <2>3. CASE ~(row.is_admin /\ row.is_active)
    <3>1. PICK v \in ActiveAdmins : TRUE
      BY <1>2, <2>3 DEF Rewrites, AnAdminRemains
    <3>2. PICK w \in ActiveAdmins : w # u
      BY <1>2, <2>3, <3>1, AnotherAdmin DEF Rewrites
    <3> QED
      BY <2>1, <3>2 DEF ActiveAdmins
  <2> QED
    BY <2>2, <2>3
<1> QED
  BY <1>1, <1>2, NextRewrites DEF TableStep, AnAdminRemains

-----------------------------------------------------------------------------
(* Sessions *)

\* Being current carries over a step: a row only moves on.
LEMMA CurrentCarries ==
    ASSUME TableInvariant, [Next]_vars, NEW u \in Users, NEW k, k.session_version \in Nat,
           Current(k, users[u])
    PROVE  Current(k, users'[u])
<1>1. CASE UNCHANGED users
  BY <1>1
<1>2. ASSUME NEW v \in Users, NEW row \in Rows, Rewrites(v, row) PROVE Current(k, users'[u])
  <2>1. users'[u] = IF u = v THEN row ELSE users[u]
    BY <1>2 DEF Rewrites, TableInvariant, TypeOK
  <2>2. CASE u = v
    <3>1. Current(users[u], row)
      BY <1>2, <2>2 DEF Rewrites, Current
    <3> QED
      BY <2>1, <2>2, <3>1, RowNumbers DEF Current, TableInvariant, TypeOK
  <2> QED
    BY <2>1, <2>2
<1> QED
  BY <1>1, <1>2, NextRewrites DEF TableStep

LEMMA CookiesCurrentStep ==
    ASSUME TableInvariant, SessionInvariant, [Next]_vars
    PROVE  CookiesCurrent'
<1> SUFFICES ASSUME NEW k \in cookies' PROVE Current(k, users'[k.user])
  BY DEF CookiesCurrent
<1>1. CASE k \in cookies
  <2>1. k.user \in Users /\ k.session_version \in Nat
    BY <1>1, AccountsAssumption DEF AccountsAssumption, TableInvariant, TypeOK, Cookies
  <2> QED
    BY <1>1, <2>1, CurrentCarries DEF SessionInvariant, CookiesCurrent
<1>2. CASE k.user \in Users /\ k = Cookie(k.user, users'[k.user]) /\ users'[k.user].exists
  BY <1>2, NextTypes, RowNumbers DEF Current, Cookie, TableInvariant, TypeOK
<1>3. ASSUME NEW c \in Clients, LoginSucceeds(c), k = SessionOf(c) PROVE Current(k, users'[k.user])
  <2>1. request[c] \in Logins /\ request[c].correct /\ UNCHANGED users
    BY <1>3 DEF LoginSucceeds, Verified, TableInvariant, TypeOK, Idle, AdminRequests
  <2>2. Current(request[c].row, users[request[c].user])
    BY <1>3, <2>1 DEF LoginSucceeds, Verified, SessionInvariant, LoginsCurrent
  <2> QED
    BY <1>3, <2>1, <2>2 DEF Current, SessionOf, Cookie
<1> QED
  BY <1>1, <1>2, <1>3, NextCookies

LEMMA LoginsCurrentStep ==
    ASSUME TableInvariant, SessionInvariant, [Next]_vars
    PROVE  LoginsCurrent'
<1> SUFFICES ASSUME NEW c \in Clients, request'[c].pc = "verify", request'[c].correct
             PROVE  Current(request'[c].row, users'[request'[c].user])
  BY DEF LoginsCurrent
<1>1. request'[c] \in Logins
  BY NextRequests DEF Idle, AdminRequests
<1>2. request'[c].user \in Users /\ request'[c].row \in Rows
  BY <1>1 DEF Logins
<1>3. CASE request'[c] = request[c]
  <2>1. Current(request[c].row, users[request[c].user])
    BY <1>3 DEF SessionInvariant, LoginsCurrent
  <2> QED
    BY <1>2, <1>3, <2>1, CurrentCarries, RowNumbers
<1>4. CASE request'[c] # request[c]
  <2>1. /\ UNCHANGED users /\ request'[c].row = users[request'[c].user]
        /\ request'[c].row.exists
    BY <1>4, NextRequests DEF Idle
  <2> QED
    BY <1>2, <2>1, RowNumbers DEF Current
<1> QED
  BY <1>3, <1>4

-----------------------------------------------------------------------------
(* Theorems *)

AccountsInvariant == TableInvariant /\ AnAdminRemains /\ SessionInvariant

\* The inductive invariant holds: sound rows, requests of existing users, an
\* administrator, and sessions no newer than their row.
THEOREM AccountsCorrect == Spec => []AccountsInvariant
<1>1. Init => AccountsInvariant
  BY InitInvariant DEF AccountsInvariant
<1>2. AccountsInvariant /\ [Next]_vars => AccountsInvariant'
  <2> SUFFICES ASSUME AccountsInvariant, [Next]_vars PROVE AccountsInvariant'
    OBVIOUS
  <2>1. TableInvariant'
    BY NextTypes DEF AccountsInvariant
  <2>2. AnAdminRemains'
    BY AnAdminRemainsStep DEF AccountsInvariant
  <2>3. SessionInvariant'
    BY CookiesCurrentStep, LoginsCurrentStep DEF AccountsInvariant, SessionInvariant
  <2> QED
    BY <2>1, <2>2, <2>3 DEF AccountsInvariant
<1> QED
  BY <1>1, <1>2, PTL DEF Spec

\* The state keeps its types.
THEOREM AccountsTypes == Spec => []TypeOK
<1>1. AccountsInvariant => TypeOK
  BY DEF AccountsInvariant, TableInvariant
<1> QED
  BY <1>1, AccountsCorrect, PTL

\* Once there are accounts there is an active administrator, whichever
\* administrators' requests overlap.
THEOREM AnAdminAlwaysRemains == Spec => []AnAdminRemains
<1>1. AccountsInvariant => AnAdminRemains
  BY DEF AccountsInvariant
<1> QED
  BY <1>1, AccountsCorrect, PTL

\* A cookie the middleware honours is as recent as the password and the last
\* deactivation, whichever logins and resets overlap.
THEOREM SessionsStayCurrent == Spec => []SessionsAreCurrent
<1>1. AccountsInvariant => SessionsAreCurrent
  BY DEF AccountsInvariant, SessionInvariant, CookiesCurrent, Current, SessionsAreCurrent,
         Accepted
<1> QED
  BY <1>1, AccountsCorrect, PTL

\* Only the bootstrap registration and administrators make administrators.
THEOREM AdminsAlwaysAppointed == Spec => AdminsAreAppointed
<1> DEFINE Appointed ==
              \A u \in Users : users'[u].is_admin /\ ~users[u].is_admin =>
                  ActiveAdmins = {} \/ \E c \in Clients : AdminRequest(c)
<1>1. TableInvariant /\ [Next]_vars => [Appointed]_vars
  <2> SUFFICES ASSUME TableInvariant, [Next]_vars PROVE Appointed
    OBVIOUS
  <2>1. ASSUME NEW u \in Users, NEW a \in Addresses, Register(u, a) PROVE Appointed
    <3>1. CASE Bootstrapping
      BY <3>1 DEF Bootstrapping
    <3>2. CASE ~Bootstrapping
      <4>1. NewRow(FALSE).is_admin = FALSE
        BY NewRowSound
      <4>2. users' \in {users, [users EXCEPT ![u] = NewRow(FALSE)]}
        BY <2>1, <3>2 DEF Register, Bootstrapping
      <4> QED
        BY <4>1, <4>2 DEF TableInvariant, TypeOK
    <3> QED
      BY <3>1, <3>2
  <2>2. ASSUME NEW c \in Clients, AdminRequest(c) PROVE Appointed
    BY <2>2
  <2>3. UNCHANGED users => Appointed
    OBVIOUS
  <2> QED
    BY <2>1, <2>2, <2>3 DEF Next, LoginBegins, LoginFails, LoginInactive, LoginSucceeds,
                            AdminBegins, Expire, Visit, Restart, vars
<1>2. AccountsInvariant => TableInvariant
  BY DEF AccountsInvariant
<1> QED
  BY <1>1, <1>2, AccountsCorrect, PTL DEF Spec, AdminsAreAppointed

-----------------------------------------------------------------------------
(* How far a counter may pass its limit *)

\* A login in flight counts as if it had failed already.
Charges(c, k) ==
    request[c].pc = "verify" /\ k \in {<<"user", request[c].user>>, <<"ip", request[c].address>>}

InFlight(k) == {c \in Clients : Charges(c, k)}

ChargeBounded(k) ==
    IF k[1] = "register"
    THEN counter[k] <= Limit(k) + (MaxOutages - outages)
    ELSE counter[k] + Cardinality(InFlight(k)) < Limit(k) + (MaxOutages - outages) + Cardinality(Clients)

ChargesBounded == \A k \in RateKeys : ChargeBounded(k)

LEMMA InFlightNumbers ==
    ASSUME NEW k
    PROVE  /\ IsFiniteSet(Clients) /\ Cardinality(Clients) \in Nat
           /\ IsFiniteSet(InFlight(k)) /\ Cardinality(InFlight(k)) \in Nat
           /\ Cardinality(InFlight(k)) <= Cardinality(Clients)
BY AccountsAssumption, FS_Subset, FS_CardinalityType DEF AccountsAssumption, InFlight

LEMMA LimitType ==
    ASSUME NEW k \in RateKeys
    PROVE  Limit(k) \in Nat \ {0}
BY AccountsAssumption DEF AccountsAssumption, RateKeys, Limit

\* The ways in which a step may treat a key: it spares it, it passes the lock, it finds
\* Redis down, or it turns a login in flight into a failure.
LEMMA ChargeKept ==
    ASSUME TypeOK, TypeOK', NEW k \in RateKeys, ChargeBounded(k), outages' <= outages,
           \/ InFlight(k)' \subseteq InFlight(k) /\ counter'[k] \in {0, counter[k]}
           \/ ~Locked(k) /\ counter'[k] = counter[k]
           \/ k[1] = "register" /\ ~Locked(k) /\ counter'[k] = counter[k] + 1
           \/ k[1] = "register" /\ outages' < outages /\ counter'[k] <= counter[k] + 1
           \/ \E c \in Clients : /\ InFlight(k)' \subseteq InFlight(k) \cup {c}
                                 /\ outages' < outages /\ counter'[k] = counter[k]
           \/ \E c \in InFlight(k) : /\ InFlight(k)' \subseteq InFlight(k) \ {c} /\ k[1] # "register"
                                     /\ counter'[k] = counter[k] + 1
    PROVE  ChargeBounded(k)'
<1> DEFINE now == Cardinality(InFlight(k))
           next == Cardinality(InFlight(k)')
           clients == Cardinality(Clients)
<1>1. /\ now \in Nat /\ next \in Nat /\ clients \in Nat /\ now <= clients /\ next <= clients
      /\ IsFiniteSet(InFlight(k)) /\ IsFiniteSet(InFlight(k)')
  <2>1. InFlight(k)' \subseteq Clients
    BY DEF InFlight
  <2> QED BY <2>1, InFlightNumbers, FS_Subset, FS_CardinalityType
<1>2. /\ counter[k] \in Nat /\ counter'[k] \in Nat /\ Limit(k) \in Nat \ {0}
      /\ outages \in 0..MaxOutages /\ outages' \in 0..MaxOutages /\ MaxOutages \in Nat
  BY LimitType, AccountsAssumption DEF AccountsAssumption, TypeOK
<1>3. Cardinality(InFlight(k))' = next /\ Limit(k)' = Limit(k)
  BY DEF Limit
<1>4. InFlight(k)' \subseteq InFlight(k) => next <= now
  BY <1>1, FS_Subset
<1>5. \A c \in Clients : InFlight(k)' \subseteq InFlight(k) \cup {c} => next <= now + 1
  <2> TAKE c \in Clients
  <2>1. IsFiniteSet(InFlight(k) \cup {c}) /\ Cardinality(InFlight(k) \cup {c}) \in {now, now + 1}
    BY <1>1, FS_AddElement
  <2> QED BY <1>1, <2>1, FS_Subset
<1>6. \A c \in InFlight(k) : InFlight(k)' \subseteq InFlight(k) \ {c} => next + 1 <= now
  <2> TAKE c \in InFlight(k)
  <2>1. IsFiniteSet(InFlight(k) \ {c}) /\ Cardinality(InFlight(k) \ {c}) = now - 1
    BY <1>1, FS_RemoveElement
  <2> QED BY <1>1, <2>1, FS_Subset
<1> HIDE DEF now, next, clients
<1>7. CASE k[1] = "register"
  <2>1. counter'[k] <= Limit(k) + (MaxOutages - outages')
    BY <1>2, <1>7 DEF ChargeBounded, Locked
  <2> QED BY <1>3, <1>7, <2>1 DEF ChargeBounded
<1>8. CASE k[1] # "register"
  <2>1. counter[k] + now < Limit(k) + (MaxOutages - outages) + clients
    BY <1>8 DEF ChargeBounded, now, clients
  <2>2. counter'[k] + next < Limit(k) + (MaxOutages - outages') + clients
    BY <1>1, <1>2, <1>4, <1>5, <1>6, <1>8, <2>1 DEF Locked
  <2> QED BY <1>3, <1>8, <2>2 DEF ChargeBounded, next, clients
<1> QED BY <1>7, <1>8

\* A request that ends, or begins as an administrator's, leaves the logins in flight be.
LEMMA InFlightShrinks ==
    ASSUME TypeOK, NEW c \in Clients, NEW x, x.pc # "verify", request' = [request EXCEPT ![c] = x], NEW k
    PROVE  InFlight(k)' \subseteq InFlight(k) \ {c}
BY DEF TypeOK, InFlight, Charges

LEMMA ChargesStep ==
    ASSUME TypeOK, TypeOK', ChargesBounded, [Next]_vars
    PROVE  ChargesBounded'
<1> SUFFICES ASSUME NEW k \in RateKeys
             PROVE  ChargeBounded(k)'
  BY DEF ChargesBounded
<1> USE DEF ChargesBounded
<1>1. counter[k] \in Nat /\ outages \in Nat /\ outages' \in Nat
  BY DEF TypeOK
<1>2. ASSUME NEW u \in Users, NEW a \in Addresses, Register(u, a)
      PROVE  ChargeBounded(k)'
  <2> DEFINE key == <<"register", a>>
  <2>1. UNCHANGED request /\ InFlight(k)' = InFlight(k)
    BY <1>2 DEF Register, InFlight, Charges
  <2>2. CASE counter' = counter
    BY <1>1, <1>2, <2>1, <2>2, ChargeKept DEF Register, RedisUp, RedisDown
  <2>3. CASE counter' = [counter EXCEPT ![key] = Counted(key)] /\ k # key
    <3>1. counter'[k] = counter[k]
      BY <2>3
    <3> QED BY <1>1, <1>2, <2>1, <3>1, ChargeKept DEF Register, RedisUp, RedisDown
  <2>4. CASE counter' = [counter EXCEPT ![key] = Counted(key)] /\ counter' # counter /\ k = key
    <3>1. counter'[k] = counter[k] + 1 /\ k[1] = "register"
      BY <2>4 DEF TypeOK, Counted
    <3>2. \/ ~Locked(k) /\ outages' = outages
          \/ outages' < outages
      BY <1>1, <1>2, <2>4 DEF Register, RedisUp, RedisDown
    <3> QED BY <1>1, <3>1, <3>2, ChargeKept
  <2> QED BY <1>2, <2>2, <2>3, <2>4 DEF Register
<1>3. ASSUME NEW c \in Clients, NEW u \in Users, NEW a \in Addresses, LoginBegins(c, u, a)
      PROVE  ChargeBounded(k)'
  <2> DEFINE keys == {<<"user", u>>, <<"ip", a>>}
  <2>1. counter' = counter
    BY <1>3 DEF LoginBegins
  <2>2. /\ \A d \in Clients \ {c} : request'[d] = request[d]
        /\ request'[c].pc = "verify" /\ request'[c].user = u /\ request'[c].address = a
    BY <1>3 DEF LoginBegins, Begin, TypeOK
  <2>3. InFlight(k)' \subseteq InFlight(k) \cup {c} /\ (k \notin keys => InFlight(k)' \subseteq InFlight(k))
    BY <2>2 DEF InFlight, Charges
  <2>4. CASE RedisUp /\ ~Locked(<<"user", u>>) /\ ~Locked(<<"ip", a>>)
    BY <1>1, <2>1, <2>3, <2>4, ChargeKept DEF RedisUp
  <2>5. CASE RedisDown
    BY <1>1, <2>1, <2>3, <2>5, ChargeKept DEF RedisDown
  <2> QED BY <1>3, <2>4, <2>5 DEF LoginBegins
<1>4. ASSUME NEW c \in Clients, LoginFails(c)
      PROVE  ChargeBounded(k)'
  <2> DEFINE keys == {<<"user", request[c].user>>, <<"ip", request[c].address>>}
  <2>1. InFlight(k)' \subseteq InFlight(k) \ {c}
    BY <1>4, InFlightShrinks DEF LoginFails, Finish, Idle
  <2>2. CASE UNCHANGED counter
    BY <1>1, <1>4, <2>1, <2>2, ChargeKept DEF LoginFails, RedisUp, RedisDown
  <2>3. CASE RedisUp /\ counter' = [i \in RateKeys |-> IF i \in keys THEN Counted(i) ELSE counter[i]]
    <3>1. CASE k \notin keys
      BY <1>1, <2>1, <2>3, <3>1, ChargeKept DEF RedisUp
    <3>2. CASE k \in keys
      <4>1. c \in InFlight(k) /\ k[1] # "register" /\ counter'[k] = counter[k] + 1
        BY <1>4, <2>3, <3>2 DEF LoginFails, Verified, InFlight, Charges, Counted
      <4> QED BY <1>1, <2>1, <2>3, <4>1, ChargeKept DEF RedisUp
    <3> QED BY <3>1, <3>2
  <2> QED BY <1>4, <2>2, <2>3 DEF LoginFails
<1>5. ASSUME NEW c \in Clients, LoginInactive(c) \/ LoginSucceeds(c)
      PROVE  ChargeBounded(k)'
  <2>1. InFlight(k)' \subseteq InFlight(k)
    BY <1>5, InFlightShrinks DEF LoginInactive, LoginSucceeds, Finish, Idle
  <2>2. counter'[k] \in {0, counter[k]} /\ outages' <= outages
    <3>1. outages' <= outages
      BY <1>1, <1>5 DEF LoginInactive, LoginSucceeds, RedisUp, RedisDown
    <3>2. counter' = counter \/ \E i : counter' = [counter EXCEPT ![i] = 0]
      BY <1>5 DEF LoginInactive, LoginSucceeds
    <3>3. counter'[k] \in {0, counter[k]}
      BY <3>2 DEF TypeOK
    <3> QED BY <3>1, <3>3
  <2> QED BY <2>1, <2>2, ChargeKept
<1>6. ASSUME NEW c \in Clients, AdminRequest(c) \/ \E x \in cookies : AdminBegins(c, x)
      PROVE  ChargeBounded(k)'
  <2>1. UNCHANGED <<counter, outages>>
    BY <1>6 DEF AdminBegins, AdminRequest, CreateUser, Deactivate, Activate, ToggleAdmin, ResetPassword,
        AdminActs, Refuse
  <2>2. \E x : x.pc # "verify" /\ request' = [request EXCEPT ![c] = x]
    <3>1. CASE AdminRequest(c)
      <4>1. request' = [request EXCEPT ![c] = Idle]
        BY <3>1 DEF AdminRequest, CreateUser, Deactivate, Activate, ToggleAdmin, ResetPassword, AdminActs,
            Refuse, Finish
      <4> QED BY <4>1 DEF Idle
    <3>2. ASSUME NEW x \in cookies, AdminBegins(c, x)
          PROVE  request' = [request EXCEPT ![c] = [pc |-> "admin", user |-> x.user]]
      BY <3>2 DEF AdminBegins, Begin
    <3>3. \A x \in cookies : [pc |-> "admin", user |-> x.user].pc # "verify"
      OBVIOUS
    <3> QED BY <1>6, <3>1, <3>2, <3>3
  <2>3. InFlight(k)' \subseteq InFlight(k)
    BY <2>2, InFlightShrinks
  <2> QED BY <1>1, <2>1, <2>3, ChargeKept
<1>7. ASSUME NEW i \in RateKeys, Expire(i)
      PROVE  ChargeBounded(k)'
  <2>1. InFlight(k)' = InFlight(k) /\ counter'[k] \in {0, counter[k]} /\ outages' = outages
    BY <1>7 DEF Expire, TypeOK, InFlight, Charges
  <2> QED BY <1>1, <2>1, ChargeKept
<1>8. CASE Visit \/ Restart \/ UNCHANGED vars
  <2>1. InFlight(k)' \subseteq InFlight(k) /\ UNCHANGED <<counter, outages>>
    BY <1>8 DEF Visit, Restart, vars, InFlight, Charges, Idle
  <2> QED BY <1>1, <2>1, ChargeKept
<1> QED
  BY <1>2, <1>3, <1>4, <1>5, <1>6, <1>7, <1>8 DEF Next

\* Whatever logins, outages and restarts overlap, a counter passes its limit by no more
\* than the requests that were in flight and those an outage let in.
THEOREM AttemptsStayBounded == Spec => []AttemptsAreBounded
<1>1. Init => ChargesBounded
  <2> SUFFICES ASSUME Init, NEW k \in RateKeys
               PROVE  ChargeBounded(k)
    BY DEF ChargesBounded
  <2>1. counter[k] = 0 /\ MaxOutages - outages = 0 /\ Limit(k) \in Nat \ {0}
    BY LimitType, AccountsAssumption DEF AccountsAssumption, Init
  <2>2. InFlight(k) = {}
    BY DEF Init, InFlight, Charges, Idle
  <2>3. Cardinality(InFlight(k)) = 0
    BY <2>2, FS_EmptySet
  <2> QED BY <2>1, <2>3, InFlightNumbers DEF ChargeBounded
<1>2. TypeOK /\ TypeOK' /\ ChargesBounded /\ [Next]_vars => ChargesBounded'
  BY ChargesStep
<1>3. TypeOK /\ ChargesBounded => AttemptsAreBounded
  <2> SUFFICES ASSUME TypeOK, ChargesBounded, NEW k \in RateKeys
               PROVE  counter[k] <= Limit(k) + (MaxOutages - outages)
                            + (IF k[1] = "register" THEN 0 ELSE Cardinality(Clients) - 1)
    BY DEF AttemptsAreBounded
  <2>1. ChargeBounded(k) /\ counter[k] \in Nat /\ Limit(k) \in Nat /\ MaxOutages \in Nat
        /\ outages \in 0..MaxOutages
    BY LimitType, AccountsAssumption DEF ChargesBounded, TypeOK, AccountsAssumption
  <2> QED BY <2>1, InFlightNumbers DEF ChargeBounded
<1> QED
  BY <1>1, <1>2, <1>3, AccountsTypes, PTL DEF Spec
=============================================================================
