------------------------------ MODULE Accounts ------------------------------
(***************************************************************************)
(* Who is signed in, and as what: the accounts of the desk (admins of a    *)
(* city and the employees they manage), of the merchants, drivers and      *)
(* customers, their sessions, and the operations that change an account    *)
(* and must put out the sessions it has open.                              *)
(*                                                                         *)
(* A login is several steps: it reads the account without a lock, may      *)
(* store a better hash of the password, creates the session in a           *)
(* transaction, and signs the claims it reads last.  An operation that     *)
(* changes an account revokes its sessions in one statement and commits    *)
(* afterwards: what it writes is not seen before, and the sessions it      *)
(* revokes are locked until then.                                          *)
(***************************************************************************)
EXTENDS Naturals, FiniteSets

CONSTANTS Admins, Employees, Merchants, Drivers, Customers,  \* accounts, each in one application
          Cities, Stores,
          StoreCity,      \* the city of a store
          Casts,          \* the sets of accounts a run may be about
          Requests,       \* concurrent requests
          Changes,        \* concurrent transactions that change accounts
          StaffLimit, MerchantLimit, DriverLimit, CustomerLimit,
                          \* sessions an account keeps in an application: 3, 3, 1, 5
          MaxAttempts,    \* codes a challenge takes: 5
          MaxSessions,    \* bound: how many sessions are created
          MaxSecrets,     \* bound: how many secrets an account is given
          Budget,         \* bound: how many changes a cast goes through
          MaxChallenges,  \* bound: how many codes are sent
          None

Staff == Admins \cup Employees
Principals == Staff \cup Merchants \cup Drivers \cup Customers
Scopes == Cities \cup Stores
SessionIds == 1 .. MaxSessions
ChallengeIds == 1 .. MaxChallenges

ASSUME AccountsAssumption ==
    /\ StoreCity \in [Stores -> Cities]
    /\ Casts \subseteq SUBSET Principals
    /\ Admins \cap Employees = {} /\ Staff \cap Merchants = {}
    /\ (Staff \cup Merchants) \cap Drivers = {}
    /\ (Staff \cup Merchants \cup Drivers) \cap Customers = {}
    /\ None \notin Principals \cup Scopes
    /\ MaxSessions \in Nat /\ Budget \in [Casts -> Nat] /\ MaxChallenges \in Nat
    /\ MaxSecrets \in Nat \ {0} /\ MaxAttempts \in Nat \ {0}
    /\ {StaffLimit, MerchantLimit, DriverLimit, CustomerLimit} \subseteq Nat \ {0}

VARIABLES
    cast,          \* the accounts this behaviour is about
    profiles,      \* PostgreSQL: accounts, their profile, role and scope
    secrets,       \* PostgreSQL: password_credentials, driver_profiles.access_code_hash
    sessions,      \* PostgreSQL: sessions, session_refresh_tokens; the claims signed for them
    challenges,    \* PostgreSQL: otp_challenges
    activeCities,  \* PostgreSQL: cities that are ACTIVE in an ACTIVE governorate
    requests,      \* requests[r]: the request r and how far it is
    changes,       \* changes[x]: the transaction x, what it writes when it commits
    begun          \* changes begun so far

vars == <<cast, profiles, secrets, sessions, challenges, activeCities, requests, changes, begun>>

\* late (here and below): came about while an operation that would have undone it was
\* under way, or by a request that such an operation overtook.
Profile == [ status  : {"ABSENT", "ACTIVE", "DISABLED"},
             scope   : Scopes \cup {None},      \* the city of staff and drivers, a merchant's store
             manager : Admins \cup {None},
             late    : BOOLEAN ]

Secret == [ issued   : 0 .. MaxSecrets,   \* how many the account was given
            stored   : 0 .. MaxSecrets,   \* which of them the stored hash is of
             restored : BOOLEAN ]          \* a late login has stored an old one again

\* Sessions are numbered in the order of their creation.
Session == [ of      : Principals \cup {None},
             state   : {"NONE", "LIVE", "EXPIRED", "REVOKED"},
             reused  : BOOLEAN,             \* revocation_reason = TOKEN_REUSE_DETECTED
             secret  : 0 .. MaxSecrets,     \* the secret it was opened with
             rotated : BOOLEAN,             \* one of its refresh tokens has a successor
             claims  : SUBSET Cities,       \* cities in the access tokens signed for it
             late    : BOOLEAN ]

Challenge == [ of    : Customers \cup {None},
               state : {"NONE", "OPEN", "CONSUMED", "INVALID"},
               wrong : 0 .. MaxAttempts ]

Request == [ step    : {"idle", "verified", "hashed", "created", "acting"},
             of      : Principals \cup {None},
             secret  : 0 .. MaxSecrets,
             session : SessionIds \cup {0},
             scope   : Cities \cup {None},
             late    : BOOLEAN ]

NoRequest == [ step |-> "idle", of |-> None, secret |-> 0, session |-> 0,
               scope |-> None, late |-> FALSE ]

\* A transaction that has written and not committed: the profiles it locks become
\* "writes", "secretOf" has a new secret, the city "closing" closes; of the accounts "of"
\* it has revoked the sessions, those that are "doomed".
Change(P) == [ open     : BOOLEAN,
               writes   : [P -> Profile],
               secretOf : Principals \cup {None},
               closing  : Cities \cup {None},
               of       : SUBSET Principals,
               doomed   : SUBSET SessionIds ]

NoChange == [ open |-> FALSE, writes |-> <<>>, secretOf |-> None, closing |-> None,
              of |-> {}, doomed |-> {} ]

TypeOK ==
    /\ cast \in Casts
    /\ profiles \in [Principals -> Profile]
    /\ secrets \in [Principals -> Secret]
    /\ sessions \in [SessionIds -> Session]
    /\ challenges \in [ChallengeIds -> Challenge]
    /\ activeCities \subseteq Cities
    /\ requests \in [Requests -> Request]
    /\ changes \in [Changes -> {changes[x] : x \in Changes}]
    /\ \A x \in Changes : LET P == DOMAIN changes[x].writes IN
           P \subseteq Principals /\ changes[x] \in Change(P)
    /\ begun \in Nat

Init ==
    /\ cast \in Casts
    /\ profiles = [p \in Principals |->
           [status |-> "ABSENT", scope |-> None, manager |-> None, late |-> FALSE]]
    /\ secrets = [p \in Principals |->
           [issued |-> 0, stored |-> 0, restored |-> FALSE]]
    /\ sessions = [s \in SessionIds |->
           [of |-> None, state |-> "NONE", reused |-> FALSE, secret |-> 0,
            rotated |-> FALSE, claims |-> {}, late |-> FALSE]]
    /\ challenges = [i \in ChallengeIds |-> [of |-> None, state |-> "NONE", wrong |-> 0]]
    /\ activeCities = Cities
    /\ requests = [r \in Requests |-> NoRequest]
    /\ changes = [x \in Changes |-> NoChange]
    /\ begun = 0

-----------------------------------------------------------------------------
(* Sessions and row locks *)

Open(P) == {s \in SessionIds : sessions[s].of \in P /\ sessions[s].state \in {"LIVE", "EXPIRED"}}

Limit(p) == IF p \in Staff THEN StaffLimit
            ELSE IF p \in Merchants THEN MerchantLimit
            ELSE IF p \in Drivers THEN DriverLimit ELSE CustomerLimit

Doomed == UNION {changes[x].doomed : x \in Changes}
Locked(p) == \E x \in Changes : p \in DOMAIN changes[x].writes
SecretLocked(p) == \E x \in Changes : changes[x].secretOf = p
Closing == {changes[x].closing : x \in Changes} \ {None}

Ended(s) == [sessions[s] EXCEPT !.state = "REVOKED", !.claims = {}, !.secret = 0, !.late = FALSE]
Revoked(S) == [s \in SessionIds |-> IF s \in S THEN Ended(s) ELSE sessions[s]]

\* (One session too many in the mutant.)
ReplacedTooFew(p) ==
    LET active == Open({p})
        surplus == IF Cardinality(active) > Limit(p)
                   THEN Cardinality(active) - Limit(p) ELSE 0
    IN {s \in active : Cardinality({t \in active : t < s}) < surplus}

\* The oldest of the account's sessions make room for the new one.
Replaced(p) ==
    LET active == Open({p})
        surplus == IF Cardinality(active) >= Limit(p)
                   THEN Cardinality(active) - Limit(p) + 1 ELSE 0
    IN {s \in active : Cardinality({t \in active : t < s}) < surplus}

\* A session row is read FOR UPDATE: it waits for the transaction that revoked it.
CreateSession(s, p, secret, late) ==
    /\ sessions[s].state = "NONE" /\ \A t \in SessionIds : t < s => sessions[t].state # "NONE"
    /\ Open({p}) \cap Doomed = {}
    /\ sessions' = [Revoked(Replaced(p)) EXCEPT ![s] =
           [of |-> p, state |-> "LIVE", reused |-> FALSE, secret |-> secret,
            rotated |-> FALSE, claims |-> {}, late |-> late]]

\* What the dashboard's tokens are signed with: the city of the admin, which an employee
\* must share with his admin, and which must be active.  Whether they are active is not read.
Trusted(p) ==
    /\ profiles[p].scope \in activeCities
    /\ p \in Employees => profiles[profiles[p].manager].scope = profiles[p].scope

SessionExpires(s) ==
    /\ sessions[s].state = "LIVE" /\ s \notin Doomed
    /\ sessions' = [sessions EXCEPT ![s].state = "EXPIRED", ![s].claims = {}]
    /\ UNCHANGED <<cast, profiles, secrets, challenges, activeCities, requests, changes, begun>>

-----------------------------------------------------------------------------
(* Logging in with a password or an access code *)

Idle(r) == requests[r].step = "idle"
Becomes(r, req) == requests' = [requests EXCEPT ![r] = req]
SignFor(p, s) == [NoRequest EXCEPT !.step = "created", !.of = p, !.session = s]

\* Reads the account without a lock; whoever logs in knows the secret that is stored.
Verify(r, p) ==
    /\ Idle(r) /\ p \in cast \ Customers
    /\ profiles[p].status = "ACTIVE"
    /\ Becomes(r, [NoRequest EXCEPT !.step = "verified", !.of = p,
                                     !.secret = secrets[p].stored])
    /\ UNCHANGED <<cast, profiles, secrets, sessions, challenges, activeCities, changes, begun>>

\* The password that was verified is hashed again and stored, whatever is stored by now.
\* Whether the hash it read has other parameters than its process is configured with is
\* left open: processes with different parameters hash one another's passwords again.
Rehash(r) ==
    LET p == requests[r].of IN
    /\ requests[r].step = "verified" /\ p \in Staff \cup Merchants
    /\ ~SecretLocked(p)
    /\ secrets' = [secrets EXCEPT ![p].stored = requests[r].secret,
                                  ![p].restored = @ \/ requests[r].late]
    /\ requests' = [requests EXCEPT ![r].step = "hashed"]
    /\ UNCHANGED <<cast, profiles, sessions, challenges, activeCities, changes, begun>>

LoginCreates(r, s) ==
    LET q == requests[r] IN
    /\ q.step \in {"verified", "hashed"}
    /\ CreateSession(s, q.of, q.secret, q.late)
    /\ Becomes(r, SignFor(q.of, s))
    /\ UNCHANGED <<cast, profiles, secrets, challenges, activeCities, changes, begun>>

\* The last step of a login and of a refresh; without a trusted context nothing is signed
\* and the session stays.
Sign(r) ==
    LET q == requests[r] IN
    /\ q.step = "created"
    /\ sessions' = IF q.of \in Staff /\ Trusted(q.of) /\ sessions[q.session].state = "LIVE"
                   THEN [sessions EXCEPT ![q.session].claims = @ \cup {profiles[q.of].scope}]
                   ELSE sessions
    /\ Becomes(r, NoRequest)
    /\ UNCHANGED <<cast, profiles, secrets, challenges, activeCities, changes, begun>>

-----------------------------------------------------------------------------
(* Customers log in with a code sent to their phone *)

RequestOtp(i, p) ==
    /\ p \in cast \cap Customers
    /\ challenges[i].state = "NONE" /\ \A j \in ChallengeIds : j < i => challenges[j].state # "NONE"
    /\ challenges' = [j \in ChallengeIds |->
           IF j = i THEN [of |-> p, state |-> "OPEN", wrong |-> 0]
           ELSE IF challenges[j].of = p /\ challenges[j].state = "OPEN"
                THEN [challenges[j] EXCEPT !.state = "INVALID"] ELSE challenges[j]]
    /\ UNCHANGED <<cast, profiles, secrets, sessions, activeCities, requests, changes, begun>>

\* It expires, or could not be delivered.
ChallengeEnds(i) ==
    /\ challenges[i].state = "OPEN"
    /\ challenges' = [challenges EXCEPT ![i].state = "INVALID"]
    /\ UNCHANGED <<cast, profiles, secrets, sessions, activeCities, requests, changes, begun>>

WrongOtp(i) ==
    /\ challenges[i].state = "OPEN"
    /\ challenges' = [challenges EXCEPT ![i].wrong = @ + 1,
           ![i].state = IF challenges[i].wrong + 1 >= MaxAttempts THEN "INVALID" ELSE @]
    /\ UNCHANGED <<cast, profiles, secrets, sessions, activeCities, requests, changes, begun>>

\* The first code makes the account.  One transaction.
VerifyOtp(r, i, s) ==
    LET p == challenges[i].of IN
    /\ Idle(r) /\ challenges[i].state = "OPEN"
    /\ profiles' = [profiles EXCEPT ![p].status = "ACTIVE"]
    /\ CreateSession(s, p, 0, FALSE)
    /\ challenges' = [challenges EXCEPT ![i].state = "CONSUMED"]
    /\ Becomes(r, SignFor(p, s))
    /\ UNCHANGED <<cast, secrets, activeCities, changes, begun>>

-----------------------------------------------------------------------------
(* Sessions: refresh, logout *)

\* The current refresh token gives way to its successor.
Refresh(r, s) ==
    LET p == sessions[s].of IN
    /\ Idle(r) /\ sessions[s].state = "LIVE" /\ s \notin Doomed
    /\ profiles[p].status = "ACTIVE"
    /\ sessions' = [sessions EXCEPT ![s].rotated = TRUE]
    /\ Becomes(r, SignFor(p, s))
    /\ UNCHANGED <<cast, profiles, secrets, challenges, activeCities, changes, begun>>

\* (Only its own session in the mutant.)
ReusedOnly(s) == {s}

\* A token that has a successor ends its session, and all the sessions of staff.
Reused(s) ==
    {s} \cup (IF sessions[s].of \in Staff THEN Open({sessions[s].of}) ELSE {})


RefreshReuse(s) ==
    LET S == Reused(s) IN
    /\ sessions[s].rotated /\ S \cap Doomed = {}
    /\ sessions' = [t \in SessionIds |->
           IF t \in S THEN [Ended(t) EXCEPT !.reused = TRUE] ELSE sessions[t]]
    /\ UNCHANGED <<cast, profiles, secrets, challenges, activeCities, requests, changes, begun>>

\* A request is served for a live session of an active account.
Authentic(s) == sessions[s].state = "LIVE" /\ profiles[sessions[s].of].status = "ACTIVE"

\* Logging out of one session, this one or another.
Logout(s) ==
    /\ Authentic(s) /\ s \notin Doomed
    /\ sessions' = Revoked({s})
    /\ UNCHANGED <<cast, profiles, secrets, challenges, activeCities, requests, changes, begun>>

LogoutAll(s) ==
    LET S == Open({sessions[s].of}) IN
    /\ Authentic(s) /\ S \cap Doomed = {}
    /\ sessions' = Revoked(S)
    /\ UNCHANGED <<cast, profiles, secrets, challenges, activeCities, requests, changes, begun>>

-----------------------------------------------------------------------------
(* Operations that change accounts: what they write and whose sessions they revoke *)

Begin(x, writes, secretOf, closing, of) ==
    /\ ~changes[x].open /\ begun < Budget[cast] /\ begun' = begun + 1
    /\ \A p \in DOMAIN writes : p \in cast /\ profiles[p].status # "ABSENT" /\ ~Locked(p)
    /\ secretOf # None => ~SecretLocked(secretOf) /\ secrets[secretOf].issued < MaxSecrets
    /\ Open(of) \cap Doomed = {}
    /\ changes' = [changes EXCEPT ![x] = [open |-> TRUE, writes |-> writes,
           secretOf |-> secretOf, closing |-> closing, of |-> of, doomed |-> Open(of)]]
    /\ UNCHANGED <<cast, profiles, secrets, sessions, challenges, activeCities>>

As(p, status, scope) == [profiles[p] EXCEPT !.status = status, !.scope = scope]
Row(p, row) == [q \in {p} |-> row]

Managed(a) == {e \in cast \cap Employees : profiles[e].manager = a}

\* (The employees keep their sessions in the mutant.)
AdminAlone(a) == {a}
WithEmployees(a) == {a} \cup Managed(a)

\* (The employees stay as they are in the mutant.)
AdminWrittenAlone(a, status, scope) ==
    [p \in {a} \cup Managed(a) |-> IF p = a THEN As(a, status, scope) ELSE profiles[p]]

\* Disabling an admin disables his employees, enabling him does not enable them; they all
\* move to another city together.
AdminWritten(a, status, scope) ==
    [p \in {a} \cup Managed(a) |->
        As(p, IF p = a \/ (status = "DISABLED" /\ profiles[a].status # "DISABLED")
              THEN status ELSE profiles[p].status,
           IF scope # profiles[a].scope THEN scope ELSE profiles[p].scope)]

BeginUpdateAdmin(x, a, status, city) ==
    LET disabled == status = "DISABLED" /\ profiles[a].status # "DISABLED"
        moved == city # profiles[a].scope
    IN /\ disabled \/ moved \/ status # profiles[a].status
       /\ moved => city \in activeCities
       /\ Begin(x, AdminWritten(a, status, city), None, None,
                IF disabled \/ moved THEN WithEmployees(a) ELSE {})
       /\ UNCHANGED requests

BeginResetAdminPassword(x, a) ==
    Begin(x, Row(a, profiles[a]), a, None, {a}) /\ UNCHANGED requests

\* By a request of his admin.
BeginUpdateEmployee(x, r, e, status) ==
    /\ requests[r].step = "acting" /\ profiles[e].manager = requests[r].of
    /\ status # profiles[e].status
    /\ Begin(x, Row(e, [As(e, status, profiles[e].scope) EXCEPT !.late = @ \/ requests[r].late]),
             None, None, IF status = "DISABLED" THEN {e} ELSE {})
    /\ Becomes(r, NoRequest)

\* The operations of the desk on merchants lock the geography of their city.
Operable(m) == profiles[m].scope # None /\ StoreCity[profiles[m].scope] \in activeCities \ Closing

BeginUpdateMerchant(x, m, status) ==
    /\ Operable(m) /\ status # profiles[m].status
    /\ Begin(x, Row(m, As(m, status, profiles[m].scope)), None, None,
             IF status = "DISABLED" THEN {m} ELSE {})
    /\ UNCHANGED requests

BeginTransferStore(x, m, store) ==
    /\ Operable(m) /\ store # profiles[m].scope
    /\ StoreCity[store] = StoreCity[profiles[m].scope]
    /\ Begin(x, Row(m, As(m, profiles[m].status, store)), None, None, {m})
    /\ UNCHANGED requests

BeginResetMerchantPassword(x, m) ==
    /\ Operable(m)
    /\ Begin(x, Row(m, profiles[m]), m, None, {m})
    /\ UNCHANGED requests

\* The merchant's own change locks the secret alone.
BeginChangePassword(x, m, s) ==
    /\ sessions[s].of = m /\ Authentic(s)
    /\ Begin(x, <<>>, m, None, {m})
    /\ UNCHANGED requests

\* The city alone, without a phone or a status, leaves the sessions: it is read again by
\* every request.
BeginUpdateDriver(x, d, status, city, phone) ==
    /\ city # profiles[d].scope => city \in activeCities
    /\ phone \/ status # profiles[d].status \/ city # profiles[d].scope
    /\ Begin(x, Row(d, As(d, status, city)), None, None,
             IF phone \/ status # profiles[d].status THEN {d} ELSE {})
    /\ UNCHANGED requests

BeginResetAccessCode(x, d) ==
    Begin(x, Row(d, profiles[d]), d, None, {d}) /\ UNCHANGED requests

\* A city, or the governorate it is in, ceases to be active.
BeginClosing(x, city) ==
    LET admins == {a \in cast \cap Admins : profiles[a].scope = city} IN
    /\ city \in activeCities \ Closing
    /\ Begin(x, <<>>, None, city, UNION {WithEmployees(a) : a \in admins})
    /\ UNCHANGED requests

Reopen(city) ==
    /\ city \notin activeCities
    /\ activeCities' = activeCities \cup {city}
    /\ UNCHANGED <<cast, profiles, secrets, sessions, challenges, requests, changes, begun>>

\* Whom the transaction would have put out had it come last: those it revoked, and the
\* employees an admin got while it was under way.
Overtaken(c) ==
    c.of \cup (IF c.secretOf # None THEN {}
              ELSE UNION {Managed(a) : a \in c.of \cap Admins} \ DOMAIN c.writes)

Committed(c, p) ==
    IF p \in DOMAIN c.writes
    THEN LET row == c.writes[p]
             closed == p \in Staff /\ row.scope # profiles[p].scope
                           /\ row.scope \notin activeCities \ Closing
         IN [row EXCEPT !.late = row.late \/ profiles[p].late \/ closed]
    ELSE LET missed == c.secretOf = None /\ profiles[p].manager \in DOMAIN c.writes \cap c.of
         IN [profiles[p] EXCEPT !.late = @ \/ missed]

Commit(x) ==
    LET c == changes[x]
        late == Overtaken(c)
    IN /\ c.open
       /\ profiles' = [p \in Principals |-> Committed(c, p)]
       /\ secrets' = [p \in Principals |->
              IF p = c.secretOf
              THEN [issued |-> secrets[p].issued + 1, stored |-> secrets[p].issued + 1,
                    restored |-> FALSE]
              ELSE secrets[p]]
       /\ sessions' = [s \in SessionIds |->
              IF s \in c.doomed THEN Ended(s)
              ELSE [sessions[s] EXCEPT !.late =
                        @ \/ (sessions[s].of \in late /\ sessions[s].state # "REVOKED")]]
       /\ activeCities' = activeCities \ {c.closing}
       /\ requests' = [r \in Requests |->
              [requests[r] EXCEPT !.late = @ \/ (requests[r].of \in late /\ requests[r].session = 0)]]
       /\ changes' = [changes EXCEPT ![x] = NoChange]
       /\ UNCHANGED <<cast, challenges, begun>>

-----------------------------------------------------------------------------
(* New accounts *)

\* Who creates an employee is an admin whose token was accepted some time ago; its city
\* is the employee's.
ActAs(r, s, city) ==
    LET p == sessions[s].of IN
    /\ Idle(r) /\ p \in Admins /\ Authentic(s) /\ city \in sessions[s].claims
    /\ Becomes(r, [NoRequest EXCEPT !.step = "acting", !.of = p, !.scope = city,
                                     !.late = sessions[s].late \/ profiles[p].late])
    /\ UNCHANGED <<cast, profiles, secrets, sessions, challenges, activeCities, changes, begun>>

Create(p, status, scope, manager, late) ==
    /\ p \in cast /\ profiles[p].status = "ABSENT"
    /\ profiles' = [profiles EXCEPT ![p] =
           [status |-> status, scope |-> scope, manager |-> manager, late |-> late]]
    /\ secrets' = [secrets EXCEPT ![p].issued = 1, ![p].stored = 1]
    /\ UNCHANGED <<cast, sessions, challenges, activeCities, changes, begun>>

CreateAdmin(a, city) ==
    city \in activeCities /\ Create(a, "ACTIVE", city, None, city \in Closing) /\ UNCHANGED requests

CreateEmployee(r, e) ==
    LET q == requests[r] IN
    /\ q.step = "acting"
    /\ Create(e, "ACTIVE", q.scope, q.of, q.late)
    /\ Becomes(r, NoRequest)

CreateMerchant(m, status, store) ==
    /\ StoreCity[store] \in activeCities \ Closing
    /\ Create(m, status, store, None, FALSE) /\ UNCHANGED requests

CreateDriver(d, city) ==
    city \in activeCities /\ Create(d, "ACTIVE", city, None, FALSE) /\ UNCHANGED requests

Statuses == {"ACTIVE", "DISABLED"}

Next ==
    \/ \E a \in Admins, city \in Cities : CreateAdmin(a, city)
    \/ \E r \in Requests, e \in Employees : CreateEmployee(r, e)
    \/ \E m \in Merchants, status \in Statuses, store \in Stores : CreateMerchant(m, status, store)
    \/ \E d \in Drivers, city \in Cities : CreateDriver(d, city)
    \/ \E r \in Requests, s \in SessionIds, city \in Cities : ActAs(r, s, city)
    \/ \E r \in Requests, p \in Principals : Verify(r, p)
    \/ \E r \in Requests : Rehash(r) \/ Sign(r)
    \/ \E r \in Requests, s \in SessionIds : LoginCreates(r, s) \/ Refresh(r, s)
    \/ \E i \in ChallengeIds, p \in Customers : RequestOtp(i, p)
    \/ \E i \in ChallengeIds : ChallengeEnds(i) \/ WrongOtp(i)
    \/ \E r \in Requests, i \in ChallengeIds, s \in SessionIds : VerifyOtp(r, i, s)
    \/ \E s \in SessionIds : RefreshReuse(s) \/ Logout(s) \/ LogoutAll(s) \/ SessionExpires(s)
    \/ \E x \in Changes, a \in Admins, status \in Statuses, city \in Cities :
           BeginUpdateAdmin(x, a, status, city)
    \/ \E x \in Changes, a \in Admins : BeginResetAdminPassword(x, a)
    \/ \E x \in Changes, r \in Requests, e \in Employees, status \in Statuses :
           BeginUpdateEmployee(x, r, e, status)
    \/ \E x \in Changes, m \in Merchants, status \in Statuses : BeginUpdateMerchant(x, m, status)
    \/ \E x \in Changes, m \in Merchants, store \in Stores : BeginTransferStore(x, m, store)
    \/ \E x \in Changes, m \in Merchants : BeginResetMerchantPassword(x, m)
    \/ \E x \in Changes, m \in Merchants, s \in SessionIds : BeginChangePassword(x, m, s)
    \/ \E x \in Changes, d \in Drivers, status \in Statuses, city \in Cities, phone \in BOOLEAN :
           BeginUpdateDriver(x, d, status, city, phone)
    \/ \E x \in Changes, d \in Drivers : BeginResetAccessCode(x, d)
    \/ \E x \in Changes, city \in Cities : BeginClosing(x, city)
    \/ \E x \in Changes : Commit(x)
    \/ \E city \in Cities : Reopen(city)

Spec == Init /\ [][Next]_vars

-----------------------------------------------------------------------------
(* Properties *)

\* However logins, refreshes and revocations interleave, an account has no more sessions
\* that are not revoked than its application allows (session-service.ts:57-73; the unique
\* index of the schema says so of drivers).
LimitHolds == \A p \in cast : Cardinality(Open({p})) <= Limit(p)

\* When a refresh token that already has a successor was presented for a session of the
\* dashboard, that session and all the account had opened before it are over
\* (session-service.ts:255-261).
ReuseIsFatal ==
    \A t \in SessionIds : sessions[t].reused =>
        /\ sessions[t].state = "REVOKED"
        /\ sessions[t].of \in Staff => \A s \in Open({sessions[t].of}) : s > t

\* A session of an account that is not active is over, unless its login was under way
\* when the account was disabled: enabling the account again brings no session back
\* (staff-organization.service.ts:258-266, 503-504; merchant-organization.service.ts:465-471;
\* driver-management.service.ts:411-416).
DisabledAreOut ==
    \A s \in SessionIds :
        sessions[s].state = "LIVE" /\ ~sessions[s].late => profiles[sessions[s].of].status = "ACTIVE"

\* Nobody stays signed in with a secret that was reset or changed, and the secret that
\* opens sessions is the newest one, unless a login was under way at the reset: such a
\* login may store the hash of the old password over the new one
\* (dashboard-auth.service.ts:100-102, merchant-auth.service.ts:113-122).
OldSecretsAreOut ==
    \A s \in SessionIds :
        LET secret == secrets[sessions[s].of] IN
        sessions[s].state = "LIVE" /\ ~sessions[s].late /\ ~secret.restored
            => sessions[s].secret = secret.issued

\* The city the dashboard goes by is the one signed into a token, which no request checks
\* against the account: it is the account's city, and active, for as long as the session
\* lives, because whatever changes either revokes the session (session-service.ts:117-121).
ClaimsFollowScope ==
    \A s \in SessionIds :
        LET profile == profiles[sessions[s].of] IN
        sessions[s].claims # {} /\ ~sessions[s].late /\ ~profile.late
            => sessions[s].claims = {profile.scope} /\ profile.scope \in activeCities

\* An active employee has an active admin, and works in his admin's city, unless a
\* request of the admin that was under way created or enabled him after all
\* (staff-organization.service.ts:255-290, 339-359, 490-506).
EmployeesFollowTheirAdmin ==
    \A e \in cast \cap Employees :
        profiles[e].status = "ACTIVE" /\ ~profiles[e].late
            => LET above == profiles[profiles[e].manager] IN
               above.status = "ACTIVE" /\ above.scope = profiles[e].scope

\* What ends an account's right to be signed in ends its sessions, for good.
RevokedAreOut == DisabledAreOut /\ OldSecretsAreOut

\* Tokens, accounts and the organisation of staff agree on the city.
ScopesAgree == ClaimsFollowScope /\ EmployeesFollowTheirAdmin

=============================================================================
