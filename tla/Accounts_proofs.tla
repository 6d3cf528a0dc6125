--------------------------- MODULE Accounts_proofs --------------------------
(***************************************************************************)
(* The safety properties of Accounts, proved for any accounts, requests    *)
(* and transactions.                                                       *)
(*                                                                         *)
(* A revocation is written when its transaction begins and seen when it    *)
(* commits, so nothing the properties say is inductive by itself: IInv     *)
(* says what every transaction that is under way will write (ChangeSound), *)
(* what every request remembers of its account (RequestSound), and what    *)
(* profiles agree on while no transaction overtook one of them             *)
(* (ProfileSound).                                                         *)
(***************************************************************************)
EXTENDS Accounts, TLAPS, FiniteSetTheorems, WellFoundedInduction

----------------------------------------------------------------------------
(* The inductive invariant. *)

\* An account keeps what its application allows, whether or not the run is about it.
WithinLimit == \A p \in Principals : Cardinality(Open({p})) <= Limit(p)

\* Sessions take their numbers in turn.
InTurn ==
    \A s, t \in SessionIds : t < s /\ sessions[s].state # "NONE" => sessions[t].state # "NONE"

SessionSound(s) ==
    /\ sessions[s].state # "NONE" => sessions[s].of \in cast
    /\ sessions[s].state = "NONE" => ~sessions[s].rotated
    /\ sessions[s].claims # {} => sessions[s].state = "LIVE" /\ sessions[s].of \in Staff

\* A challenge that is open takes another code.
ChallengeSound(i) ==
    challenges[i].state = "OPEN" =>
        challenges[i].of \in cast \cap Customers /\ challenges[i].wrong < MaxAttempts

\* Only a late login restores an old secret; customers have none.
SecretSound(p) ==
    /\ ~secrets[p].restored => secrets[p].stored = secrets[p].issued
    /\ p \in Customers => secrets[p].issued = 0

\* What e's admin is, as far as e goes by it.
Follows(e) ==
    LET above == profiles[profiles[e].manager] IN
    /\ ~above.late /\ above.scope = profiles[e].scope
    /\ profiles[e].status = "ACTIVE" => above.status = "ACTIVE"

ProfileSound(p) ==
    /\ profiles[p].status # "ABSENT" => p \in cast
    /\ profiles[p].status = "ABSENT" => profiles[p].scope = None /\ profiles[p].manager = None
    /\ p \in Employees /\ profiles[p].status # "ABSENT" =>
           /\ profiles[p].manager \in Admins
           /\ profiles[profiles[p].manager].status # "ABSENT"
           /\ ~profiles[p].late => Follows(p)
    /\ p \notin Employees => profiles[p].manager = None

\* A login that nothing overtook has verified the account as it is.
LoggingIn(q) ==
    /\ q.of \in cast /\ q.session = 0
    /\ ~q.late =>
           /\ profiles[q.of].status = "ACTIVE"
           /\ ~secrets[q.of].restored => q.secret = secrets[q.of].issued

\* An admin's request that nothing overtook goes by the city he is in.
Acting(q) ==
    /\ q.of \in cast \cap Admins /\ q.session = 0 /\ q.scope \in Cities
    /\ profiles[q.of].status # "ABSENT"
    /\ ~q.late => /\ profiles[q.of].status = "ACTIVE" /\ ~profiles[q.of].late
                  /\ profiles[q.of].scope = q.scope

RequestSound(r) ==
    LET q == requests[r] IN
    /\ q.step \in {"verified", "hashed"} => LoggingIn(q)
    /\ q.step = "created" => /\ q.session \in SessionIds
                             /\ sessions[q.session].state # "NONE"
                             /\ sessions[q.session].of = q.of
    /\ q.step = "acting" => Acting(q)

\* What a transaction will write of p: it ends the rights of nobody whose sessions it
\* has not revoked.
RowSound(c, p) ==
    /\ p \in cast \ Customers
    /\ profiles[p].status # "ABSENT" /\ c.writes[p].status # "ABSENT"
    /\ c.writes[p].manager = profiles[p].manager
    /\ p \in c.of \/ (profiles[p].status = "ACTIVE" => c.writes[p].status = "ACTIVE")
    /\ p \in Staff => p \in c.of \/ c.writes[p].scope = profiles[p].scope
    /\ p \in Admins => c.writes[p].late = profiles[p].late
    /\ c.secretOf # None => /\ c.writes[p].status = profiles[p].status
                            /\ c.writes[p].scope = profiles[p].scope

\* It writes an employee together with his admin, or leaves him in his admin's city and
\* enables him for an admin who is active.
EmployeeSound(c, e) ==
    LET above == profiles[e].manager IN
    IF above \in DOMAIN c.writes
    THEN /\ profiles[e].scope = profiles[above].scope => c.writes[e].scope = c.writes[above].scope
         /\ c.writes[e].status = "ACTIVE" /\ profiles[above].status = "ACTIVE"
                => profiles[e].status = "ACTIVE" /\ c.writes[above].status = "ACTIVE"
         /\ c.writes[e].status = "ACTIVE" => profiles[e].status = "ACTIVE"
    ELSE /\ c.writes[e].scope = profiles[e].scope
         /\ ~c.writes[e].late /\ ~profiles[e].late /\ c.writes[e].status = "ACTIVE"
                => profiles[above].status = "ACTIVE"

ChangeSound(x) ==
    LET c == changes[x] IN
    /\ ~c.open => c = NoChange
    /\ c.of \subseteq cast
    /\ \A p \in DOMAIN c.writes : RowSound(c, p)
    /\ \A e \in DOMAIN c.writes \cap Employees : EmployeeSound(c, e)
    /\ c.secretOf # None =>
           /\ c.secretOf \in c.of \ Customers
           /\ profiles[c.secretOf].status # "ABSENT"
           /\ secrets[c.secretOf].issued < MaxSecrets
    /\ c.closing # None =>
           /\ DOMAIN c.writes = {} /\ c.secretOf = None
           /\ \A a \in Admins : profiles[a].scope = c.closing /\ ~profiles[a].late => a \in c.of
    /\ \A s \in c.doomed : sessions[s].state # "NONE"

\* Transactions hold the locks on what they write.
Apart(x, y) ==
    /\ DOMAIN changes[x].writes \cap DOMAIN changes[y].writes = {}
    /\ changes[x].secretOf # None => changes[x].secretOf # changes[y].secretOf

IInv ==
    /\ TypeOK
    /\ WithinLimit /\ InTurn /\ ReuseIsFatal
    /\ \A s \in SessionIds : SessionSound(s)
    /\ \A i \in ChallengeIds : ChallengeSound(i)
    /\ \A p \in Principals : SecretSound(p) /\ ProfileSound(p)
    /\ \A r \in Requests : RequestSound(r)
    /\ \A x \in Changes : ChangeSound(x)
    /\ \A x, y \in Changes : x # y => Apart(x, y)
    /\ DisabledAreOut /\ OldSecretsAreOut /\ ClaimsFollowScope

----------------------------------------------------------------------------
(* The constants. *)

LEMMA Bounds ==
    /\ MaxSessions \in Nat /\ MaxChallenges \in Nat
    /\ MaxSecrets \in Nat \ {0} /\ MaxAttempts \in Nat \ {0}
    /\ StaffLimit \in Nat \ {0} /\ MerchantLimit \in Nat \ {0}
    /\ DriverLimit \in Nat \ {0} /\ CustomerLimit \in Nat \ {0}
BY AccountsAssumption DEF AccountsAssumption

\* An account belongs to one application.
LEMMA OneApplication ==
    ASSUME NEW p
    PROVE  /\ p \in Admins => p \notin Employees
           /\ p \in Staff => p \notin Merchants
           /\ p \in Staff \cup Merchants => p \notin Drivers
           /\ p \in Staff \cup Merchants \cup Drivers => p \notin Customers
BY AccountsAssumption DEF AccountsAssumption

LEMMA NoneIsNothing ==
    /\ None \notin Principals /\ None \notin Admins /\ None \notin Employees
    /\ None \notin Cities /\ None \notin Stores
BY AccountsAssumption DEF AccountsAssumption, Principals, Staff, Scopes

LEMMA CastsArePrincipals == ASSUME NEW C \in Casts PROVE C \subseteq Principals
BY AccountsAssumption DEF AccountsAssumption

----------------------------------------------------------------------------
(* Finite sets of numbered sessions. *)

\* Of finitely many sessions one is the oldest.
LEMMA OneIsOldest ==
    ASSUME NEW A, A \subseteq Nat, IsFiniteSet(A), A # {}
    PROVE  \E m \in A : \A t \in A : ~(t < m)
<1> DEFINE upTo(t) == {u \in A : u <= t}
           family == {upTo(t) : t \in A}
<1>1. family \subseteq FiniteSubsetsOf(A)
      BY FS_Subset DEF FiniteSubsetsOf
<1>2. family # {}
   <2>1. PICK t \in A : TRUE
         OBVIOUS
   <2>2. upTo(t) \in family
         OBVIOUS
   <2> QED
       BY <2>2
<1>3. PICK T \in family : \A U \in family : ~(<<U, T>> \in StrictSubsetOrdering(A))
      BY <1>1, <1>2, FS_StrictSubsetOrderingWellFounded, WFMin, Zenon
<1>4. PICK m \in A : T = upTo(m)
      OBVIOUS
<1>5. ASSUME NEW t \in A, t < m
      PROVE  FALSE
   <2>1. t \in Nat /\ m \in Nat
         OBVIOUS
   <2>2. upTo(t) \subseteq upTo(m)
      <3>1. SUFFICES ASSUME NEW u \in A, u <= t
                     PROVE  u <= m
            OBVIOUS
      <3>2. u \in Nat
            OBVIOUS
      <3> QED
          BY <1>5, <2>1, <3>1, <3>2
   <2>3. m \in upTo(m) /\ m \notin upTo(t)
         BY <1>5, <2>1
   <2>4. upTo(t) \in family
         OBVIOUS
   <2>5. ~(<<upTo(t), upTo(m)>> \in StrictSubsetOrdering(A))
         BY <1>3, <1>4, <2>4
   <2>6. upTo(t) \in SUBSET A /\ upTo(m) \in SUBSET A
         OBVIOUS
   <2> HIDE DEF upTo, family
   <2> QED
       BY <2>2, <2>3, <2>5, <2>6 DEF StrictSubsetOrdering
<1> QED
    BY <1>5

\* Without its oldest members a set within the limit has room for one more.
LEMMA RoomIsMade ==
    ASSUME NEW A, A \subseteq Nat, IsFiniteSet(A), NEW L \in Nat \ {0}, Cardinality(A) <= L,
           NEW surplus, surplus = IF Cardinality(A) >= L THEN Cardinality(A) - L + 1 ELSE 0,
           NEW R, R = {s \in A : Cardinality({t \in A : t < s}) < surplus}
    PROVE  IsFiniteSet(A \ R) /\ Cardinality(A \ R) <= L - 1
<1>1. Cardinality(A) \in Nat
      BY FS_CardinalityType
<1>2. A \ R \in SUBSET A
      OBVIOUS
<1>3. IsFiniteSet(A \ R) /\ Cardinality(A \ R) <= Cardinality(A) /\ Cardinality(A \ R) \in Nat
      BY <1>2, FS_Subset, FS_CardinalityType
<1>4. CASE Cardinality(A) < L
      BY <1>1, <1>3, <1>4
<1>5. CASE Cardinality(A) = L
   <2>1. surplus = 1
         BY <1>1, <1>5
   <2>2. A # {}
         BY <1>5, FS_EmptySet
   <2>3. PICK m \in A : \A t \in A : ~(t < m)
         BY <2>2, OneIsOldest
   <2>4. {t \in A : t < m} = {}
         BY <2>3
   <2>5. m \in R
         BY <2>1, <2>4, FS_EmptySet
   <2>6. A \ R \in SUBSET (A \ {m})
         BY <2>5
   <2>7. IsFiniteSet(A \ {m}) /\ Cardinality(A \ {m}) = Cardinality(A) - 1
         BY FS_RemoveElement
   <2>8. Cardinality(A \ R) <= Cardinality(A \ {m})
         BY <2>6, <2>7, FS_Subset
   <2> QED
       BY <1>3, <1>5, <2>7, <2>8
<1> QED
    BY <1>1, <1>4, <1>5

LEMMA SignForIs ==
    ASSUME NEW p, NEW s
    PROVE  SignFor(p, s).step = "created" /\ SignFor(p, s).of = p /\ SignFor(p, s).session = s
BY DEF SignFor, NoRequest

LEMMA OpenIsFinite ==
    ASSUME NEW P
    PROVE  /\ Open(P) \subseteq SessionIds /\ Open(P) \subseteq Nat
           /\ IsFiniteSet(Open(P))
<1>1. IsFiniteSet(SessionIds)
      BY Bounds, FS_Interval DEF SessionIds
<1>2. Open(P) \in SUBSET SessionIds
      BY DEF Open
<1>3. SessionIds \subseteq Nat
      BY Bounds DEF SessionIds
<1> QED
    BY <1>1, <1>2, <1>3, FS_Subset

LEMMA LimitIsPositive == ASSUME NEW p PROVE Limit(p) \in Nat \ {0}
BY Bounds DEF Limit

----------------------------------------------------------------------------
(* Sessions that only come nearer their end. *)

Wanes(t) ==
    /\ sessions'[t].of = sessions[t].of
    /\ sessions'[t].state = "NONE" <=> sessions[t].state = "NONE"
    /\ sessions'[t].state = "NONE" => ~sessions'[t].rotated
    /\ sessions'[t].state = "EXPIRED" => sessions[t].state \in {"LIVE", "EXPIRED"}
    /\ sessions'[t].state = "LIVE" =>
           /\ sessions[t].state = "LIVE" /\ sessions'[t].secret = sessions[t].secret
           /\ sessions[t].late => sessions'[t].late
    /\ sessions'[t].claims # {} =>
           sessions'[t].state = "LIVE" /\ sessions'[t].claims = sessions[t].claims

LEMMA SessionRows ==
    ASSUME TypeOK, NEW s \in SessionIds
    PROVE  /\ sessions[s] \in Session
           /\ sessions[s].of \in Principals \cup {None} /\ sessions[s].claims \subseteq Cities
           /\ sessions[s].state \in {"NONE", "LIVE", "EXPIRED", "REVOKED"}
           /\ sessions[s].late \in BOOLEAN /\ sessions[s].rotated \in BOOLEAN
BY DEF TypeOK, Session

\* A set of sessions that lost members is within the limit it was in.
LEMMA FewerOpen ==
    ASSUME NEW p, Cardinality(Open({p})) <= Limit(p), Open({p})' \subseteq Open({p})
    PROVE  Cardinality(Open({p}))' <= Limit(p)
<1>1. IsFiniteSet(Open({p}))
      BY OpenIsFinite
<1>2. Open({p})' \in SUBSET Open({p})
      OBVIOUS
<1>3. Cardinality(Open({p})') <= Cardinality(Open({p})) /\ IsFiniteSet(Open({p})')
      BY <1>1, <1>2, FS_Subset
<1>4. Cardinality(Open({p})') \in Nat /\ Cardinality(Open({p})) \in Nat
      BY <1>1, <1>3, FS_CardinalityType
<1> QED
    BY <1>3, <1>4, LimitIsPositive

LEMMA WaningSessions ==
    ASSUME IInv, TypeOK', cast' = cast, \A t \in SessionIds : Wanes(t)
    PROVE  /\ WithinLimit' /\ InTurn'
           /\ \A s \in SessionIds : SessionSound(s)'
           /\ \A P : Open(P)' \subseteq Open(P)
<1> USE DEF IInv
<1>1. \A P : Open(P)' \subseteq Open(P)
      BY SessionRows DEF Open, Wanes
<1>2. WithinLimit'
   <2>1. SUFFICES ASSUME NEW p \in Principals
                  PROVE  Cardinality(Open({p}))' <= Limit(p)
         BY DEF WithinLimit, Limit
   <2> QED
       BY <1>1, FewerOpen DEF WithinLimit
<1>3. InTurn'
      BY DEF InTurn, Wanes
<1>4. ASSUME NEW s \in SessionIds
      PROVE  SessionSound(s)'
      BY <1>4 DEF SessionSound, Wanes
<1> QED
    BY <1>1, <1>2, <1>3, <1>4

\* The hash of an older secret may be stored again, which is remembered.
Restores(p) ==
    /\ SecretSound(p)' /\ secrets'[p].issued = secrets[p].issued
    /\ secrets[p].restored => secrets'[p].restored

\* A step that at most ends sessions, restores secrets and reopens cities, and changes
\* nothing else that the others go by.
QuietStep ==
    /\ \A t \in SessionIds : Wanes(t)
    /\ \A p \in Principals : secrets'[p] = secrets[p] \/ Restores(p)
    /\ \A i \in ChallengeIds : challenges'[i] = challenges[i] \/ ChallengeSound(i)'
    /\ \A r \in Requests : requests'[r] = requests[r] \/ RequestSound(r)'
    /\ \A x \in Changes : changes'[x] = changes[x] \/ ChangeSound(x)'
    /\ changes' = changes \/ \A x, y \in Changes : x # y => Apart(x, y)'
    /\ activeCities \subseteq activeCities'
    /\ UNCHANGED <<cast, profiles>>
    /\ ReuseIsFatal'

LEMMA QuietSteps ==
    ASSUME IInv, TypeOK', QuietStep
    PROVE  IInv'
<1> USE DEF IInv, QuietStep
<1>0. /\ \A p \in Principals :
             /\ secrets'[p].issued = secrets[p].issued
             /\ secrets[p].restored => secrets'[p].restored
      /\ cast \subseteq Principals
      BY CastsArePrincipals DEF Restores, TypeOK
<1>1. ASSUME NEW i \in ChallengeIds
      PROVE  ChallengeSound(i)'
      BY <1>1 DEF ChallengeSound
<1>2. ASSUME NEW p \in Principals
      PROVE  SecretSound(p)' /\ ProfileSound(p)'
      BY <1>2 DEF SecretSound, ProfileSound, Follows, Restores
<1>3. ASSUME NEW r \in Requests
      PROVE  RequestSound(r)'
   <2>1. CASE requests'[r] = requests[r]
      <3>1. RequestSound(r) /\ (requests[r].of \in cast => requests[r].of \in Principals)
            BY <1>0
      <3>2. requests[r].step \in {"verified", "hashed"} => LoggingIn(requests[r])'
         <4>1. SUFFICES ASSUME LoggingIn(requests[r])
                        PROVE  LoggingIn(requests[r])'
               BY <3>1 DEF RequestSound
         <4>2. PICK q : q = requests[r]
               OBVIOUS
         <4>3. LoggingIn(q) /\ q.of \in Principals
               BY <3>1, <4>1, <4>2 DEF LoggingIn
         <4>4. LoggingIn(q)'
               BY <1>0, <4>3 DEF LoggingIn
         <4> QED
             BY <2>1, <4>2, <4>4 DEF LoggingIn
      <3>3. requests[r].step = "acting" => Acting(requests[r])'
            BY <2>1 DEF RequestSound, Acting
      <3>4. requests[r].step = "created" =>
                 /\ requests[r].session \in SessionIds
                 /\ sessions'[requests[r].session].state # "NONE"
                 /\ sessions'[requests[r].session].of = requests[r].of
            BY DEF RequestSound, Wanes
      <3> QED
          BY <2>1, <3>2, <3>3, <3>4 DEF RequestSound
   <2> QED
       BY <2>1
<1>4. ASSUME NEW x \in Changes
      PROVE  ChangeSound(x)'
   <2>1. SUFFICES ASSUME changes'[x] = changes[x]
                  PROVE  ChangeSound(x)'
         OBVIOUS
   <2>2. ChangeSound(x) /\ TypeOK
         OBVIOUS
   <2>3. changes[x].doomed \subseteq SessionIds /\ changes[x].secretOf \in Principals \cup {None}
         BY DEF TypeOK, Change
   <2>4. \A s \in changes[x].doomed : sessions'[s].state # "NONE"
         BY <2>2, <2>3 DEF ChangeSound, Wanes
   <2>5. changes[x].secretOf # None =>
             secrets'[changes[x].secretOf].issued = secrets[changes[x].secretOf].issued
         BY <1>0, <2>3
   <2> QED
       BY <2>1, <2>2, <2>4, <2>5 DEF ChangeSound, RowSound, EmployeeSound
<1>5. \A x, y \in Changes : x # y => Apart(x, y)'
      BY DEF Apart
<1>6. ASSUME NEW s \in SessionIds, sessions'[s].state = "LIVE"
      PROVE  /\ sessions[s].state = "LIVE" /\ sessions'[s].of = sessions[s].of
             /\ sessions[s].of \in Principals /\ sessions'[s].secret = sessions[s].secret
             /\ ~sessions'[s].late => ~sessions[s].late
   <2>1. sessions'[s].late \in BOOLEAN
         BY DEF TypeOK, Session
   <2>2. SessionSound(s) /\ Wanes(s)
         OBVIOUS
   <2> QED
       BY <1>0, <1>6, <2>1, <2>2, SessionRows DEF Wanes, SessionSound
<1>7. DisabledAreOut'
      BY <1>6 DEF DisabledAreOut
<1>8. OldSecretsAreOut'
   <2>1. SUFFICES ASSUME NEW s \in SessionIds, sessions'[s].state = "LIVE", ~sessions'[s].late,
                         ~secrets'[sessions'[s].of].restored
                  PROVE  sessions'[s].secret = secrets'[sessions'[s].of].issued
         BY DEF OldSecretsAreOut
   <2> QED
       BY <1>0, <1>6, <2>1 DEF OldSecretsAreOut
<1>9. ClaimsFollowScope'
   <2>1. SUFFICES ASSUME NEW s \in SessionIds, sessions'[s].claims # {}, ~sessions'[s].late,
                         ~profiles[sessions'[s].of].late
                  PROVE  /\ sessions'[s].claims = {profiles[sessions'[s].of].scope}
                         /\ profiles[sessions'[s].of].scope \in activeCities'
         BY DEF ClaimsFollowScope
   <2>2. sessions'[s].state = "LIVE" /\ sessions'[s].claims = sessions[s].claims
         BY <2>1 DEF Wanes
   <2> QED
       BY <1>6, <2>1, <2>2 DEF ClaimsFollowScope
<1> QED
    BY <1>1, <1>2, <1>3, <1>4, <1>5, <1>7, <1>8, <1>9, WaningSessions

LEMMA QuietSessions ==
    ASSUME IInv, TypeOK', \A t \in SessionIds : Wanes(t),
           UNCHANGED <<cast, profiles, secrets, challenges, activeCities, changes>>,
           \A r \in Requests : requests'[r] = requests[r] \/ RequestSound(r)',
           ReuseIsFatal'
    PROVE  IInv'
BY QuietSteps DEF QuietStep

\* While the sessions stay, so does what was said of them.
LEMMA SessionsStay ==
    ASSUME IInv, UNCHANGED <<cast, sessions>>
    PROVE  ReuseIsFatal' /\ \A t \in SessionIds : Wanes(t)
<1>1. ReuseIsFatal'
      BY DEF ReuseIsFatal, Open, IInv
<1>2. \A t \in SessionIds : Wanes(t)
      BY DEF Wanes, SessionSound, IInv
<1> QED
    BY <1>1, <1>2

\* Types of what a step of the sessions alone leaves alone.
LEMMA SessionTypes ==
    ASSUME TypeOK, UNCHANGED <<cast, profiles, secrets, challenges, activeCities, changes, begun>>,
           sessions' \in [SessionIds -> Session], requests' \in [Requests -> Request]
    PROVE  TypeOK'
BY DEF TypeOK

LEMMA EndedRow ==
    ASSUME TypeOK, NEW s \in SessionIds
    PROVE  /\ Ended(s) \in Session
           /\ Ended(s).of = sessions[s].of /\ Ended(s).state = "REVOKED"
           /\ Ended(s).reused = sessions[s].reused
           /\ Ended(s).rotated = sessions[s].rotated /\ Ended(s).claims = {}
<1>1. sessions[s] \in Session
      BY SessionRows
<1>2. 0 \in 0 .. MaxSecrets
      BY Bounds
<1> QED
    BY <1>1, <1>2 DEF Ended, Session

\* Sessions that are revoked wane; the others stay.
LEMMA RevokedWane ==
    ASSUME IInv, NEW S \in SUBSET SessionIds, \A s \in S : sessions[s].state # "NONE",
           sessions' = Revoked(S)
    PROVE  /\ sessions' \in [SessionIds -> Session]
           /\ \A t \in SessionIds : Wanes(t) /\ sessions'[t].reused = sessions[t].reused
<1>1. TypeOK
      BY DEF IInv
<1>2. sessions' \in [SessionIds -> Session]
      BY <1>1, EndedRow, SessionRows DEF Revoked
<1>3. ASSUME NEW t \in SessionIds
      PROVE  Wanes(t) /\ sessions'[t].reused = sessions[t].reused
   <2>1. SessionSound(t)
         BY DEF IInv
   <2>2. CASE t \in S
      <3>1. sessions'[t] = Ended(t)
            BY <2>2 DEF Revoked
      <3>2. sessions[t].state # "NONE"
            BY <2>2
      <3> QED
          BY <1>1, <3>1, <3>2, EndedRow DEF Wanes
   <2>3. CASE t \notin S
      <3>1. sessions'[t] = sessions[t]
            BY <2>3 DEF Revoked
      <3> QED
          BY <2>1, <3>1 DEF Wanes, SessionSound
   <2> QED
       BY <2>2, <2>3
<1> QED
    BY <1>2, <1>3

\* Reuse stays fatal for as long as no session is opened.
LEMMA ReuseStaysFatal ==
    ASSUME IInv, TypeOK', cast' = cast, \A t \in SessionIds : Wanes(t),
           \A t \in SessionIds : sessions'[t].reused = sessions[t].reused
    PROVE  ReuseIsFatal'
<1>1. ReuseIsFatal /\ \A P : Open(P)' \subseteq Open(P)
      BY WaningSessions DEF IInv
<1>2. SUFFICES ASSUME NEW t \in SessionIds, sessions'[t].reused
               PROVE  /\ sessions'[t].state = "REVOKED"
                      /\ sessions'[t].of \in Staff => \A s \in Open({sessions[t].of})' : s > t
      BY DEF ReuseIsFatal, Wanes
<1>3. sessions[t].reused /\ Wanes(t)
      BY <1>2
<1>4. sessions[t].state = "REVOKED"
      BY <1>1, <1>3 DEF ReuseIsFatal
<1>5. sessions'[t].state \in {"NONE", "LIVE", "EXPIRED", "REVOKED"}
      BY DEF TypeOK, Session
<1>6. sessions'[t].state = "REVOKED"
      BY <1>3, <1>4, <1>5 DEF Wanes
<1>7. sessions[t].of \in Staff => \A s \in Open({sessions[t].of}) : s > t
      BY <1>1, <1>3 DEF ReuseIsFatal
<1> QED
    BY <1>1, <1>3, <1>6, <1>7 DEF Wanes

LEMMA SessionExpiresStep ==
    ASSUME IInv, NEW s \in SessionIds, SessionExpires(s)
    PROVE  IInv'
<1>1. TypeOK /\ sessions[s] \in Session
      BY SessionRows DEF IInv
<1>2. DEFINE row == [sessions[s] EXCEPT !.state = "EXPIRED", !.claims = {}]
<1>3. row \in Session /\ row.state = "EXPIRED" /\ row.claims = {} /\ row.of = sessions[s].of
          /\ row.reused = sessions[s].reused
      BY <1>1 DEF Session
<1>4. sessions' = [sessions EXCEPT ![s] = row] /\ sessions[s].state = "LIVE"
      BY <1>1 DEF SessionExpires, TypeOK
<1> HIDE DEF row
<1>5. sessions' \in [SessionIds -> Session]
      BY <1>1, <1>3, <1>4 DEF TypeOK
<1>6. \A t \in SessionIds : Wanes(t) /\ sessions'[t].reused = sessions[t].reused
      BY <1>1, <1>3, <1>4 DEF TypeOK, Wanes, IInv, SessionSound
<1>7. TypeOK'
      BY <1>1, <1>5, SessionTypes DEF SessionExpires, TypeOK
<1> QED
    BY <1>6, <1>7, QuietSessions, ReuseStaysFatal DEF SessionExpires

LEMMA LogoutSteps ==
    ASSUME IInv, NEW s \in SessionIds, Logout(s) \/ LogoutAll(s)
    PROVE  IInv'
<1>1. PICK S \in SUBSET SessionIds :
          sessions' = Revoked(S) /\ \A t \in S : sessions[t].state # "NONE"
      BY DEF Logout, LogoutAll, Authentic, Open
<1>2. UNCHANGED <<cast, profiles, secrets, challenges, activeCities, requests, changes, begun>>
      BY DEF Logout, LogoutAll
<1>3. sessions' \in [SessionIds -> Session]
          /\ \A t \in SessionIds : Wanes(t) /\ sessions'[t].reused = sessions[t].reused
      BY <1>1, RevokedWane
<1>4. TypeOK'
      BY <1>2, <1>3, SessionTypes DEF IInv, TypeOK
<1> QED
    BY <1>2, <1>3, <1>4, QuietSessions, ReuseStaysFatal

LEMMA RefreshReuseStep ==
    ASSUME IInv, NEW s \in SessionIds, RefreshReuse(s)
    PROVE  IInv'
<1>1. TypeOK /\ SessionSound(s) /\ sessions[s].rotated
      BY DEF IInv, RefreshReuse
<1>2. sessions[s].state # "NONE"
      BY <1>1 DEF SessionSound
<1>3. PICK S \in SUBSET SessionIds : S = Reused(s)
      BY DEF Reused, Open
<1>4. \A t \in S : sessions[t].state # "NONE" /\ sessions[t].of = sessions[s].of
      BY <1>2, <1>3 DEF Reused, Open
<1>5. ASSUME NEW t \in S
      PROVE  /\ sessions'[t] \in Session
             /\ sessions'[t].of = sessions[t].of /\ sessions'[t].state = "REVOKED"
             /\ sessions'[t].claims = {}
   <2>1. sessions'[t] = [Ended(t) EXCEPT !.reused = TRUE]
         BY <1>3, <1>5 DEF RefreshReuse
   <2>2. PICK row \in Session : row = Ended(t)
         BY <1>1, EndedRow
   <2>3. row.of = sessions[t].of /\ row.state = "REVOKED" /\ row.claims = {}
         BY <1>1, <2>2, EndedRow
   <2> QED
       BY <2>1, <2>2, <2>3 DEF Session
<1>6. \A t \in SessionIds \ S : sessions'[t] = sessions[t]
      BY <1>3 DEF RefreshReuse
<1>7. sessions' \in [SessionIds -> Session]
   <2>1. sessions' = [t \in SessionIds |-> sessions'[t]]
         BY DEF RefreshReuse
   <2>2. \A t \in SessionIds : sessions'[t] \in Session
         BY <1>1, <1>5, <1>6, SessionRows
   <2> QED
       BY <2>1, <2>2
<1>8. \A t \in SessionIds : Wanes(t)
      BY <1>1, <1>4, <1>5, <1>6 DEF Wanes, IInv, SessionSound
<1>9. UNCHANGED <<cast, profiles, secrets, challenges, activeCities, requests, changes, begun>>
      BY DEF RefreshReuse
<1>10. TypeOK'
       BY <1>1, <1>7, <1>9, SessionTypes DEF TypeOK
<1>11. ReuseIsFatal'
   <2>1. ReuseIsFatal /\ \A P : Open(P)' \subseteq Open(P)
         BY <1>8, <1>9, <1>10, WaningSessions DEF IInv
   <2>2. SUFFICES ASSUME NEW t \in SessionIds, sessions'[t].reused,
                         NEW p, p = sessions[t].of
                  PROVE  /\ sessions'[t].state = "REVOKED"
                         /\ p \in Staff => \A u \in Open({p})' : u > t
         BY <1>8 DEF ReuseIsFatal, Wanes
   <2>3. CASE t \in S
      <3>1. p \in Staff => Open({p}) \subseteq S
            BY <1>3, <1>4, <2>2, <2>3 DEF Reused
      <3>2. \A u \in S : u \notin Open({p})'
            BY <1>5 DEF Open
      <3>3. p \in Staff => Open({p})' = {}
            BY <2>1, <3>1, <3>2
      <3> QED
          BY <1>5, <2>3, <3>3
   <2>4. CASE t \notin S
      <3>1. sessions'[t] = sessions[t]
            BY <1>6, <2>4
      <3>2. sessions[t].reused /\ sessions[t].state = "REVOKED"
            BY <2>1, <2>2, <3>1 DEF ReuseIsFatal
      <3>3. p \in Staff => \A u \in Open({p}) : u > t
            BY <2>1, <2>2, <3>2 DEF ReuseIsFatal
      <3> QED
          BY <2>1, <3>1, <3>2, <3>3
   <2> QED
       BY <2>3, <2>4
<1> QED
    BY <1>8, <1>9, <1>10, <1>11, QuietSessions

LEMMA RequestRows ==
    ASSUME TypeOK, NEW r \in Requests
    PROVE  /\ requests[r] \in Request /\ NoRequest \in Request
           /\ requests[r].of \in Principals \cup {None} /\ requests[r].late \in BOOLEAN
           /\ \A p \in Principals, s \in SessionIds : SignFor(p, s) \in Request
<1>1. 0 \in 0 .. MaxSecrets
      BY Bounds
<1> QED
    BY <1>1 DEF TypeOK, Request, NoRequest, SignFor

LEMMA RefreshStep ==
    ASSUME IInv, NEW r \in Requests, NEW s \in SessionIds, Refresh(r, s)
    PROVE  IInv'
<1>1. TypeOK /\ sessions[s] \in Session /\ SessionSound(s) /\ sessions[s].state = "LIVE"
      BY SessionRows DEF IInv, Refresh
<1>2. DEFINE row == [sessions[s] EXCEPT !.rotated = TRUE]
<1>3. /\ row \in Session /\ row.state = "LIVE" /\ row.claims = sessions[s].claims
      /\ row.of = sessions[s].of /\ row.reused = sessions[s].reused
      /\ row.secret = sessions[s].secret /\ row.late = sessions[s].late
      BY <1>1 DEF Session
<1>4. sessions' = [sessions EXCEPT ![s] = row]
      BY <1>1 DEF Refresh, TypeOK
<1> HIDE DEF row
<1>5. sessions' \in [SessionIds -> Session]
      BY <1>1, <1>3, <1>4 DEF TypeOK
<1>6. \A t \in SessionIds : Wanes(t) /\ sessions'[t].reused = sessions[t].reused
      BY <1>1, <1>3, <1>4 DEF TypeOK, Wanes, IInv, SessionSound
<1>7. sessions[s].of \in Principals /\ sessions[s].of \in cast
      BY <1>1, CastsArePrincipals DEF SessionSound, TypeOK
<1>8. requests' = [requests EXCEPT ![r] = SignFor(sessions[s].of, s)]
      BY DEF Refresh, Becomes
<1>9. requests' \in [Requests -> Request]
      BY <1>1, <1>7, <1>8, RequestRows DEF TypeOK
<1>10. UNCHANGED <<cast, profiles, secrets, challenges, activeCities, changes, begun>>
       BY DEF Refresh
<1>11. TypeOK'
       BY <1>1, <1>5, <1>9, <1>10, SessionTypes
<1>12. \A q \in Requests : requests'[q] = requests[q] \/ RequestSound(q)'
   <2>1. RequestSound(r)'
      <3>1. requests'[r] = SignFor(sessions[s].of, s)
            BY <1>1, <1>8 DEF TypeOK
      <3> QED
          BY <1>1, <1>3, <1>4, <3>1 DEF RequestSound, SignFor, NoRequest, TypeOK
   <2> QED
       BY <1>1, <1>8, <2>1 DEF TypeOK
<1> QED
    BY <1>6, <1>10, <1>11, <1>12, QuietSessions, ReuseStaysFatal

----------------------------------------------------------------------------
(* A session is opened. *)

Opened(p, secret, late) ==
    [of |-> p, state |-> "LIVE", reused |-> FALSE, secret |-> secret,
     rotated |-> FALSE, claims |-> {}, late |-> late]

\* What it does to the sessions.
Opening(s, p, secret, late) ==
    /\ sessions' \in [SessionIds -> Session]
    /\ sessions[s].state = "NONE" /\ sessions'[s] = Opened(p, secret, late)
    /\ \A t \in SessionIds \ {s} : Wanes(t) /\ sessions'[t].reused = sessions[t].reused
    /\ \A P : Open(P)' \subseteq Open(P) \cup (IF p \in P THEN {s} ELSE {})
    /\ Open({p})' \subseteq (Open({p}) \ Replaced(p)) \cup {s}

LEMMA SessionCreated ==
    ASSUME IInv, NEW s \in SessionIds, NEW p \in cast, NEW secret \in 0 .. MaxSecrets,
           NEW late \in BOOLEAN, CreateSession(s, p, secret, late), cast' = cast
    PROVE  Opening(s, p, secret, late)
<1>1. TypeOK /\ cast \subseteq Principals
      BY CastsArePrincipals DEF IInv, TypeOK
<1>2. PICK R : R = Replaced(p)
      OBVIOUS
<1>3. R \subseteq Open({p}) /\ R \subseteq SessionIds
      BY <1>2 DEF Replaced, Open
<1>4. PICK row : row = Opened(p, secret, late)
      OBVIOUS
<1>5. row \in Session /\ row.of = p /\ row.state = "LIVE" /\ row.claims = {}
      BY <1>1, <1>4 DEF Session, Opened
<1>6. sessions' = [Revoked(R) EXCEPT ![s] = row] /\ sessions[s].state = "NONE"
      BY <1>2, <1>4 DEF CreateSession, Opened
<1>7. s \notin Open({p}) /\ s \notin R
      BY <1>3, <1>6 DEF Open
<1>8. sessions'[s] = row
      BY <1>6 DEF Revoked
<1>9. ASSUME NEW t \in SessionIds, t # s
      PROVE  /\ t \in R => sessions'[t] = Ended(t)
             /\ t \notin R => sessions'[t] = sessions[t]
      BY <1>6, <1>9 DEF Revoked
<1>10. sessions' \in [SessionIds -> Session]
   <2>1. sessions' = [t \in SessionIds |-> sessions'[t]]
         BY <1>6 DEF Revoked
   <2>2. \A t \in SessionIds : sessions'[t] \in Session
         BY <1>1, <1>5, <1>8, <1>9, EndedRow, SessionRows
   <2> QED
       BY <2>1, <2>2
<1>11. ASSUME NEW t \in SessionIds, t # s
       PROVE  Wanes(t) /\ sessions'[t].reused = sessions[t].reused
   <2>1. SessionSound(t)
         BY DEF IInv
   <2>2. CASE t \in R
      <3>1. sessions[t].state # "NONE"
            BY <1>3, <2>2 DEF Open
      <3>2. sessions'[t] = Ended(t)
            BY <1>9, <1>11, <2>2
      <3> QED
          BY <1>1, <3>1, <3>2, EndedRow DEF Wanes
   <2>3. CASE t \notin R
         BY <1>9, <1>11, <2>1, <2>3 DEF Wanes, SessionSound
   <2> QED
       BY <2>2, <2>3
<1>12. ASSUME NEW P
       PROVE  Open(P)' \subseteq Open(P) \cup (IF p \in P THEN {s} ELSE {})
   <2>1. \A t \in SessionIds \ {s} : t \in Open(P)' => t \in Open(P)
         BY <1>1, <1>11, SessionRows DEF Open, Wanes
   <2>2. s \in Open(P)' => p \in P
         BY <1>5, <1>8 DEF Open
   <2>3. Open(P)' \subseteq SessionIds
         BY DEF Open
   <2> QED
       BY <2>1, <2>2, <2>3
<1>13. Open({p})' \subseteq (Open({p}) \ R) \cup {s}
   <2>1. \A t \in R : t \notin Open({p})'
         BY <1>1, <1>3, <1>7, <1>9, EndedRow DEF Open
   <2>2. Open({p})' \subseteq Open({p}) \cup {s}
         BY <1>12
   <2> QED
       BY <2>1, <2>2
<1> QED
    BY <1>2, <1>4, <1>6, <1>8, <1>10, <1>11, <1>12, <1>13 DEF Opening

\* The limit, the order and the reuse of the sessions outlast the opening of one.
LEMMA OpeningKeepsSessions ==
    ASSUME IInv, NEW s \in SessionIds, NEW p \in cast, NEW secret \in 0 .. MaxSecrets,
           NEW late \in BOOLEAN, CreateSession(s, p, secret, late), cast' = cast
    PROVE  /\ WithinLimit' /\ InTurn' /\ ReuseIsFatal'
           /\ \A t \in SessionIds : SessionSound(t)'
<1>0. Opening(s, p, secret, late)
      BY SessionCreated, Zenon
<1>1. TypeOK /\ p \in Principals
      BY CastsArePrincipals DEF IInv, TypeOK
<1>2. PICK row : row = Opened(p, secret, late)
      OBVIOUS
<1>3. row.of = p /\ row.state = "LIVE" /\ row.claims = {} /\ ~row.reused
      BY <1>2 DEF Opened
<1>4. sessions'[s] = row /\ sessions[s].state = "NONE"
      BY <1>0, <1>2 DEF Opening
<1>5. sessions' \in [SessionIds -> Session]
      BY <1>0 DEF Opening
<1>6. \A t \in SessionIds \ {s} : Wanes(t) /\ sessions'[t].reused = sessions[t].reused
      BY <1>0 DEF Opening
<1>7. WithinLimit'
   <2>1. SUFFICES ASSUME NEW q \in Principals
                  PROVE  Cardinality(Open({q}))' <= Limit(q)
         BY DEF WithinLimit, Limit
   <2>2. Cardinality(Open({q})) <= Limit(q)
         BY DEF IInv, WithinLimit
   <2>3. CASE q # p
      <3>1. Open({q})' \subseteq Open({q}) \cup (IF p \in {q} THEN {s} ELSE {})
            BY <1>0 DEF Opening
      <3>2. Open({q})' \subseteq Open({q})
            BY <2>3, <3>1
      <3> QED
          BY <2>2, <3>2, FewerOpen
   <2>4. CASE q = p
      <3>1. PICK A : A = Open({p})
            OBVIOUS
      <3>2. A \subseteq Nat /\ IsFiniteSet(A)
            BY <3>1, OpenIsFinite
      <3>3. PICK surplus : surplus = IF Cardinality(A) >= Limit(p)
                                     THEN Cardinality(A) - Limit(p) + 1 ELSE 0
            OBVIOUS
      <3>4. PICK R : R = {t \in A : Cardinality({u \in A : u < t}) < surplus}
            OBVIOUS
      <3>5. R = Replaced(p)
            BY <3>1, <3>3, <3>4 DEF Replaced
      <3>6. PICK L \in Nat \ {0} : L = Limit(p)
            BY LimitIsPositive
      <3>7a. Cardinality(A) <= L
            BY <2>2, <2>4, <3>1, <3>6
      <3>7b. surplus = IF Cardinality(A) >= L THEN Cardinality(A) - L + 1 ELSE 0
            BY <3>3, <3>6
      <3>7. IsFiniteSet(A \ R) /\ Cardinality(A \ R) <= L - 1
            BY <3>2, <3>4, <3>7a, <3>7b, RoomIsMade, Zenon
      <3>8. /\ IsFiniteSet((A \ R) \cup {s})
            /\ Cardinality((A \ R) \cup {s}) =
                   IF s \in A \ R THEN Cardinality(A \ R) ELSE Cardinality(A \ R) + 1
            BY <3>7, FS_AddElement
      <3>9. Open({p})' \in SUBSET ((A \ R) \cup {s})
            BY <1>0, <3>1, <3>5 DEF Opening
      <3>10. IsFiniteSet(Open({p})') /\ Cardinality(Open({p})') <= Cardinality((A \ R) \cup {s})
             BY <3>8, <3>9, FS_Subset
      <3>11. Cardinality(Open({p})') \in Nat /\ Cardinality(A \ R) \in Nat
             BY <3>7, <3>10, FS_CardinalityType
      <3> QED
          BY <2>4, <3>6, <3>7, <3>8, <3>10, <3>11
   <2> QED
       BY <2>3, <2>4
<1>8. \A t \in SessionIds : t < s => sessions[t].state # "NONE"
      BY DEF CreateSession
<1>9. SessionIds \subseteq Nat
      BY Bounds DEF SessionIds
<1>10. InTurn'
   <2>1. SUFFICES ASSUME NEW u \in SessionIds, NEW t \in SessionIds, t < u,
                         sessions'[u].state # "NONE"
                  PROVE  sessions'[t].state # "NONE"
         BY DEF InTurn
   <2>2. CASE u = s
         BY <1>4, <1>6, <1>8, <1>9, <2>1, <2>2 DEF Wanes
   <2>3. CASE t = s
         BY <1>3, <1>4, <2>3
   <2>4. CASE u # s /\ t # s
         BY <1>6, <2>1, <2>4 DEF Wanes, IInv, InTurn
   <2> QED
       BY <2>2, <2>3, <2>4
<1>11. ASSUME NEW t \in SessionIds, sessions[t].state # "NONE"
       PROVE  t < s
   <2>1. t # s /\ ~(s < t)
         BY <1>4, <1>11 DEF IInv, InTurn
   <2> QED
       BY <1>9, <2>1
<1>12. ReuseIsFatal'
   <2>1. SUFFICES ASSUME NEW t \in SessionIds, sessions'[t].reused,
                         NEW q, q = sessions'[t].of
                  PROVE  /\ sessions'[t].state = "REVOKED"
                         /\ q \in Staff => \A u \in Open({q})' : u > t
         BY DEF ReuseIsFatal
   <2>2. t # s
         BY <1>3, <1>4, <2>1
   <2>3. Wanes(t) /\ sessions[t].reused /\ q = sessions[t].of
         BY <1>6, <2>1, <2>2 DEF Wanes
   <2>4. sessions[t].state = "REVOKED" /\ (q \in Staff => \A u \in Open({q}) : u > t)
         BY <2>3 DEF IInv, ReuseIsFatal
   <2>5. sessions'[t].state = "REVOKED"
         BY <1>5, <2>3, <2>4 DEF Wanes, Session
   <2>6. Open({q})' \subseteq Open({q}) \cup (IF p \in {q} THEN {s} ELSE {})
         BY <1>0 DEF Opening
   <2>7. s > t
         BY <1>9, <1>11, <2>4
   <2> QED
       BY <2>4, <2>5, <2>6, <2>7
<1>13. ASSUME NEW t \in SessionIds
       PROVE  SessionSound(t)'
   <2>1. CASE t = s
         BY <1>2, <1>4, <2>1 DEF SessionSound, Opened
   <2>2. CASE t # s
         BY <1>6, <2>2 DEF SessionSound, Wanes, IInv
   <2> QED
       BY <2>1, <2>2
<1> QED
    BY <1>7, <1>10, <1>12, <1>13

\* What opening a session does to the accounts: the first code makes a customer's.
Activates(p) ==
    \/ profiles'[p] = profiles[p]
    \/ p \in cast \cap Customers /\ profiles'[p] = [profiles[p] EXCEPT !.status = "ACTIVE"]

LEMMA ProfileRows ==
    ASSUME TypeOK, NEW p \in Principals
    PROVE  /\ profiles[p] \in Profile /\ secrets[p] \in Secret
           /\ profiles[p].status \in {"ABSENT", "ACTIVE", "DISABLED"}
           /\ profiles[p].late \in BOOLEAN /\ secrets[p].restored \in BOOLEAN
           /\ profiles[p].scope \in Scopes \cup {None}
           /\ profiles[p].manager \in Admins \cup {None}
           /\ secrets[p].issued \in Nat
BY Bounds DEF TypeOK, Profile, Secret

LEMMA ChangeRows ==
    ASSUME TypeOK, NEW x \in Changes
    PROVE  /\ DOMAIN changes[x].writes \subseteq Principals
           /\ \A p \in DOMAIN changes[x].writes : changes[x].writes[p] \in Profile
           /\ changes[x].open \in BOOLEAN /\ changes[x].secretOf \in Principals \cup {None}
           /\ changes[x].closing \in Cities \cup {None}
           /\ changes[x].of \subseteq Principals /\ changes[x].doomed \subseteq SessionIds
BY DEF TypeOK, Change

\* Everything but the profiles of customers stays, and those become active.
LEMMA ActivatedProfiles ==
    ASSUME IInv, \A p \in Principals : Activates(p), UNCHANGED <<cast, secrets, changes>>,
           \A s \in SessionIds : sessions[s].state # "NONE" => sessions'[s].state # "NONE"
    PROVE  /\ \A p \in Principals : SecretSound(p)' /\ ProfileSound(p)'
           /\ \A x \in Changes : ChangeSound(x)'
           /\ \A x, y \in Changes : x # y => Apart(x, y)'
<1>1. TypeOK
      BY DEF IInv
<1>2. \A p \in Principals : p \notin Customers => profiles'[p] = profiles[p]
      BY DEF Activates
<1>3. Staff \subseteq Principals /\ Admins \subseteq Principals /\ Employees \subseteq Principals
      BY DEF Principals, Staff
<1>4. \A a \in Staff : a \notin Customers /\ profiles'[a] = profiles[a]
      BY <1>2, <1>3, OneApplication
<1>5. ASSUME NEW p \in Principals
      PROVE  SecretSound(p)' /\ ProfileSound(p)'
   <2>1. SecretSound(p) /\ ProfileSound(p)
         BY DEF IInv
   <2>2. SecretSound(p)'
         BY <2>1 DEF SecretSound
   <2>3. CASE profiles'[p] = profiles[p]
      <3>1. p \in Employees /\ profiles[p].status # "ABSENT" =>
                profiles'[profiles[p].manager] = profiles[profiles[p].manager]
            BY <1>4, <2>1 DEF ProfileSound, Staff
      <3> QED
          BY <2>1, <2>2, <2>3, <3>1 DEF ProfileSound, Follows
   <2>4. CASE p \in cast \cap Customers /\ profiles'[p] = [profiles[p] EXCEPT !.status = "ACTIVE"]
      <3>1. p \notin Employees
            BY <1>4, <2>4 DEF Staff
      <3>2. profiles'[p].status = "ACTIVE" /\ profiles'[p].manager = profiles[p].manager
            BY <1>1, <2>4, ProfileRows DEF Profile
      <3> QED
          BY <2>1, <2>2, <2>4, <3>1, <3>2 DEF ProfileSound
   <2> QED
       BY <2>3, <2>4 DEF Activates
<1>6. ASSUME NEW x \in Changes
      PROVE  ChangeSound(x)'
   <2>1. ChangeSound(x)
         BY DEF IInv
   <2>2. PICK c : c = changes[x]
         OBVIOUS
   <2>3. changes'[x] = c
         BY <2>2
   <2>4. ASSUME NEW p \in DOMAIN c.writes
         PROVE  RowSound(c, p)'
      <3>1. RowSound(c, p) /\ p \in Principals
            BY <1>1, <2>1, <2>2, ChangeRows DEF ChangeSound
      <3>2. profiles'[p] = profiles[p]
            BY <1>2, <3>1 DEF RowSound
      <3> QED
          BY <3>1, <3>2 DEF RowSound
   <2>5. ASSUME NEW e \in DOMAIN c.writes \cap Employees
         PROVE  EmployeeSound(c, e)'
      <3>1. EmployeeSound(c, e) /\ RowSound(c, e) /\ e \in Principals
            BY <1>3, <2>1, <2>2 DEF ChangeSound
      <3>2. ProfileSound(e)
            BY <3>1 DEF IInv
      <3>3. profiles'[e] = profiles[e] /\ profiles[e].manager \in Admins
            BY <1>2, <3>1, <3>2 DEF RowSound, ProfileSound
      <3>4. profiles'[profiles[e].manager] = profiles[profiles[e].manager]
            BY <1>4, <3>3 DEF Staff
      <3> QED
          BY <3>1, <3>3, <3>4 DEF EmployeeSound
   <2>6. c.secretOf # None => profiles'[c.secretOf] = profiles[c.secretOf]
         BY <1>1, <1>2, <2>1, <2>2, ChangeRows DEF ChangeSound
   <2>7. \A a \in Admins : profiles'[a] = profiles[a]
         BY <1>4 DEF Staff
   <2>8. c.doomed \subseteq SessionIds
         BY <1>1, <2>2, ChangeRows
   <2> QED
       BY <2>1, <2>2, <2>3, <2>4, <2>5, <2>6, <2>7, <2>8 DEF ChangeSound
<1>7. \A x, y \in Changes : x # y => Apart(x, y)'
      BY DEF Apart, IInv
<1> QED
    BY <1>5, <1>6, <1>7

LEMMA OpeningStep ==
    ASSUME IInv, TypeOK', NEW s \in SessionIds, NEW p \in cast, NEW secret \in 0 .. MaxSecrets,
           NEW late \in BOOLEAN, CreateSession(s, p, secret, late), NEW r \in Requests,
           requests' = [requests EXCEPT ![r] = SignFor(p, s)],
           UNCHANGED <<cast, secrets, activeCities, changes>>,
           \A q \in Principals : Activates(q), \A i \in ChallengeIds : ChallengeSound(i)',
           ~late => /\ profiles'[p].status = "ACTIVE"
                    /\ ~secrets[p].restored => secret = secrets[p].issued
    PROVE  IInv'
<1>1. TypeOK /\ cast \subseteq Principals
      BY CastsArePrincipals DEF IInv, TypeOK
<1>2. Opening(s, p, secret, late)
      BY SessionCreated, Zenon
<1>3. /\ WithinLimit' /\ InTurn' /\ ReuseIsFatal'
      /\ \A t \in SessionIds : SessionSound(t)'
      BY OpeningKeepsSessions, Zenon
<1>4. PICK row : row = Opened(p, secret, late)
      OBVIOUS
<1>5. /\ row.of = p /\ row.state = "LIVE" /\ row.claims = {} /\ row.secret = secret
      /\ row.late = late
      BY <1>4 DEF Opened
<1>6. sessions'[s] = row /\ \A t \in SessionIds \ {s} : Wanes(t)
      BY <1>2, <1>4 DEF Opening
<1>7. \A t \in SessionIds : sessions[t].state # "NONE" => sessions'[t].state # "NONE"
      BY <1>5, <1>6 DEF Wanes
<1>8. /\ \A q \in Principals : SecretSound(q)' /\ ProfileSound(q)'
      /\ \A x \in Changes : ChangeSound(x)'
      /\ \A x, y \in Changes : x # y => Apart(x, y)'
      BY <1>7, ActivatedProfiles
<1>9. \A q \in Principals : /\ profiles[q].status = "ACTIVE" => profiles'[q].status = "ACTIVE"
                            /\ profiles[q].status # "ABSENT" => profiles'[q].status # "ABSENT"
                            /\ profiles'[q].late = profiles[q].late
                            /\ profiles'[q].scope = profiles[q].scope
      BY <1>1, ProfileRows DEF Activates, Profile
<1>10. ASSUME NEW q \in Requests
       PROVE  RequestSound(q)'
   <2>1. CASE q = r
      <3>1. requests'[q] = SignFor(p, s)
            BY <1>1, <2>1 DEF TypeOK
      <3>2. /\ requests'[q].step = "created" /\ requests'[q].session = s
            /\ requests'[q].of = p
            BY <3>1, SignForIs
      <3> QED
          BY <1>5, <1>6, <3>2 DEF RequestSound
   <2>2. CASE q # r
      <3>1. requests'[q] = requests[q] /\ RequestSound(q)
            BY <2>2 DEF IInv
      <3>2. ASSUME requests[q].step \in {"verified", "hashed"}
            PROVE  LoggingIn(requests[q])'
         <4>1. LoggingIn(requests[q])
               BY <3>1, <3>2 DEF RequestSound
         <4> QED
             BY <1>1, <1>9, <3>1, <4>1 DEF LoggingIn
      <3>3. ASSUME requests[q].step = "acting"
            PROVE  Acting(requests[q])'
         <4>1. Acting(requests[q])
               BY <3>1, <3>3 DEF RequestSound
         <4> QED
             BY <1>1, <1>9, <3>1, <4>1 DEF Acting
      <3>4. ASSUME requests[q].step = "created"
            PROVE  /\ requests[q].session \in SessionIds
                   /\ sessions'[requests[q].session].state # "NONE"
                   /\ sessions'[requests[q].session].of = requests[q].of
         <4>1. PICK t \in SessionIds : t = requests[q].session
               BY <3>1, <3>4 DEF RequestSound
         <4>2. sessions[t].state # "NONE" /\ sessions[t].of = requests[q].of
               BY <3>1, <3>4, <4>1 DEF RequestSound
         <4>3. t # s
               BY <1>2, <4>2 DEF Opening
         <4> QED
             BY <1>6, <4>1, <4>2, <4>3 DEF Wanes
      <3> QED
          BY <3>1, <3>2, <3>3, <3>4 DEF RequestSound
   <2> QED
       BY <2>1, <2>2
<1>11. ASSUME NEW t \in SessionIds, sessions'[t].state = "LIVE", t # s
       PROVE  /\ sessions[t].state = "LIVE" /\ sessions'[t].of = sessions[t].of
              /\ sessions'[t].of \in Principals
              /\ sessions'[t].secret = sessions[t].secret
              /\ ~sessions'[t].late => ~sessions[t].late
   <2>1. Wanes(t) /\ SessionSound(t)
         BY <1>6, <1>11 DEF IInv
   <2>2. sessions[t].late \in BOOLEAN /\ sessions'[t].late \in BOOLEAN
         BY <1>1 DEF TypeOK, Session
   <2> QED
       BY <1>1, <1>11, <2>1, <2>2 DEF Wanes, SessionSound
<1>12. DisabledAreOut'
   <2>1. SUFFICES ASSUME NEW t \in SessionIds, sessions'[t].state = "LIVE", ~sessions'[t].late
                  PROVE  profiles'[sessions'[t].of].status = "ACTIVE"
         BY DEF DisabledAreOut
   <2>2. CASE t = s
         BY <1>5, <1>6, <2>1, <2>2
   <2>3. CASE t # s
         BY <1>9, <1>11, <2>1, <2>3 DEF DisabledAreOut, IInv
   <2> QED
       BY <2>2, <2>3
<1>13. OldSecretsAreOut'
   <2>1. SUFFICES ASSUME NEW t \in SessionIds, sessions'[t].state = "LIVE", ~sessions'[t].late,
                         ~secrets[sessions'[t].of].restored
                  PROVE  sessions'[t].secret = secrets[sessions'[t].of].issued
         BY DEF OldSecretsAreOut
   <2>2. CASE t = s
         BY <1>5, <1>6, <2>1, <2>2
   <2>3. CASE t # s
         BY <1>11, <2>1, <2>3 DEF OldSecretsAreOut, IInv
   <2> QED
       BY <2>2, <2>3
<1>14. ClaimsFollowScope'
   <2>1. SUFFICES ASSUME NEW t \in SessionIds, sessions'[t].claims # {}, ~sessions'[t].late,
                         ~profiles'[sessions'[t].of].late
                  PROVE  /\ sessions'[t].claims = {profiles'[sessions'[t].of].scope}
                         /\ profiles'[sessions'[t].of].scope \in activeCities
         BY DEF ClaimsFollowScope
   <2>2. t # s
         BY <1>5, <1>6, <2>1
   <2>3. Wanes(t)
         BY <1>6, <2>2
   <2>4. sessions'[t].state = "LIVE" /\ sessions'[t].claims = sessions[t].claims
         BY <2>1, <2>3 DEF Wanes
   <2> QED
       BY <1>9, <1>11, <2>1, <2>2, <2>4 DEF ClaimsFollowScope, IInv
<1> QED
    BY <1>3, <1>8, <1>10, <1>12, <1>13, <1>14 DEF IInv

LEMMA LoginCreatesStep ==
    ASSUME IInv, NEW r \in Requests, NEW s \in SessionIds, LoginCreates(r, s)
    PROVE  IInv'
<1>1. TypeOK /\ RequestSound(r)
      BY DEF IInv
<1>2. PICK q : q = requests[r]
      OBVIOUS
<1>3. /\ q.step \in {"verified", "hashed"} /\ CreateSession(s, q.of, q.secret, q.late)
      /\ requests' = [requests EXCEPT ![r] = SignFor(q.of, s)]
      BY <1>2 DEF LoginCreates, Becomes
<1>4. UNCHANGED <<cast, profiles, secrets, challenges, activeCities, changes, begun>>
      BY DEF LoginCreates
<1>5. LoggingIn(q)
      BY <1>1, <1>2, <1>3 DEF RequestSound
<1>6. PICK p, secret, late : p = q.of /\ secret = q.secret /\ late = q.late
      OBVIOUS
<1>7. p \in cast /\ secret \in 0 .. MaxSecrets /\ late \in BOOLEAN
      BY <1>1, <1>2, <1>5, <1>6, RequestRows DEF LoggingIn, Request
<1>8. CreateSession(s, p, secret, late)
      BY <1>3, <1>6
<1>9. Opening(s, p, secret, late)
      BY <1>4, <1>7, <1>8, SessionCreated
<1>10. p \in Principals
       BY <1>1, <1>7, CastsArePrincipals DEF TypeOK
<1>11. requests' \in [Requests -> Request]
       BY <1>1, <1>3, <1>6, <1>10, RequestRows DEF TypeOK
<1>12. TypeOK'
       BY <1>1, <1>4, <1>9, <1>11, SessionTypes DEF Opening
<1>13. \A i \in ChallengeIds : ChallengeSound(i)'
       BY <1>4 DEF ChallengeSound, IInv
<1>14. \A x \in Principals : Activates(x)
       BY <1>4 DEF Activates
<1>15. ~late => /\ profiles'[p].status = "ACTIVE"
                /\ ~secrets[p].restored => secret = secrets[p].issued
       BY <1>4, <1>5, <1>6 DEF LoggingIn
<1>16. requests' = [requests EXCEPT ![r] = SignFor(p, s)]
       BY <1>3, <1>6
<1> QED
    BY <1>4, <1>7, <1>8, <1>12, <1>13, <1>14, <1>15, <1>16, OpeningStep

LEMMA ChallengeRows ==
    ASSUME TypeOK, NEW i \in ChallengeIds
    PROVE  challenges[i] \in Challenge
BY DEF TypeOK

LEMMA VerifyOtpStep ==
    ASSUME IInv, NEW r \in Requests, NEW i \in ChallengeIds, NEW s \in SessionIds,
           VerifyOtp(r, i, s)
    PROVE  IInv'
<1>1. TypeOK /\ ChallengeSound(i)
      BY DEF IInv
<1>2. PICK p : p = challenges[i].of
      OBVIOUS
<1>3. /\ challenges[i].state = "OPEN"
      /\ profiles' = [profiles EXCEPT ![p].status = "ACTIVE"]
      /\ CreateSession(s, p, 0, FALSE)
      /\ challenges' = [challenges EXCEPT ![i].state = "CONSUMED"]
      /\ requests' = [requests EXCEPT ![r] = SignFor(p, s)]
      /\ UNCHANGED <<cast, secrets, activeCities, changes, begun>>
      BY <1>2 DEF VerifyOtp, Becomes
<1>4. p \in cast \cap Customers /\ p \in Principals
      BY <1>1, <1>2, <1>3, CastsArePrincipals DEF ChallengeSound, TypeOK
<1>5. 0 \in 0 .. MaxSecrets
      BY Bounds
<1>6. Opening(s, p, 0, FALSE)
      BY <1>3, <1>4, <1>5, SessionCreated
<1>7. profiles' \in [Principals -> Profile] /\ profiles'[p].status = "ACTIVE"
   <2>1. profiles[p] \in Profile
         BY <1>1, <1>4, ProfileRows
   <2>2. [profiles[p] EXCEPT !.status = "ACTIVE"] \in Profile
         BY <2>1 DEF Profile
   <2>3. profiles' = [profiles EXCEPT ![p] = [profiles[p] EXCEPT !.status = "ACTIVE"]]
         BY <1>3
   <2> QED
       BY <1>1, <1>4, <2>1, <2>2, <2>3 DEF TypeOK, Profile
<1>8. challenges' \in [ChallengeIds -> Challenge]
   <2>1. [challenges[i] EXCEPT !.state = "CONSUMED"] \in Challenge
         BY <1>1, ChallengeRows DEF Challenge
   <2>2. challenges' = [challenges EXCEPT ![i] = [challenges[i] EXCEPT !.state = "CONSUMED"]]
         BY <1>3
   <2> QED
       BY <1>1, <2>1, <2>2 DEF TypeOK
<1>9. requests' \in [Requests -> Request]
      BY <1>1, <1>3, <1>4, RequestRows DEF TypeOK
<1>10. TypeOK'
       BY <1>1, <1>3, <1>6, <1>7, <1>8, <1>9 DEF TypeOK, Opening
<1>11. ASSUME NEW j \in ChallengeIds
       PROVE  ChallengeSound(j)'
   <2>1. ChallengeSound(j)
         BY DEF IInv
   <2>2. challenges[i] \in Challenge
         BY <1>1, ChallengeRows
   <2>3. CASE j = i
      <3>1. challenges'[j].state = "CONSUMED"
            BY <1>1, <1>3, <2>2, <2>3 DEF TypeOK, Challenge
      <3> QED
          BY <3>1 DEF ChallengeSound
   <2>4. CASE j # i
      <3>1. challenges'[j] = challenges[j]
            BY <1>1, <1>3, <2>4 DEF TypeOK
      <3> QED
          BY <1>3, <2>1, <3>1 DEF ChallengeSound
   <2> QED
       BY <2>3, <2>4
<1>12. \A q \in Principals : Activates(q)
       BY <1>1, <1>3, <1>4 DEF Activates, TypeOK
<1>13. secrets[p].issued = 0
       BY <1>4 DEF IInv, SecretSound
<1>14. UNCHANGED <<cast, secrets, activeCities, changes>>
       BY <1>3
<1>15. p \in cast /\ requests' = [requests EXCEPT ![r] = SignFor(p, s)]
       BY <1>3, <1>4
<1> QED
    BY <1>3, <1>5, <1>7, <1>10, <1>11, <1>12, <1>13, <1>14, <1>15, OpeningStep

----------------------------------------------------------------------------
(* The other steps of a request. *)

LEMMA VerifyStep ==
    ASSUME IInv, NEW r \in Requests, NEW p \in Principals, Verify(r, p)
    PROVE  IInv'
<1>1. TypeOK /\ SecretSound(p) /\ profiles[p].status = "ACTIVE" /\ p \in cast
      BY DEF IInv, Verify
<1>2. PICK q : q = [NoRequest EXCEPT !.step = "verified", !.of = p, !.secret = secrets[p].stored]
      OBVIOUS
<1>3. q.step = "verified" /\ q.of = p /\ q.secret = secrets[p].stored /\ q.session = 0
      BY <1>2 DEF NoRequest
<1>4. q \in Request
      BY <1>1, <1>2, RequestRows, ProfileRows DEF Request, Secret
<1>5. requests' = [requests EXCEPT ![r] = q]
      BY <1>2 DEF Verify, Becomes
<1>6. requests' \in [Requests -> Request]
      BY <1>1, <1>4, <1>5 DEF TypeOK
<1>7. UNCHANGED <<cast, profiles, secrets, sessions, challenges, activeCities, changes, begun>>
      BY DEF Verify
<1>8. TypeOK'
      BY <1>1, <1>6, <1>7 DEF TypeOK
<1>9. RequestSound(r)'
   <2>1. LoggingIn(q)'
         BY <1>1, <1>3, <1>7 DEF LoggingIn, SecretSound
   <2>2. requests'[r] = q
         BY <1>1, <1>5 DEF TypeOK
   <2> QED
       BY <1>3, <2>1, <2>2 DEF RequestSound, LoggingIn
<1>10. \A o \in Requests : requests'[o] = requests[o] \/ RequestSound(o)'
       BY <1>1, <1>5, <1>9 DEF TypeOK
<1> QED
    BY <1>7, <1>8, <1>10, SessionsStay, QuietSessions

LEMMA ActAsStep ==
    ASSUME IInv, NEW r \in Requests, NEW s \in SessionIds, NEW city \in Cities,
           ActAs(r, s, city)
    PROVE  IInv'
<1>1. PICK p : p = sessions[s].of
      OBVIOUS
<1>2. /\ TypeOK /\ SessionSound(s) /\ ClaimsFollowScope /\ DisabledAreOut
      /\ p \in Admins /\ sessions[s].state = "LIVE" /\ city \in sessions[s].claims
      /\ profiles[p].status = "ACTIVE"
      BY <1>1 DEF IInv, ActAs, Authentic
<1>3. p \in cast /\ p \in Principals
      BY <1>1, <1>2, CastsArePrincipals DEF SessionSound, TypeOK
<1>4. PICK late : late = (sessions[s].late \/ profiles[p].late)
      OBVIOUS
<1>5. late \in BOOLEAN
      BY <1>4
<1>6. DEFINE q == [NoRequest EXCEPT !.step = "acting", !.of = p, !.scope = city, !.late = late]
<1>7. q.step = "acting" /\ q.of = p /\ q.scope = city /\ q.late = late /\ q.session = 0
      BY DEF NoRequest
<1>8. q \in Request
      BY <1>2, <1>3, <1>5, RequestRows DEF Request
<1>9. requests' = [requests EXCEPT ![r] = q]
      BY <1>1, <1>4 DEF ActAs, Becomes
<1> HIDE DEF q
<1>10. requests' \in [Requests -> Request]
       BY <1>2, <1>8, <1>9 DEF TypeOK
<1>11. UNCHANGED <<cast, profiles, secrets, sessions, challenges, activeCities, changes, begun>>
       BY DEF ActAs
<1>12. TypeOK'
       BY <1>2, <1>10, <1>11 DEF TypeOK
<1>13. ~late => sessions[s].claims = {profiles[p].scope} /\ ~profiles[p].late
       BY <1>1, <1>2, <1>4 DEF ClaimsFollowScope
<1>14. RequestSound(r)'
   <2>1. Acting(q)'
         BY <1>2, <1>3, <1>7, <1>11, <1>13 DEF Acting
   <2>2. requests'[r] = q
         BY <1>2, <1>9 DEF TypeOK
   <2> QED
       BY <1>7, <2>1, <2>2 DEF RequestSound, Acting
<1>15. \A o \in Requests : requests'[o] = requests[o] \/ RequestSound(o)'
       BY <1>2, <1>9, <1>14 DEF TypeOK
<1> QED
    BY <1>11, <1>12, <1>15, SessionsStay, QuietSessions

LEMMA RehashStep ==
    ASSUME IInv, NEW r \in Requests, Rehash(r)
    PROVE  IInv'
<1>1. PICK p : p = requests[r].of
      OBVIOUS
<1>2. TypeOK /\ RequestSound(r) /\ requests[r].step = "verified" /\ requests[r] \in Request
      BY RequestRows DEF IInv, Rehash
<1>3. LoggingIn(requests[r])
      BY <1>2 DEF RequestSound
<1>4. p \in cast /\ p \in Principals /\ p \in Staff \cup Merchants /\ SecretSound(p)
      BY <1>1, <1>2, <1>3, CastsArePrincipals DEF LoggingIn, TypeOK, Rehash, IInv
<1>5. p \notin Customers
      BY <1>4, OneApplication
<1>6. PICK row : row = [secrets[p] EXCEPT !.stored = requests[r].secret,
                                          !.restored = @ \/ requests[r].late]
      OBVIOUS
<1>7. secrets[p] \in Secret /\ requests[r].secret \in 0 .. MaxSecrets /\ requests[r].late \in BOOLEAN
      BY <1>2, <1>4, ProfileRows DEF Request
<1>8. /\ row \in Secret /\ row.issued = secrets[p].issued /\ row.stored = requests[r].secret
      /\ row.restored = (secrets[p].restored \/ requests[r].late)
      BY <1>6, <1>7 DEF Secret
<1>9. secrets' = [secrets EXCEPT ![p] = row]
   <2>1. secrets' = [secrets EXCEPT ![p].stored = requests[r].secret,
                                    ![p].restored = @ \/ requests[r].late]
         BY <1>1 DEF Rehash
   <2> QED
       BY <1>2, <1>4, <1>6, <2>1 DEF TypeOK
<1>10. secrets' \in [Principals -> Secret] /\ secrets'[p] = row
       BY <1>2, <1>4, <1>8, <1>9 DEF TypeOK
<1>11. UNCHANGED <<cast, profiles, sessions, challenges, activeCities, changes, begun>>
       BY DEF Rehash
<1>12. PICK q : q = [requests[r] EXCEPT !.step = "hashed"]
       OBVIOUS
<1>13. /\ q \in Request /\ q.step = "hashed" /\ q.of = p /\ q.secret = requests[r].secret
       /\ q.late = requests[r].late /\ q.session = requests[r].session
       BY <1>1, <1>2, <1>12 DEF Request
<1>14. requests' = [requests EXCEPT ![r] = q]
       BY <1>2, <1>12 DEF Rehash, TypeOK
<1>15. requests' \in [Requests -> Request]
       BY <1>2, <1>13, <1>14 DEF TypeOK
<1>16. TypeOK'
       BY <1>2, <1>10, <1>11, <1>15 DEF TypeOK
<1>17. ~row.restored => row.stored = row.issued
       BY <1>1, <1>3, <1>8 DEF LoggingIn
<1>18. SecretSound(p)'
       BY <1>5, <1>10, <1>17 DEF SecretSound
<1>19. \A o \in Principals : secrets'[o] = secrets[o] \/ Restores(o)
   <2>1. Restores(p)
         BY <1>7, <1>8, <1>10, <1>18 DEF Restores
   <2> QED
       BY <1>2, <1>9, <2>1 DEF TypeOK
<1>20. RequestSound(r)'
   <2>1. LoggingIn(q)'
      <3>1. q.of \in cast' /\ q.session = 0
            BY <1>3, <1>4, <1>11, <1>13 DEF LoggingIn
      <3>2. ~q.late => profiles'[q.of].status = "ACTIVE"
            BY <1>1, <1>3, <1>11, <1>13 DEF LoggingIn
      <3>3. ~secrets'[q.of].restored => q.secret = secrets'[q.of].issued
            BY <1>8, <1>10, <1>13, <1>17
      <3> QED
          BY <3>1, <3>2, <3>3 DEF LoggingIn
   <2>2. requests'[r] = q
         BY <1>2, <1>14 DEF TypeOK
   <2> QED
       BY <1>13, <2>1, <2>2 DEF RequestSound, LoggingIn
<1>21. \A o \in Requests : requests'[o] = requests[o] \/ RequestSound(o)'
       BY <1>2, <1>14, <1>20 DEF TypeOK
<1>22. QuietStep
       BY <1>11, <1>19, <1>21, SessionsStay DEF QuietStep
<1> QED
    BY <1>16, <1>22, QuietSteps

LEMMA SignStep ==
    ASSUME IInv, NEW r \in Requests, Sign(r)
    PROVE  IInv'
<1>1. PICK p, t : p = requests[r].of /\ t = requests[r].session
      OBVIOUS
<1>2. TypeOK /\ RequestSound(r) /\ requests[r].step = "created" /\ cast \subseteq Principals
      BY CastsArePrincipals DEF IInv, Sign, TypeOK
<1>3. t \in SessionIds /\ sessions[t].of = p /\ sessions[t] \in Session /\ SessionSound(t)
      BY <1>1, <1>2, SessionRows DEF RequestSound, IInv
<1>4. /\ UNCHANGED <<cast, profiles, secrets, challenges, activeCities, changes, begun>>
      /\ requests' = [requests EXCEPT ![r] = NoRequest]
      BY DEF Sign, Becomes
<1>5. requests' \in [Requests -> Request]
      BY <1>2, <1>4, RequestRows DEF TypeOK
<1>6. \A o \in Requests : requests'[o] = requests[o] \/ RequestSound(o)'
   <2>1. requests'[r].step = "idle"
         BY <1>2, <1>4 DEF TypeOK, NoRequest
   <2> QED
       BY <1>2, <1>4, <2>1 DEF TypeOK, RequestSound
<1>7. CASE sessions' = sessions
   <2>1. TypeOK'
         BY <1>2, <1>4, <1>5, <1>7, SessionTypes DEF TypeOK
   <2> QED
       BY <1>4, <1>6, <1>7, <2>1, SessionsStay, QuietSessions
<1>8. CASE sessions' # sessions
   <2>1. /\ p \in Staff /\ Trusted(p) /\ sessions[t].state = "LIVE"
         /\ sessions' = [sessions EXCEPT ![t].claims = @ \cup {profiles[p].scope}]
         BY <1>1, <1>8 DEF Sign
   <2>2. profiles[p].scope \in activeCities /\ activeCities \subseteq Cities
         BY <1>2, <2>1 DEF Trusted, TypeOK
   <2>3. PICK row : row = [sessions[t] EXCEPT !.claims = @ \cup {profiles[p].scope}]
         OBVIOUS
   <2>4. /\ row \in Session /\ row.of = p /\ row.state = "LIVE" /\ row.reused = sessions[t].reused
         /\ row.secret = sessions[t].secret /\ row.late = sessions[t].late
         /\ row.claims = sessions[t].claims \cup {profiles[p].scope}
         BY <1>3, <2>1, <2>2, <2>3 DEF Session
   <2>5. sessions' = [sessions EXCEPT ![t] = row]
         BY <1>2, <1>3, <2>1, <2>3 DEF TypeOK
   <2>6. sessions' \in [SessionIds -> Session] /\ sessions'[t] = row
             /\ \A s \in SessionIds : s # t => sessions'[s] = sessions[s]
         BY <1>2, <1>3, <2>4, <2>5 DEF TypeOK
   <2>7. TypeOK'
         BY <1>2, <1>4, <1>5, <2>6, SessionTypes
   <2>8. \A s \in SessionIds :
             /\ sessions'[s].of = sessions[s].of /\ sessions'[s].state = sessions[s].state
             /\ sessions'[s].reused = sessions[s].reused
             /\ sessions'[s].secret = sessions[s].secret /\ sessions'[s].late = sessions[s].late
         BY <1>3, <2>1, <2>4, <2>6
   <2>9. ASSUME NEW P
         PROVE  Open(P)' = Open(P)
         BY <2>8 DEF Open
   <2>10. WithinLimit'
      <3>1. SUFFICES ASSUME NEW o \in Principals
                     PROVE  Cardinality(Open({o}))' <= Limit(o)
            BY DEF WithinLimit, Limit
      <3>2. Open({o})' \subseteq Open({o})
            BY <2>9
      <3> QED
          BY <3>2, FewerOpen DEF IInv, WithinLimit
   <2>11. InTurn' /\ \A s \in SessionIds : SessionSound(s)'
      <3>1. InTurn'
            BY <2>8 DEF InTurn, IInv
      <3>2. ASSUME NEW s \in SessionIds
            PROVE  SessionSound(s)'
         <4>1. CASE s = t
            <5>1. sessions'[s] = row /\ p \in cast
                  BY <1>3, <2>1, <2>6, <4>1 DEF SessionSound
            <5>2. sessions'[s].of = p /\ sessions'[s].state = "LIVE"
                  BY <2>4, <5>1
            <5> QED
                BY <1>4, <2>1, <5>1, <5>2 DEF SessionSound
         <4>2. CASE s # t
               BY <1>4, <2>6, <4>2 DEF SessionSound, IInv
         <4> QED
             BY <4>1, <4>2
      <3> QED
          BY <3>1, <3>2
   <2>12. ReuseIsFatal'
      <3>1. SUFFICES ASSUME NEW s \in SessionIds, sessions'[s].reused,
                            NEW o, o = sessions[s].of
                     PROVE  /\ sessions'[s].state = "REVOKED"
                            /\ o \in Staff => \A u \in Open({o})' : u > s
            BY <2>8 DEF ReuseIsFatal
      <3>2. Open({o})' = Open({o})
            BY <2>9
      <3> QED
          BY <2>8, <3>1, <3>2 DEF ReuseIsFatal, IInv
   <2>13. /\ \A i \in ChallengeIds : ChallengeSound(i)'
          /\ \A o \in Principals : SecretSound(o)' /\ ProfileSound(o)'
          /\ \A x, y \in Changes : x # y => Apart(x, y)'
          BY <1>4 DEF ChallengeSound, SecretSound, ProfileSound, Follows, Apart, IInv
   <2>14. ASSUME NEW o \in Requests
          PROVE  RequestSound(o)'
          BY <1>4, <1>6, <2>8 DEF RequestSound, LoggingIn, Acting, IInv
   <2>15. ASSUME NEW x \in Changes
          PROVE  ChangeSound(x)'
      <3>1. ChangeSound(x) /\ changes[x].doomed \subseteq SessionIds
            BY <1>2, ChangeRows DEF IInv
      <3>2. \A s \in changes[x].doomed : sessions'[s].state # "NONE"
            BY <2>8, <3>1 DEF ChangeSound
      <3> QED
          BY <1>4, <3>1, <3>2 DEF ChangeSound, RowSound, EmployeeSound
   <2>16. DisabledAreOut' /\ OldSecretsAreOut'
          BY <1>4, <2>8 DEF DisabledAreOut, OldSecretsAreOut, IInv
   <2>17. ClaimsFollowScope'
      <3>1. ClaimsFollowScope
            BY DEF IInv
      <3>2. SUFFICES ASSUME NEW s \in SessionIds, sessions'[s].claims # {}, ~sessions'[s].late,
                            ~profiles[sessions'[s].of].late
                     PROVE  /\ sessions'[s].claims = {profiles[sessions'[s].of].scope}
                            /\ profiles[sessions'[s].of].scope \in activeCities
            BY <1>4 DEF ClaimsFollowScope
      <3>3. CASE s = t
         <4>1. sessions[t].claims = {} \/ sessions[t].claims = {profiles[p].scope}
               BY <1>3, <2>4, <2>6, <3>1, <3>2, <3>3 DEF ClaimsFollowScope
         <4> QED
             BY <2>2, <2>4, <2>6, <3>3, <4>1
      <3>4. CASE s # t
            BY <2>6, <3>1, <3>2, <3>4 DEF ClaimsFollowScope
      <3> QED
          BY <3>3, <3>4
   <2> QED
       BY <2>7, <2>10, <2>11, <2>12, <2>13, <2>14, <2>15, <2>16, <2>17 DEF IInv
<1> QED
    BY <1>7, <1>8

----------------------------------------------------------------------------
(* Codes, and cities that reopen. *)

\* A step of the challenges alone.
LEMMA ChallengeSteps ==
    ASSUME IInv, challenges' \in [ChallengeIds -> Challenge],
           \A i \in ChallengeIds : challenges'[i] = challenges[i] \/ ChallengeSound(i)',
           UNCHANGED <<cast, profiles, secrets, sessions, activeCities, requests, changes, begun>>
    PROVE  IInv'
<1>1. TypeOK'
      BY DEF TypeOK, IInv
<1>2. QuietStep
      BY SessionsStay DEF QuietStep
<1> QED
    BY <1>1, <1>2, QuietSteps

LEMMA RequestOtpStep ==
    ASSUME IInv, NEW i \in ChallengeIds, NEW p \in Customers, RequestOtp(i, p)
    PROVE  IInv'
<1>1. TypeOK /\ p \in cast /\ p \in Principals
      BY DEF IInv, RequestOtp, Principals
<1>2. UNCHANGED <<cast, profiles, secrets, sessions, activeCities, requests, changes, begun>>
      BY DEF RequestOtp
<1>3. ASSUME NEW j \in ChallengeIds
      PROVE  /\ challenges'[j] \in Challenge
             /\ challenges'[j] = challenges[j] \/ ChallengeSound(j)'
   <2>1. challenges[j] \in Challenge
         BY <1>1, ChallengeRows
   <2>2. CASE j = i
      <3>1. challenges'[j] = [of |-> p, state |-> "OPEN", wrong |-> 0]
            BY <2>2 DEF RequestOtp
      <3>2. challenges'[j] \in Challenge
            BY <3>1, Bounds DEF Challenge
      <3> QED
          BY <1>1, <1>2, <3>1, <3>2, Bounds DEF ChallengeSound
   <2>3. CASE j # i /\ challenges[j].of = p /\ challenges[j].state = "OPEN"
      <3>1. challenges'[j] = [challenges[j] EXCEPT !.state = "INVALID"]
            BY <2>3 DEF RequestOtp
      <3>2. challenges'[j] \in Challenge /\ challenges'[j].state = "INVALID"
            BY <2>1, <3>1 DEF Challenge
      <3> QED
          BY <3>2 DEF ChallengeSound
   <2>4. CASE j # i /\ ~(challenges[j].of = p /\ challenges[j].state = "OPEN")
      <3>1. challenges'[j] = challenges[j]
            BY <2>4 DEF RequestOtp
      <3> QED
          BY <2>1, <3>1
   <2> QED
       BY <2>2, <2>3, <2>4
<1>4. challenges' \in [ChallengeIds -> Challenge]
   <2>1. challenges' = [j \in ChallengeIds |-> challenges'[j]]
         BY DEF RequestOtp
   <2> QED
       BY <1>3, <2>1
<1> QED
    BY <1>2, <1>3, <1>4, ChallengeSteps

LEMMA ChallengeEndsStep ==
    ASSUME IInv, NEW i \in ChallengeIds, ChallengeEnds(i) \/ WrongOtp(i)
    PROVE  IInv'
<1>1. TypeOK /\ ChallengeSound(i) /\ challenges[i] \in Challenge /\ challenges[i].state = "OPEN"
      BY ChallengeRows DEF IInv, ChallengeEnds, WrongOtp
<1>2. UNCHANGED <<cast, profiles, secrets, sessions, activeCities, requests, changes, begun>>
      BY DEF ChallengeEnds, WrongOtp
<1>3. PICK row \in Challenge : /\ challenges' = [challenges EXCEPT ![i] = row]
                               /\ row.of = challenges[i].of
                               /\ row.state = "OPEN" => row.wrong < MaxAttempts
   <2>1. CASE ChallengeEnds(i)
      <3>1. PICK row : row = [challenges[i] EXCEPT !.state = "INVALID"]
            OBVIOUS
      <3>2. challenges' = [challenges EXCEPT ![i] = row]
            BY <1>1, <2>1, <3>1 DEF ChallengeEnds, TypeOK
      <3>3. row \in Challenge /\ row.of = challenges[i].of /\ row.state # "OPEN"
            BY <1>1, <3>1 DEF Challenge
      <3> QED
          BY <3>2, <3>3
   <2>2. CASE WrongOtp(i)
      <3>1. PICK row : row = [challenges[i] EXCEPT !.wrong = @ + 1,
                    !.state = IF challenges[i].wrong + 1 >= MaxAttempts THEN "INVALID" ELSE @]
            OBVIOUS
      <3>2. challenges' = [challenges EXCEPT ![i] = row]
            BY <1>1, <2>2, <3>1 DEF WrongOtp, TypeOK
      <3>3. challenges[i].wrong \in Nat /\ challenges[i].wrong < MaxAttempts /\ MaxAttempts \in Nat
            BY <1>1, Bounds DEF ChallengeSound, Challenge
      <3>4. PICK n \in 0 .. MaxAttempts : n = challenges[i].wrong + 1
            BY <3>3
      <3>5. PICK state \in {"OPEN", "INVALID"} :
                state = IF n >= MaxAttempts THEN "INVALID" ELSE "OPEN"
            OBVIOUS
      <3>6. row = [challenges[i] EXCEPT !.wrong = n, !.state = state]
            BY <1>1, <3>1, <3>4, <3>5
      <3>7. row \in Challenge /\ row.of = challenges[i].of /\ row.wrong = n /\ row.state = state
            BY <1>1, <3>6 DEF Challenge
      <3>8. state = "OPEN" => n < MaxAttempts
            BY <3>3, <3>5
      <3> QED
          BY <3>2, <3>7, <3>8
   <2> QED
       BY <2>1, <2>2
<1>4. challenges' \in [ChallengeIds -> Challenge] /\ challenges'[i] = row
          /\ \A j \in ChallengeIds : j # i => challenges'[j] = challenges[j]
      BY <1>1, <1>3 DEF TypeOK
<1>5. ChallengeSound(i)'
      BY <1>1, <1>2, <1>3, <1>4 DEF ChallengeSound
<1> QED
    BY <1>2, <1>4, <1>5, ChallengeSteps

LEMMA ReopenStep ==
    ASSUME IInv, NEW city \in Cities, Reopen(city)
    PROVE  IInv'
<1>1. UNCHANGED <<cast, profiles, secrets, sessions, challenges, requests, changes, begun>>
          /\ activeCities' = activeCities \cup {city}
      BY DEF Reopen
<1>2. TypeOK'
      BY <1>1 DEF TypeOK, IInv
<1>3. QuietStep
      BY <1>1, SessionsStay DEF QuietStep
<1> QED
    BY <1>2, <1>3, QuietSteps

----------------------------------------------------------------------------
(* A transaction writes: what it locks, and what it will write. *)

Written(writes, secretOf, closing, of) ==
    [open |-> TRUE, writes |-> writes, secretOf |-> secretOf, closing |-> closing,
     of |-> of, doomed |-> Open(of)]

\* What it is about to write is what ChangeSound asks for.
SoundlyWritten(c) ==
    /\ \A p \in DOMAIN c.writes : RowSound(c, p)
    /\ \A e \in DOMAIN c.writes \cap Employees : EmployeeSound(c, e)
    /\ c.secretOf # None =>
           c.secretOf \in c.of \ Customers /\ profiles[c.secretOf].status # "ABSENT"
    /\ c.closing # None =>
           /\ DOMAIN c.writes = {} /\ c.secretOf = None
           /\ \A a \in Admins : profiles[a].scope = c.closing /\ ~profiles[a].late => a \in c.of

\* What a request does to itself as it begins a transaction.
Requested ==
    /\ requests' \in [Requests -> Request]
    /\ \A r \in Requests : requests'[r] = requests[r] \/ requests'[r] = NoRequest

LEMMA BeginStep ==
    ASSUME IInv, NEW x \in Changes, NEW P \in SUBSET Principals, NEW writes \in [P -> Profile],
           NEW secretOf \in Principals \cup {None}, NEW closing \in Cities \cup {None},
           NEW of \in SUBSET cast, Begin(x, writes, secretOf, closing, of),
           SoundlyWritten(Written(writes, secretOf, closing, of)), Requested
    PROVE  IInv'
<1>1. TypeOK /\ cast \subseteq Principals
      BY CastsArePrincipals DEF IInv, TypeOK
<1>2. PICK c : c = Written(writes, secretOf, closing, of)
      OBVIOUS
<1>3. /\ c.open = TRUE /\ c.writes = writes /\ c.secretOf = secretOf /\ c.closing = closing
      /\ c.of = of /\ c.doomed = Open(of) /\ DOMAIN c.writes = P
      BY <1>2 DEF Written
<1>4. c \in Change(P)
   <2>1. Open(of) \subseteq SessionIds
         BY DEF Open
   <2>2. of \in SUBSET Principals
         BY <1>1
   <2> QED
       BY <1>2, <2>1, <2>2 DEF Written, Change
<1>5. /\ changes' = [changes EXCEPT ![x] = c] /\ begun' = begun + 1
      /\ \A p \in P : p \in cast /\ profiles[p].status # "ABSENT" /\ ~Locked(p)
      /\ secretOf # None => ~SecretLocked(secretOf) /\ secrets[secretOf].issued < MaxSecrets
      /\ UNCHANGED <<cast, profiles, secrets, sessions, challenges, activeCities>>
      BY <1>2 DEF Begin, Written
<1>6. changes'[x] = c /\ \A y \in Changes : y # x => changes'[y] = changes[y]
      BY <1>1, <1>5 DEF TypeOK
<1>7. TypeOK'
   <2>1. changes' \in [Changes -> {changes'[y] : y \in Changes}]
         BY <1>1, <1>5 DEF TypeOK
   <2>2. ASSUME NEW y \in Changes
         PROVE  DOMAIN changes'[y].writes \subseteq Principals
                    /\ changes'[y] \in Change(DOMAIN changes'[y].writes)
      <3>1. CASE y = x
            BY <1>3, <1>4, <1>6, <3>1
      <3>2. CASE y # x
            BY <1>1, <1>6, <3>2 DEF TypeOK
      <3> QED
          BY <3>1, <3>2
   <2>3. begun' \in Nat
         BY <1>1, <1>5 DEF TypeOK
   <2> QED
       BY <1>1, <1>5, <2>1, <2>2, <2>3 DEF TypeOK, Change, Requested
<1>8. ASSUME NEW r \in Requests
      PROVE  requests'[r] = requests[r] \/ RequestSound(r)'
   <2>1. CASE requests'[r] = NoRequest
      <3>1. requests'[r].step = "idle"
            BY <2>1 DEF NoRequest
      <3> QED
          BY <3>1 DEF RequestSound
   <2> QED
       BY <2>1 DEF Requested
<1>9. SoundlyWritten(c)
      BY <1>2
<1>10. ChangeSound(x)'
   <2>1. \A p \in DOMAIN c.writes : RowSound(c, p)'
         BY <1>5, <1>9 DEF SoundlyWritten, RowSound
   <2>2. \A e \in DOMAIN c.writes \cap Employees : EmployeeSound(c, e)'
         BY <1>5, <1>9 DEF SoundlyWritten, EmployeeSound
   <2>3. c.secretOf # None => /\ c.secretOf \in c.of \ Customers
                              /\ profiles'[c.secretOf].status # "ABSENT"
                              /\ secrets'[c.secretOf].issued < MaxSecrets
         BY <1>3, <1>5, <1>9 DEF SoundlyWritten
   <2>4. c.closing # None =>
             /\ DOMAIN c.writes = {} /\ c.secretOf = None
             /\ \A a \in Admins : profiles'[a].scope = c.closing /\ ~profiles'[a].late => a \in c.of
         BY <1>5, <1>9 DEF SoundlyWritten
   <2>5. \A s \in c.doomed : sessions'[s].state # "NONE"
         BY <1>3, <1>5 DEF Open
   <2>6. c.of \subseteq cast'
         BY <1>3, <1>5
   <2> QED
       BY <1>3, <1>6, <2>1, <2>2, <2>3, <2>4, <2>5, <2>6 DEF ChangeSound
<1>11. ASSUME NEW y \in Changes, NEW z \in Changes, y # z
       PROVE  Apart(y, z)'
   <2>1. \A w \in Changes : /\ DOMAIN changes[w].writes \cap P = {}
                            /\ secretOf # None => changes[w].secretOf # secretOf
         BY <1>5 DEF Locked, SecretLocked
   <2>2. Apart(y, z)
         BY <1>11 DEF IInv
   <2>3. CASE y # x /\ z # x
         BY <1>6, <2>2, <2>3 DEF Apart
   <2>4. CASE y = x
         BY <1>3, <1>6, <1>11, <2>1, <2>4 DEF Apart
   <2>5. CASE z = x
         BY <1>3, <1>6, <1>11, <2>1, <2>5 DEF Apart
   <2> QED
       BY <2>3, <2>4, <2>5
<1>12. QuietStep
       BY <1>5, <1>6, <1>8, <1>10, <1>11, SessionsStay DEF QuietStep
<1> QED
    BY <1>7, <1>12, QuietSteps

\* What is written of one account.
SoundRow(p, row, secretOf, of) ==
    /\ row \in Profile /\ row.status # "ABSENT" /\ row.manager = profiles[p].manager
    /\ p \in of \/ (profiles[p].status = "ACTIVE" => row.status = "ACTIVE")
    /\ p \in Staff => p \in of \/ row.scope = profiles[p].scope
    /\ p \in Admins => row.late = profiles[p].late
    /\ secretOf # None => /\ secretOf = p /\ p \in of
                          /\ row.status = profiles[p].status /\ row.scope = profiles[p].scope
    /\ p \in Employees =>
           /\ row.scope = profiles[p].scope
           /\ ~row.late /\ ~profiles[p].late /\ row.status = "ACTIVE"
                  => profiles[profiles[p].manager].status = "ACTIVE"

LEMMA BeginRowStep ==
    ASSUME IInv, NEW x \in Changes, NEW p \in Principals \ Customers, NEW row,
           NEW secretOf \in Principals \cup {None}, NEW of \in SUBSET {p},
           Begin(x, Row(p, row), secretOf, None, of), SoundRow(p, row, secretOf, of), Requested
    PROVE  IInv'
<1>1. PICK writes : writes = Row(p, row)
      OBVIOUS
<1>2. writes \in [{p} -> Profile] /\ DOMAIN writes = {p} /\ writes[p] = row
      BY <1>1 DEF Row, SoundRow
<1>3. Begin(x, writes, secretOf, None, of)
      BY <1>1
<1>4. p \in cast /\ profiles[p].status # "ABSENT"
      BY <1>2, <1>3 DEF Begin
<1>5. PICK c : c = Written(writes, secretOf, None, of)
      OBVIOUS
<1>6. c.writes = writes /\ c.secretOf = secretOf /\ c.closing = None /\ c.of = of
      BY <1>5 DEF Written
<1>7. RowSound(c, p)
      BY <1>2, <1>4, <1>6 DEF RowSound, SoundRow
<1>8. p \in Employees => EmployeeSound(c, p)
   <2>1. SUFFICES ASSUME p \in Employees
                  PROVE  EmployeeSound(c, p)
         OBVIOUS
   <2>2. profiles[p].manager \in Admins /\ p \notin Admins
         BY <1>4, <2>1, OneApplication DEF IInv, ProfileSound
   <2>3. profiles[p].manager \notin DOMAIN c.writes
         BY <1>2, <1>6, <2>2
   <2> QED
       BY <1>2, <1>6, <2>1, <2>3 DEF EmployeeSound, SoundRow
<1>9. secretOf # None => secretOf \in of \ Customers /\ profiles[secretOf].status # "ABSENT"
      BY <1>4 DEF SoundRow
<1>10. SoundlyWritten(c)
       BY <1>2, <1>6, <1>7, <1>8, <1>9 DEF SoundlyWritten
<1>11. {p} \in SUBSET Principals /\ of \in SUBSET cast /\ None \in Cities \cup {None}
       BY <1>4
<1> QED
    BY <1>2, <1>3, <1>5, <1>10, <1>11, BeginStep

LEMMA RequestsStay ==
    ASSUME IInv, requests' = requests
    PROVE  Requested
BY DEF Requested, IInv, TypeOK

\* A row that is locked is of an account that exists.
LEMMA RowExists ==
    ASSUME NEW x, NEW p, NEW row, NEW secretOf, NEW closing, NEW of,
           Begin(x, Row(p, row), secretOf, closing, of)
    PROVE  p \in cast /\ profiles[p].status # "ABSENT"
<1>1. PICK writes : writes = Row(p, row)
      OBVIOUS
<1>2. p \in DOMAIN writes
      BY <1>1 DEF Row
<1> QED
    BY <1>1, <1>2 DEF Begin

LEMMA Kinds ==
    ASSUME NEW p
    PROVE  /\ p \in Admins => p \in Principals \ Customers /\ p \in Staff /\ p \notin Employees
           /\ p \in Employees => p \in Principals \ Customers /\ p \in Staff /\ p \notin Admins
           /\ p \in Merchants \cup Drivers =>
                  p \in Principals \ Customers /\ p \notin Staff /\ p \notin Admins /\ p \notin Employees
BY OneApplication DEF Staff, Principals

LEMMA AsRow ==
    ASSUME TypeOK, NEW p \in Principals, NEW status \in Statuses,
           NEW scope \in Scopes \cup {None}
    PROVE  /\ As(p, status, scope) \in Profile
           /\ As(p, status, scope).status = status /\ As(p, status, scope).scope = scope
           /\ As(p, status, scope).manager = profiles[p].manager
           /\ As(p, status, scope).late = profiles[p].late
<1>1. profiles[p] \in Profile
      BY ProfileRows
<1> QED
    BY <1>1 DEF As, Profile, Statuses

\* Of one account a new secret alone.
LEMMA ResetSteps ==
    ASSUME IInv, NEW x \in Changes, NEW p \in Principals \ Customers,
           Begin(x, Row(p, profiles[p]), p, None, {p}), requests' = requests
    PROVE  IInv'
<1>1. TypeOK /\ profiles[p] \in Profile /\ profiles[p].status # "ABSENT" /\ p \in cast
      BY RowExists, ProfileRows DEF IInv
<1>2. PICK row : row = profiles[p]
      OBVIOUS
<1>3. Begin(x, Row(p, row), p, None, {p})
      BY <1>2
<1>4. p \in Employees =>
          (~profiles[p].late /\ profiles[p].status = "ACTIVE"
               => profiles[profiles[p].manager].status = "ACTIVE")
      BY <1>1 DEF IInv, ProfileSound, Follows
<1>5. SoundRow(p, row, p, {p})
      BY <1>1, <1>2, <1>4 DEF SoundRow
<1>6. Requested
      BY RequestsStay
<1> QED
    BY <1>3, <1>5, <1>6, BeginRowStep

LEMMA BeginResetSteps ==
    ASSUME IInv, NEW x \in Changes, NEW p \in Principals,
           \/ p \in Admins /\ BeginResetAdminPassword(x, p)
           \/ p \in Merchants /\ BeginResetMerchantPassword(x, p)
           \/ p \in Drivers /\ BeginResetAccessCode(x, p)
    PROVE  IInv'
<1>1. Begin(x, Row(p, profiles[p]), p, None, {p}) /\ requests' = requests
      BY DEF BeginResetAdminPassword, BeginResetMerchantPassword, BeginResetAccessCode
<1>2. p \notin Customers
      BY Kinds
<1> QED
    BY <1>1, <1>2, ResetSteps

LEMMA BeginUpdateMerchantStep ==
    ASSUME IInv, NEW x \in Changes, NEW m \in Merchants, NEW status \in Statuses,
           BeginUpdateMerchant(x, m, status)
    PROVE  IInv'
<1>1. TypeOK /\ m \in Principals \ Customers /\ m \notin Staff /\ m \notin Admins /\ m \notin Employees
      BY Kinds DEF IInv
<1>2. PICK row, of : /\ row = As(m, status, profiles[m].scope)
                     /\ of = IF status = "DISABLED" THEN {m} ELSE {}
      OBVIOUS
<1>3. Begin(x, Row(m, row), None, None, of) /\ requests' = requests
      BY <1>2 DEF BeginUpdateMerchant
<1>4. profiles[m].scope \in Scopes \cup {None}
      BY <1>1, ProfileRows
<1>5. row \in Profile /\ row.status = status /\ row.manager = profiles[m].manager
      BY <1>1, <1>2, <1>4, AsRow
<1>6. SoundRow(m, row, None, of)
      BY <1>1, <1>2, <1>5 DEF SoundRow, Statuses
<1>7. of \in SUBSET {m}
      BY <1>2
<1> QED
    BY <1>1, <1>3, <1>6, <1>7, RequestsStay, BeginRowStep

LEMMA BeginTransferStoreStep ==
    ASSUME IInv, NEW x \in Changes, NEW m \in Merchants, NEW store \in Stores,
           BeginTransferStore(x, m, store)
    PROVE  IInv'
<1>1. TypeOK /\ m \in Principals \ Customers /\ m \notin Staff /\ m \notin Admins /\ m \notin Employees
      BY Kinds DEF IInv
<1>2. PICK row : row = As(m, profiles[m].status, store)
      OBVIOUS
<1>3. Begin(x, Row(m, row), None, None, {m}) /\ requests' = requests
      BY <1>2 DEF BeginTransferStore
<1>4. profiles[m].status \in Statuses
      BY <1>1, <1>3, RowExists, ProfileRows DEF Statuses
<1>5. row \in Profile /\ row.status # "ABSENT" /\ row.manager = profiles[m].manager
      BY <1>1, <1>2, <1>4, AsRow DEF Scopes, Statuses
<1>6. SoundRow(m, row, None, {m})
      BY <1>1, <1>5 DEF SoundRow
<1> QED
    BY <1>1, <1>3, <1>6, RequestsStay, BeginRowStep

LEMMA BeginUpdateDriverStep ==
    ASSUME IInv, NEW x \in Changes, NEW d \in Drivers, NEW status \in Statuses,
           NEW city \in Cities, NEW phone \in BOOLEAN, BeginUpdateDriver(x, d, status, city, phone)
    PROVE  IInv'
<1>1. TypeOK /\ d \in Principals \ Customers /\ d \notin Staff /\ d \notin Admins /\ d \notin Employees
      BY Kinds DEF IInv
<1>2. requests' = requests
      BY DEF BeginUpdateDriver
<1>3. PICK row, of : /\ row = As(d, status, city)
                     /\ of = IF phone \/ status # profiles[d].status THEN {d} ELSE {}
      OBVIOUS
<1>4. Begin(x, Row(d, row), None, None, of)
      BY <1>3 DEF BeginUpdateDriver
<1>5. row \in Profile /\ row.status = status /\ row.manager = profiles[d].manager
      BY <1>1, <1>3, AsRow DEF Scopes
<1>6. SoundRow(d, row, None, of)
      BY <1>1, <1>3, <1>5 DEF SoundRow, Statuses
<1>7. of \in SUBSET {d}
      BY <1>3
<1> QED
    BY <1>1, <1>2, <1>4, <1>6, <1>7, RequestsStay, BeginRowStep

LEMMA BeginUpdateEmployeeStep ==
    ASSUME IInv, NEW x \in Changes, NEW r \in Requests, NEW e \in Employees,
           NEW status \in Statuses, BeginUpdateEmployee(x, r, e, status)
    PROVE  IInv'
<1>1. TypeOK /\ e \in Principals \ Customers /\ e \in Staff /\ e \notin Admins
      BY Kinds DEF IInv
<1>2. RequestSound(r) /\ requests[r].step = "acting" /\ profiles[e].manager = requests[r].of
      BY DEF IInv, BeginUpdateEmployee
<1>3. PICK late : late = requests[r].late
      OBVIOUS
<1>4. late \in BOOLEAN /\ (~late => profiles[profiles[e].manager].status = "ACTIVE")
      BY <1>1, <1>2, <1>3, RequestRows DEF RequestSound, Acting
<1>5. PICK as : as = As(e, status, profiles[e].scope)
      OBVIOUS
<1>6. /\ as \in Profile /\ as.status = status /\ as.scope = profiles[e].scope
      /\ as.manager = profiles[e].manager
      BY <1>1, <1>5, AsRow, ProfileRows
<1>7. PICK row, of : /\ row = [as EXCEPT !.late = @ \/ late]
                     /\ of = IF status = "DISABLED" THEN {e} ELSE {}
      OBVIOUS
<1>8. /\ row \in Profile /\ row.status = status /\ row.scope = profiles[e].scope
      /\ row.manager = profiles[e].manager /\ row.late = (as.late \/ late)
      BY <1>4, <1>6, <1>7 DEF Profile
<1>9. Begin(x, Row(e, row), None, None, of)
      BY <1>3, <1>5, <1>7 DEF BeginUpdateEmployee
<1>10. SoundRow(e, row, None, of)
   <2>1. ~row.late => profiles[profiles[e].manager].status = "ACTIVE"
         BY <1>4, <1>8
   <2> QED
       BY <1>1, <1>7, <1>8, <2>1 DEF SoundRow, Statuses
<1>11. Requested
   <2>1. requests' = [requests EXCEPT ![r] = NoRequest]
         BY DEF BeginUpdateEmployee, Becomes
   <2> QED
       BY <1>1, <2>1, RequestRows DEF Requested, TypeOK
<1>12. of \in SUBSET {e}
       BY <1>7
<1> QED
    BY <1>1, <1>9, <1>10, <1>11, <1>12, BeginRowStep

LEMMA NothingIsWritten == <<>> \in [{} -> Profile] /\ DOMAIN <<>> = {}
OBVIOUS

LEMMA BeginChangePasswordStep ==
    ASSUME IInv, NEW x \in Changes, NEW m \in Merchants, NEW s \in SessionIds,
           BeginChangePassword(x, m, s)
    PROVE  IInv'
<1>1. TypeOK /\ SessionSound(s) /\ m \in Principals \ Customers
      BY Kinds DEF IInv
<1>2. /\ sessions[s].of = m /\ sessions[s].state = "LIVE" /\ profiles[m].status = "ACTIVE"
      /\ Begin(x, <<>>, m, None, {m}) /\ requests' = requests
      BY DEF BeginChangePassword, Authentic
<1>3. m \in cast
      BY <1>1, <1>2 DEF SessionSound
<1>4. PICK c : c = Written(<<>>, m, None, {m})
      OBVIOUS
<1>5. /\ DOMAIN c.writes = {} /\ c.secretOf = m /\ c.of = {m} /\ c.closing = None
      BY <1>4, NothingIsWritten DEF Written
<1>6. SoundlyWritten(c)
      BY <1>1, <1>2, <1>5 DEF SoundlyWritten
<1>7. {} \in SUBSET Principals /\ {m} \in SUBSET cast
      BY <1>3
<1> QED
    BY <1>1, <1>2, <1>4, <1>6, <1>7, NothingIsWritten, RequestsStay, BeginStep

LEMMA BeginClosingStep ==
    ASSUME IInv, NEW x \in Changes, NEW city \in Cities, BeginClosing(x, city)
    PROVE  IInv'
<1>1. PICK admins, of : /\ admins = {a \in cast \cap Admins : profiles[a].scope = city}
                        /\ of = UNION {WithEmployees(a) : a \in admins}
      OBVIOUS
<1>2. Begin(x, <<>>, None, city, of) /\ requests' = requests
      BY <1>1 DEF BeginClosing
<1>3. of \in SUBSET cast /\ \A a \in admins : a \in of
      BY <1>1 DEF WithEmployees, Managed
<1>4. ASSUME NEW a \in Admins, profiles[a].scope = city
      PROVE  a \in of
   <2>1. a \in Principals
         BY Kinds
   <2>2. ProfileSound(a) /\ city # None
         BY <2>1, NoneIsNothing DEF IInv
   <2>3. a \in cast
         BY <1>4, <2>2 DEF ProfileSound
   <2> QED
       BY <1>1, <1>3, <1>4, <2>3
<1>5. PICK c : c = Written(<<>>, None, city, of)
      OBVIOUS
<1>6. DOMAIN c.writes = {} /\ c.secretOf = None /\ c.of = of /\ c.closing = city
      BY <1>5, NothingIsWritten DEF Written
<1>7. SoundlyWritten(c)
      BY <1>4, <1>6 DEF SoundlyWritten
<1>8. {} \in SUBSET Principals
      OBVIOUS
<1> QED
    BY <1>2, <1>3, <1>5, <1>7, <1>8, NothingIsWritten, RequestsStay, BeginStep

LEMMA BeginUpdateAdminStep ==
    ASSUME IInv, NEW x \in Changes, NEW a \in Admins, NEW status \in Statuses,
           NEW city \in Cities, BeginUpdateAdmin(x, a, status, city)
    PROVE  IInv'
<1>1. TypeOK /\ a \in Principals \ Customers /\ a \in Staff /\ a \notin Employees
      BY Kinds DEF IInv
<1>2. PICK disabled, moved : /\ disabled = (status = "DISABLED" /\ profiles[a].status # "DISABLED")
                             /\ moved = (city # profiles[a].scope)
      OBVIOUS
<1>3. PICK P : P = {a} \cup Managed(a)
      OBVIOUS
<1>4. PICK writes, of : /\ writes = AdminWritten(a, status, city)
                        /\ of = IF disabled \/ moved THEN WithEmployees(a) ELSE {}
      OBVIOUS
<1>5. Begin(x, writes, None, None, of) /\ requests' = requests
      BY <1>2, <1>4 DEF BeginUpdateAdmin
<1>6. DOMAIN writes = P
      BY <1>3, <1>4 DEF AdminWritten
<1>7. \A p \in P : p \in cast /\ profiles[p].status # "ABSENT"
      BY <1>5, <1>6 DEF Begin
<1>8. \A p \in P : p = a \/ (p \in Employees /\ profiles[p].manager = a)
      BY <1>3 DEF Managed
<1>9. P \in SUBSET Principals
      BY <1>1, <1>8, Kinds
<1>10. of \in SUBSET cast /\ (disabled \/ moved => of = P)
       BY <1>3, <1>4, <1>7 DEF WithEmployees
<1>11. ASSUME NEW p \in P
       PROVE  /\ writes[p] \in Profile /\ writes[p].manager = profiles[p].manager
              /\ writes[p].late = profiles[p].late
              /\ writes[p].status = IF p = a \/ disabled THEN status ELSE profiles[p].status
              /\ writes[p].scope = IF moved THEN city ELSE profiles[p].scope
   <2>1. PICK st, sc : /\ st = IF p = a \/ disabled THEN status ELSE profiles[p].status
                       /\ sc = IF moved THEN city ELSE profiles[p].scope
         OBVIOUS
   <2>2. writes[p] = As(p, st, sc)
         BY <1>2, <1>3, <1>4, <2>1 DEF AdminWritten
   <2>3. st \in Statuses /\ sc \in Scopes \cup {None} /\ p \in Principals
         BY <1>1, <1>7, <1>9, <2>1, ProfileRows DEF Statuses, Scopes
   <2> QED
       BY <1>1, <2>1, <2>2, <2>3, AsRow
<1>12. writes \in [P -> Profile]
   <2>1. writes = [p \in P |-> writes[p]]
         BY <1>3, <1>4 DEF AdminWritten
   <2> QED
       BY <1>11, <2>1
<1>13. PICK c : c = Written(writes, None, None, of)
       OBVIOUS
<1>14. c.writes = writes /\ c.secretOf = None /\ c.closing = None /\ c.of = of
       BY <1>13 DEF Written
<1>15. status \in {"ACTIVE", "DISABLED"} /\ profiles[a].status \in {"ACTIVE", "DISABLED"}
       BY <1>1, <1>3, <1>7, ProfileRows DEF Statuses
<1>16. ASSUME NEW p \in P
       PROVE  RowSound(c, p)
   <2>1. p \notin Customers /\ profiles[p].status # "ABSENT" /\ p \in cast
         BY <1>7, <1>8, Kinds
   <2>2. writes[p].status # "ABSENT"
         BY <1>11, <1>15, <2>1
   <2>3. p \in of \/ (profiles[p].status = "ACTIVE" => writes[p].status = "ACTIVE")
         BY <1>2, <1>10, <1>11, <1>15
   <2>4. p \in of \/ writes[p].scope = profiles[p].scope
         BY <1>10, <1>11
   <2> QED
       BY <1>11, <1>14, <2>1, <2>2, <2>3, <2>4 DEF RowSound
<1>17. ASSUME NEW e \in P \cap Employees
       PROVE  EmployeeSound(c, e)
   <2>1. e # a /\ profiles[e].manager = a /\ a \in DOMAIN writes
         BY <1>1, <1>3, <1>6, <1>8
   <2>2. profiles[e].scope = profiles[a].scope => writes[e].scope = writes[a].scope
         BY <1>3, <1>11
   <2>3. writes[e].status = "ACTIVE" => profiles[e].status = "ACTIVE"
         BY <1>2, <1>11, <2>1
   <2>4. writes[e].status = "ACTIVE" /\ profiles[a].status = "ACTIVE" => writes[a].status = "ACTIVE"
         BY <1>2, <1>3, <1>11, <1>15, <2>1
   <2> QED
       BY <1>14, <2>1, <2>2, <2>3, <2>4 DEF EmployeeSound
<1>18. SoundlyWritten(c)
       BY <1>6, <1>14, <1>16, <1>17 DEF SoundlyWritten
<1> QED
    BY <1>5, <1>9, <1>10, <1>12, <1>13, <1>18, RequestsStay, BeginStep

----------------------------------------------------------------------------
(* New accounts. *)

\* What a new account is created as.
NewRow(p, status, scope, manager, late) ==
    /\ p \notin Customers /\ status \in Statuses /\ scope \in Scopes /\ late \in BOOLEAN
    /\ p \notin Employees => manager = None
    /\ p \in Employees =>
           /\ manager \in Admins /\ profiles[manager].status # "ABSENT"
           /\ ~late => /\ ~profiles[manager].late /\ profiles[manager].scope = scope
                       /\ profiles[manager].status = "ACTIVE"
    /\ p \in Admins => late \/ scope \notin Closing

LEMMA CreateStep ==
    ASSUME IInv, NEW p \in Principals, NEW status, NEW scope, NEW manager, NEW late,
           Create(p, status, scope, manager, late), NewRow(p, status, scope, manager, late),
           Requested
    PROVE  IInv'
<1>1. TypeOK /\ cast \subseteq Principals
      BY CastsArePrincipals DEF IInv, TypeOK
<1>2. PICK row : row = [status |-> status, scope |-> scope, manager |-> manager, late |-> late]
      OBVIOUS
<1>3. /\ row.status = status /\ row.scope = scope /\ row.manager = manager /\ row.late = late
      /\ row \in Profile /\ status # "ABSENT"
      BY <1>2 DEF NewRow, Profile, Statuses
<1>4. /\ p \in cast /\ profiles[p].status = "ABSENT"
      /\ profiles' = [profiles EXCEPT ![p] = row]
      /\ UNCHANGED <<cast, sessions, challenges, activeCities, changes, begun>>
      BY <1>2 DEF Create
<1>5. PICK secret : secret = [secrets[p] EXCEPT !.issued = 1, !.stored = 1]
      OBVIOUS
<1>6. secrets' = [secrets EXCEPT ![p] = secret]
      BY <1>1, <1>5 DEF Create, TypeOK
<1>7. secret \in Secret /\ secret.issued = 1 /\ secret.stored = 1
   <2>1. 1 \in 0 .. MaxSecrets
         BY Bounds
   <2>2. secrets[p] \in Secret
         BY <1>1, ProfileRows
   <2> QED
       BY <1>5, <2>1, <2>2 DEF Secret
<1>8. /\ profiles'[p] = row /\ secrets'[p] = secret
      /\ \A q \in Principals : q # p => profiles'[q] = profiles[q] /\ secrets'[q] = secrets[q]
      BY <1>1, <1>4, <1>6 DEF TypeOK
<1>9. TypeOK'
      BY <1>1, <1>3, <1>4, <1>6, <1>7 DEF TypeOK, Requested, Change
<1>10. \A q \in Principals : ProfileSound(q) /\ SecretSound(q)
       BY DEF IInv
<1>11. \A q \in Principals : q \in Employees /\ profiles[q].status # "ABSENT" =>
                                 profiles[q].manager # p /\ profiles[q].manager \in Principals
       BY <1>4, <1>10, Kinds DEF ProfileSound
<1>12. ASSUME NEW q \in Principals
       PROVE  SecretSound(q)' /\ ProfileSound(q)'
   <2>1. CASE q = p
      <3>1. SecretSound(q)'
            BY <1>7, <1>8, <2>1 DEF SecretSound, NewRow
      <3>2. CASE p \notin Employees
            BY <1>3, <1>4, <1>8, <2>1, <3>1, <3>2 DEF ProfileSound, NewRow
      <3>3. CASE p \in Employees
         <4>1. manager \in Admins /\ manager \in Principals /\ manager # p
               BY <3>3, Kinds DEF NewRow
         <4>2. profiles'[manager] = profiles[manager]
               BY <1>8, <4>1
         <4> QED
             BY <1>3, <1>4, <1>8, <2>1, <3>1, <3>3, <4>1, <4>2
             DEF ProfileSound, Follows, NewRow
      <3> QED
          BY <3>1, <3>2, <3>3
   <2>2. CASE q # p
      <3>1. profiles'[q] = profiles[q] /\ secrets'[q] = secrets[q]
            BY <1>8, <2>2
      <3>2. q \in Employees /\ profiles[q].status # "ABSENT" =>
                profiles'[profiles[q].manager] = profiles[profiles[q].manager]
            BY <1>8, <1>11
      <3> QED
          BY <1>4, <1>10, <3>1, <3>2 DEF SecretSound, ProfileSound, Follows
   <2> QED
       BY <2>1, <2>2
<1>13. ASSUME NEW r \in Requests
       PROVE  RequestSound(r)'
   <2>1. CASE requests'[r] = NoRequest
      <3>1. requests'[r].step = "idle"
            BY <2>1 DEF NoRequest
      <3> QED
          BY <3>1 DEF RequestSound
   <2>2. CASE requests'[r] = requests[r]
      <3>1. PICK q : q = requests[r]
            OBVIOUS
      <3>2. RequestSound(r)
            BY DEF IInv
      <3>3. q.step \in {"verified", "hashed"} => LoggingIn(q)'
         <4>1. SUFFICES ASSUME LoggingIn(q)
                        PROVE  LoggingIn(q)'
               BY <3>1, <3>2 DEF RequestSound
         <4>2. q.of \in Principals
               BY <1>1, <4>1 DEF LoggingIn
         <4> QED
             BY <1>4, <1>8, <4>1, <4>2 DEF LoggingIn
      <3>4. q.step = "acting" => Acting(q)'
         <4>1. SUFFICES ASSUME Acting(q)
                        PROVE  Acting(q)'
               BY <3>1, <3>2 DEF RequestSound
         <4>2. q.of \in Principals /\ q.of # p
               BY <1>1, <1>4, <4>1 DEF Acting
         <4> QED
             BY <1>4, <1>8, <4>1, <4>2 DEF Acting
      <3> QED
          BY <1>4, <2>2, <3>1, <3>2, <3>3, <3>4 DEF RequestSound, LoggingIn, Acting
   <2> QED
       BY <2>1, <2>2 DEF Requested
<1>14. ASSUME NEW x \in Changes
       PROVE  ChangeSound(x)'
   <2>1. PICK c : c = changes[x]
         OBVIOUS
   <2>2. ChangeSound(x) /\ changes'[x] = c
         BY <1>4, <2>1 DEF IInv
   <2>3. DOMAIN c.writes \subseteq Principals /\ c.secretOf \in Principals \cup {None}
         BY <1>1, <2>1, ChangeRows
   <2>4. ASSUME NEW q \in DOMAIN c.writes
         PROVE  RowSound(c, q)' /\ profiles'[q] = profiles[q] /\ RowSound(c, q)
      <3>1. RowSound(c, q)
            BY <2>1, <2>2 DEF ChangeSound
      <3>2. q # p /\ q \in Principals
            BY <1>4, <2>3, <3>1 DEF RowSound
      <3>3. profiles'[q] = profiles[q]
            BY <1>8, <3>2
      <3> QED
          BY <1>4, <3>1, <3>3 DEF RowSound
   <2>5. ASSUME NEW e \in DOMAIN c.writes \cap Employees
         PROVE  EmployeeSound(c, e)'
      <3>1. EmployeeSound(c, e) /\ e \in Principals
            BY <2>1, <2>2, <2>3 DEF ChangeSound
      <3>2. profiles'[e] = profiles[e] /\ profiles[e].status # "ABSENT"
            BY <2>4 DEF RowSound
      <3>3. profiles'[profiles[e].manager] = profiles[profiles[e].manager]
            BY <1>8, <1>11, <3>1, <3>2
      <3> QED
          BY <3>1, <3>2, <3>3 DEF EmployeeSound
   <2>6. c.secretOf # None => /\ c.secretOf \in c.of \ Customers
                              /\ profiles'[c.secretOf].status # "ABSENT"
                              /\ secrets'[c.secretOf].issued < MaxSecrets
         BY <1>4, <1>8, <2>1, <2>2, <2>3 DEF ChangeSound
   <2>7. c.closing # None =>
             /\ DOMAIN c.writes = {} /\ c.secretOf = None
             /\ \A a \in Admins : profiles'[a].scope = c.closing /\ ~profiles'[a].late => a \in c.of
      <3>1. SUFFICES ASSUME c.closing # None, NEW a \in Admins,
                            profiles'[a].scope = c.closing, ~profiles'[a].late
                     PROVE  a \in c.of
            BY <2>1, <2>2 DEF ChangeSound
      <3>2. c.closing \in Closing /\ a \in Principals
            BY <2>1, <3>1, Kinds DEF Closing
      <3>3. a # p
            BY <1>3, <1>8, <3>1, <3>2 DEF NewRow
      <3> QED
          BY <1>8, <2>1, <2>2, <3>1, <3>2, <3>3 DEF ChangeSound
   <2> QED
       BY <1>4, <2>1, <2>2, <2>4, <2>5, <2>6, <2>7 DEF ChangeSound
<1>15. ASSUME NEW s \in SessionIds, sessions[s].state = "LIVE", ~sessions[s].late
       PROVE  sessions[s].of \in Principals /\ sessions[s].of # p
   <2>1. SessionSound(s) /\ profiles[sessions[s].of].status = "ACTIVE"
         BY <1>15 DEF IInv, DisabledAreOut
   <2> QED
       BY <1>1, <1>4, <1>15, <2>1 DEF SessionSound
<1>16. DisabledAreOut' /\ OldSecretsAreOut'
       BY <1>4, <1>8, <1>15 DEF DisabledAreOut, OldSecretsAreOut, IInv
<1>17. ClaimsFollowScope'
   <2>1. \A s \in SessionIds : sessions[s].claims # {} => sessions[s].state = "LIVE"
         BY DEF IInv, SessionSound
   <2> QED
       BY <1>4, <1>8, <1>15, <2>1 DEF ClaimsFollowScope, IInv
<1>18. /\ WithinLimit' /\ InTurn' /\ \A s \in SessionIds : SessionSound(s)'
       /\ ReuseIsFatal' /\ \A i \in ChallengeIds : ChallengeSound(i)'
       /\ \A x, y \in Changes : x # y => Apart(x, y)'
   <2>1. \A s \in SessionIds : SessionSound(s)'
         BY <1>4 DEF SessionSound, IInv
   <2>2. ReuseIsFatal' /\ \A s \in SessionIds : Wanes(s)
         BY <1>4, SessionsStay
   <2>3. WithinLimit' /\ InTurn'
         BY <1>4, <1>9, <2>2, WaningSessions
   <2>4. \A i \in ChallengeIds : ChallengeSound(i)'
         BY <1>4 DEF ChallengeSound, IInv
   <2>5. \A x, y \in Changes : x # y => Apart(x, y)'
         BY <1>4 DEF Apart, IInv
   <2> QED
       BY <2>1, <2>2, <2>3, <2>4, <2>5
<1> QED
    BY <1>9, <1>12, <1>13, <1>14, <1>16, <1>17, <1>18 DEF IInv

LEMMA CreateSteps ==
    ASSUME IInv, NEW p \in Principals,
           \/ \E city \in Cities : p \in Admins /\ CreateAdmin(p, city)
           \/ \E r \in Requests : p \in Employees /\ CreateEmployee(r, p)
           \/ \E status \in Statuses, store \in Stores : p \in Merchants /\ CreateMerchant(p, status, store)
           \/ \E city \in Cities : p \in Drivers /\ CreateDriver(p, city)
    PROVE  IInv'
<1>1. CASE \E city \in Cities : p \in Admins /\ CreateAdmin(p, city)
   <2>1. PICK city \in Cities : p \in Admins /\ CreateAdmin(p, city)
         BY <1>1
   <2>2. PICK late : late = (city \in Closing)
         OBVIOUS
   <2>3. Create(p, "ACTIVE", city, None, late) /\ requests' = requests
         BY <2>1, <2>2 DEF CreateAdmin
   <2>4. NewRow(p, "ACTIVE", city, None, late)
      <3>1. late \in BOOLEAN
            BY <2>2
      <3> QED
          BY <2>1, <2>2, <3>1, Kinds DEF NewRow, Statuses, Scopes
   <2> QED
       BY <2>3, <2>4, CreateStep, RequestsStay
<1>2. CASE \E r \in Requests : p \in Employees /\ CreateEmployee(r, p)
   <2>1. PICK r \in Requests : p \in Employees /\ CreateEmployee(r, p)
         BY <1>2
   <2>2. PICK scope, of, late : /\ scope = requests[r].scope /\ of = requests[r].of
                                /\ late = requests[r].late
         OBVIOUS
   <2>3. /\ Create(p, "ACTIVE", scope, of, late) /\ requests[r].step = "acting"
         /\ requests' = [requests EXCEPT ![r] = NoRequest]
         BY <2>1, <2>2 DEF CreateEmployee, Becomes
   <2>4. Acting(requests[r]) /\ late \in BOOLEAN
         BY <2>2, <2>3, RequestRows DEF RequestSound, IInv
   <2>5. NewRow(p, "ACTIVE", scope, of, late)
         BY <2>1, <2>2, <2>4, Kinds DEF NewRow, Acting, Statuses, Scopes
   <2>6. Requested
         BY <2>3, RequestRows DEF Requested, IInv, TypeOK
   <2> QED
       BY <2>3, <2>5, <2>6, CreateStep
<1>3. CASE \E status \in Statuses, store \in Stores : p \in Merchants /\ CreateMerchant(p, status, store)
   <2>1. PICK status \in Statuses, store \in Stores : p \in Merchants /\ CreateMerchant(p, status, store)
         BY <1>3
   <2>2. Create(p, status, store, None, FALSE) /\ requests' = requests
         BY <2>1 DEF CreateMerchant
   <2>3. NewRow(p, status, store, None, FALSE)
         BY <2>1, Kinds DEF NewRow, Scopes
   <2> QED
       BY <2>2, <2>3, CreateStep, RequestsStay
<1>4. CASE \E city \in Cities : p \in Drivers /\ CreateDriver(p, city)
   <2>1. PICK city \in Cities : p \in Drivers /\ CreateDriver(p, city)
         BY <1>4
   <2>2. Create(p, "ACTIVE", city, None, FALSE) /\ requests' = requests
         BY <2>1 DEF CreateDriver
   <2>3. NewRow(p, "ACTIVE", city, None, FALSE)
         BY <2>1, Kinds DEF NewRow, Scopes, Statuses
   <2> QED
       BY <2>2, <2>3, CreateStep, RequestsStay
<1> QED
    BY <1>1, <1>2, <1>3, <1>4

----------------------------------------------------------------------------
(* A transaction commits: what it wrote is seen, and whoever it overtook is late. *)

\* What becomes of the profile of p.
Becoming(c, p) ==
    LET written == p \in DOMAIN c.writes IN
    /\ profiles'[p] \in Profile
    /\ profiles'[p].manager = profiles[p].manager
    /\ profiles'[p].status = "ABSENT" <=> profiles[p].status = "ABSENT"
    /\ ~profiles'[p].late => ~profiles[p].late
    /\ ~written => profiles'[p].status = profiles[p].status /\ profiles'[p].scope = profiles[p].scope
    /\ ~written /\ ~profiles'[p].late /\ c.secretOf = None =>
           profiles[p].manager \notin DOMAIN c.writes \cap c.of
    /\ ~written /\ profiles[p].manager = None => profiles'[p].late = profiles[p].late
    /\ written =>
           /\ profiles'[p].status = c.writes[p].status /\ profiles'[p].scope = c.writes[p].scope
           /\ ~profiles'[p].late => ~c.writes[p].late
           /\ ~profiles'[p].late /\ p \in Staff /\ c.writes[p].scope # profiles[p].scope =>
                  c.writes[p].scope \in activeCities \ Closing
           /\ ~c.writes[p].late /\ ~profiles[p].late /\ profiles'[p].late =>
                  /\ p \in Staff /\ c.writes[p].scope # profiles[p].scope
                  /\ c.writes[p].scope \notin activeCities \ Closing

LEMMA ProfilesBecome ==
    ASSUME IInv, NEW x \in Changes, Commit(x), NEW c, c = changes[x], NEW p \in Principals
    PROVE  Becoming(c, p)
<1>1. TypeOK /\ profiles[p] \in Profile /\ ChangeSound(x)
      BY ProfileRows DEF IInv
<1>2. profiles'[p] = Committed(c, p)
      BY DEF Commit
<1>3. CASE p \in DOMAIN c.writes
   <2>1. PICK row : row = c.writes[p]
         OBVIOUS
   <2>2. row \in Profile /\ RowSound(c, p)
         BY <1>1, <1>3, <2>1, ChangeRows DEF ChangeSound
   <2>3. PICK closed : closed = (/\ p \in Staff /\ row.scope # profiles[p].scope
                                 /\ row.scope \notin activeCities \ Closing)
         OBVIOUS
   <2>4. PICK late : late = (row.late \/ profiles[p].late \/ closed)
         OBVIOUS
   <2>5. late \in BOOLEAN /\ closed \in BOOLEAN
         BY <2>3, <2>4
   <2>6. profiles'[p] = [row EXCEPT !.late = late]
         BY <1>2, <1>3, <2>1, <2>3, <2>4 DEF Committed
   <2>7. /\ profiles'[p] \in Profile /\ profiles'[p].status = row.status
         /\ profiles'[p].scope = row.scope /\ profiles'[p].manager = row.manager
         /\ profiles'[p].late = late
         BY <2>2, <2>5, <2>6 DEF Profile
   <2>8. /\ row.status # "ABSENT" /\ profiles[p].status # "ABSENT"
         /\ row.manager = profiles[p].manager
         BY <2>1, <2>2 DEF RowSound
   <2> QED
       BY <1>3, <2>1, <2>3, <2>4, <2>7, <2>8 DEF Becoming
<1>4. CASE p \notin DOMAIN c.writes
   <2>1. PICK missed : missed = (c.secretOf = None /\ profiles[p].manager \in DOMAIN c.writes \cap c.of)
         OBVIOUS
   <2>2. PICK late : late = (profiles[p].late \/ missed)
         OBVIOUS
   <2>3. late \in BOOLEAN /\ missed \in BOOLEAN /\ profiles[p].late \in BOOLEAN
         BY <1>1, <2>1, <2>2 DEF Profile
   <2>4. profiles'[p] = [profiles[p] EXCEPT !.late = late]
         BY <1>2, <1>4, <2>1, <2>2 DEF Committed
   <2>5. /\ profiles'[p] \in Profile /\ profiles'[p].status = profiles[p].status
         /\ profiles'[p].scope = profiles[p].scope /\ profiles'[p].manager = profiles[p].manager
         /\ profiles'[p].late = late
         BY <1>1, <2>3, <2>4 DEF Profile
   <2>6. profiles[p].manager = None => profiles'[p].late = profiles[p].late
      <3>1. DOMAIN c.writes \subseteq Principals
            BY <1>1, ChangeRows
      <3>2. profiles[p].manager = None => ~missed
            BY <2>1, <3>1, NoneIsNothing
      <3> QED
          BY <2>2, <2>3, <2>5, <3>2
   <2> QED
       BY <1>4, <2>1, <2>2, <2>5, <2>6 DEF Becoming
<1> QED
    BY <1>3, <1>4

\* Whose sessions a transaction has not revoked keeps his rights.
LEMMA RightsKept ==
    ASSUME IInv, NEW x \in Changes, Commit(x), NEW c, c = changes[x],
           NEW p \in Principals, p \notin c.of
    PROVE  /\ profiles[p].status = "ACTIVE" => profiles'[p].status = "ACTIVE"
           /\ p \in Staff => profiles'[p].scope = profiles[p].scope
           /\ p \in Admins => profiles'[p].late = profiles[p].late
           /\ secrets'[p] = secrets[p]
<1>1. TypeOK /\ ChangeSound(x) /\ Becoming(c, p) /\ ProfileSound(p)
      BY ProfilesBecome DEF IInv
<1>2. p \in DOMAIN c.writes => RowSound(c, p)
      BY <1>1 DEF ChangeSound
<1>3. p # c.secretOf
      BY <1>1, NoneIsNothing DEF ChangeSound
<1>4. secrets'[p] = secrets[p]
      BY <1>3 DEF Commit
<1>5. p \in Admins => profiles'[p].late = profiles[p].late
   <2>1. SUFFICES ASSUME p \in Admins
                  PROVE  profiles'[p].late = profiles[p].late
         OBVIOUS
   <2>2. profiles'[p].late \in BOOLEAN /\ profiles[p].late \in BOOLEAN
         BY <1>1, ProfileRows DEF Becoming, Profile
   <2>3. p \notin Employees /\ p \in Staff
         BY <2>1, Kinds
   <2>4. profiles[p].manager = None
         BY <1>1, <2>3 DEF ProfileSound
   <2>5. CASE p \in DOMAIN c.writes
      <3>1. c.writes[p].late = profiles[p].late /\ c.writes[p].scope = profiles[p].scope
            BY <1>2, <2>1, <2>3, <2>5 DEF RowSound
      <3>2. profiles[p].late \/ ~profiles'[p].late
            BY <1>1, <2>5, <3>1 DEF Becoming
      <3>3. ~profiles'[p].late => ~profiles[p].late
            BY <1>1 DEF Becoming
      <3> QED
          BY <2>2, <3>2, <3>3
   <2>6. CASE p \notin DOMAIN c.writes
         BY <1>1, <2>4, <2>6 DEF Becoming
   <2> QED
       BY <2>5, <2>6
<1>6. CASE p \in DOMAIN c.writes
   <2>1. /\ profiles[p].status = "ACTIVE" => c.writes[p].status = "ACTIVE"
         /\ p \in Staff => c.writes[p].scope = profiles[p].scope
         BY <1>2, <1>6 DEF RowSound
   <2> QED
       BY <1>1, <1>4, <1>5, <1>6, <2>1 DEF Becoming
<1>7. CASE p \notin DOMAIN c.writes
      BY <1>1, <1>4, <1>5, <1>7 DEF Becoming
<1> QED
    BY <1>6, <1>7

\* What becomes of the sessions, and of the requests.
LEMMA SessionsBecome ==
    ASSUME IInv, NEW x \in Changes, Commit(x), NEW c, c = changes[x], NEW s \in SessionIds
    PROVE  /\ sessions'[s] \in Session /\ Wanes(s)
           /\ sessions'[s].reused = sessions[s].reused
           /\ sessions'[s].state = "LIVE" /\ ~sessions'[s].late =>
                  ~sessions[s].late /\ sessions[s].of \notin Overtaken(c)
<1>1. TypeOK /\ ChangeSound(x) /\ SessionSound(s) /\ sessions[s] \in Session
      BY SessionRows DEF IInv
<1>2. CASE s \in c.doomed
   <2>1. sessions'[s] = Ended(s)
         BY <1>2 DEF Commit
   <2>2. sessions[s].state # "NONE"
         BY <1>1, <1>2 DEF ChangeSound
   <2>3. sessions'[s] \in Session /\ sessions'[s].state = "REVOKED"
         BY <1>1, <2>1, EndedRow
   <2> QED
       BY <1>1, <2>1, <2>2, <2>3, EndedRow DEF Wanes
<1>3. CASE s \notin c.doomed
   <2>1. PICK late : late = (\/ sessions[s].late
                             \/ sessions[s].of \in Overtaken(c) /\ sessions[s].state # "REVOKED")
         OBVIOUS
   <2>2. late \in BOOLEAN /\ sessions[s].late \in BOOLEAN
         BY <1>1, <2>1, SessionRows
   <2>3. sessions'[s] = [sessions[s] EXCEPT !.late = late]
         BY <1>3, <2>1 DEF Commit
   <2>4. /\ sessions'[s] \in Session /\ sessions'[s].of = sessions[s].of
         /\ sessions'[s].state = sessions[s].state /\ sessions'[s].late = late
         /\ sessions'[s].secret = sessions[s].secret /\ sessions'[s].claims = sessions[s].claims
         /\ sessions'[s].rotated = sessions[s].rotated /\ sessions'[s].reused = sessions[s].reused
         BY <1>1, <2>2, <2>3 DEF Session
   <2>5. Wanes(s)
         BY <1>1, <2>1, <2>2, <2>4 DEF Wanes, SessionSound
   <2>6. sessions'[s].state = "LIVE" /\ ~sessions'[s].late =>
             ~sessions[s].late /\ sessions[s].of \notin Overtaken(c)
         BY <2>1, <2>4
   <2> QED
       BY <2>4, <2>5, <2>6
<1> QED
    BY <1>2, <1>3

LEMMA RequestsBecome ==
    ASSUME IInv, NEW x \in Changes, Commit(x), NEW c, c = changes[x], NEW r \in Requests
    PROVE  /\ requests'[r] \in Request
           /\ requests'[r].step = requests[r].step /\ requests'[r].of = requests[r].of
           /\ requests'[r].secret = requests[r].secret
           /\ requests'[r].session = requests[r].session /\ requests'[r].scope = requests[r].scope
           /\ ~requests'[r].late /\ requests[r].session = 0 =>
                  ~requests[r].late /\ requests[r].of \notin Overtaken(c)
<1>1. requests[r] \in Request /\ requests[r].late \in BOOLEAN
      BY RequestRows DEF IInv
<1>2. PICK late : late = (\/ requests[r].late
                          \/ requests[r].of \in Overtaken(c) /\ requests[r].session = 0)
      OBVIOUS
<1>3. late \in BOOLEAN
      BY <1>1, <1>2
<1>4. requests'[r] = [requests[r] EXCEPT !.late = late]
      BY <1>2 DEF Commit
<1>5. /\ requests'[r] \in Request /\ requests'[r].late = late
      /\ requests'[r].step = requests[r].step /\ requests'[r].of = requests[r].of
      /\ requests'[r].secret = requests[r].secret
      /\ requests'[r].session = requests[r].session /\ requests'[r].scope = requests[r].scope
      BY <1>1, <1>3, <1>4 DEF Request
<1> QED
    BY <1>2, <1>5

LEMMA OvertakenAreThose == ASSUME NEW c PROVE c.of \subseteq Overtaken(c)
BY DEF Overtaken

LEMMA CommitTypes ==
    ASSUME IInv, NEW x \in Changes, Commit(x)
    PROVE  TypeOK' /\ \A p \in Principals : SecretSound(p)'
<1>1. TypeOK /\ ChangeSound(x)
      BY DEF IInv
<1>2. PICK c : c = changes[x]
      OBVIOUS
<1>3. profiles' \in [Principals -> Profile]
   <2>1. profiles' = [p \in Principals |-> profiles'[p]]
         BY DEF Commit
   <2>2. \A p \in Principals : profiles'[p] \in Profile
         BY <1>2, ProfilesBecome DEF Becoming
   <2> QED
       BY <2>1, <2>2
<1>4. sessions' \in [SessionIds -> Session]
   <2>1. sessions' = [s \in SessionIds |-> sessions'[s]]
         BY DEF Commit
   <2>2. \A s \in SessionIds : sessions'[s] \in Session
         BY <1>2, SessionsBecome
   <2> QED
       BY <2>1, <2>2
<1>5. requests' \in [Requests -> Request]
   <2>1. requests' = [r \in Requests |-> requests'[r]]
         BY DEF Commit
   <2>2. \A r \in Requests : requests'[r] \in Request
         BY <1>2, RequestsBecome
   <2> QED
       BY <2>1, <2>2
<1>6. ASSUME NEW p \in Principals
      PROVE  secrets'[p] \in Secret /\ SecretSound(p)'
   <2>1. SecretSound(p) /\ secrets[p] \in Secret
         BY <1>1, ProfileRows DEF IInv
   <2>2. CASE p = c.secretOf
      <3>1. p # None /\ p \notin Customers /\ secrets[p].issued < MaxSecrets /\ secrets[p].issued \in Nat
            BY <1>1, <1>2, <2>2, NoneIsNothing, ProfileRows DEF ChangeSound
      <3>2. PICK n : n = secrets[p].issued + 1
            OBVIOUS
      <3>3. n \in 0 .. MaxSecrets
            BY <3>1, <3>2, Bounds
      <3>4. secrets'[p] = [issued |-> n, stored |-> n, restored |-> FALSE]
            BY <1>2, <2>2, <3>2 DEF Commit
      <3> QED
          BY <3>1, <3>3, <3>4 DEF Secret, SecretSound
   <2>3. CASE p # c.secretOf
      <3>1. secrets'[p] = secrets[p]
            BY <1>2, <2>3 DEF Commit
      <3> QED
          BY <2>1, <3>1 DEF SecretSound
   <2> QED
       BY <2>2, <2>3
<1>7. secrets' \in [Principals -> Secret]
   <2>1. secrets' = [p \in Principals |-> secrets'[p]]
         BY DEF Commit
   <2> QED
       BY <1>6, <2>1
<1>8. /\ changes' = [changes EXCEPT ![x] = NoChange]
      /\ UNCHANGED <<cast, challenges, begun>> /\ activeCities' \subseteq activeCities
      BY DEF Commit
<1>9. NoChange \in Change({}) /\ DOMAIN NoChange.writes = {}
      BY NothingIsWritten DEF NoChange, Change
<1>10. changes' \in [Changes -> {changes'[y] : y \in Changes}]
       BY <1>1, <1>8 DEF TypeOK
<1>11. ASSUME NEW y \in Changes
       PROVE  DOMAIN changes'[y].writes \subseteq Principals
                  /\ changes'[y] \in Change(DOMAIN changes'[y].writes)
   <2>1. CASE y = x
      <3>1. changes'[y] = NoChange
            BY <1>1, <1>8, <2>1 DEF TypeOK
      <3> QED
          BY <1>9, <3>1
   <2>2. CASE y # x
         BY <1>1, <1>8, <2>2 DEF TypeOK
   <2> QED
       BY <2>1, <2>2
<1>12. TypeOK'
       BY <1>1, <1>3, <1>4, <1>5, <1>7, <1>8, <1>10, <1>11 DEF TypeOK, Change
<1> QED
    BY <1>6, <1>12

\* An employee who is not late goes by the admin he has after the commit.
LEMMA CommitProfiles ==
    ASSUME IInv, NEW x \in Changes, Commit(x), NEW p \in Principals
    PROVE  ProfileSound(p)'
<1>1. PICK c : c = changes[x]
      OBVIOUS
<1>2. TypeOK /\ ChangeSound(x) /\ ProfileSound(p) /\ Becoming(c, p) /\ cast' = cast
      BY <1>1, ProfilesBecome DEF IInv, Commit
<1>3. profiles'[p].status # "ABSENT" => p \in cast'
      BY <1>2 DEF Becoming, ProfileSound
<1>4. profiles'[p].status = "ABSENT" => profiles'[p].scope = None /\ profiles'[p].manager = None
   <2>1. p \in DOMAIN c.writes => profiles[p].status # "ABSENT"
         BY <1>1, <1>2 DEF ChangeSound, RowSound
   <2> QED
       BY <1>2, <2>1 DEF Becoming, ProfileSound
<1>5. p \notin Employees => profiles'[p].manager = None
      BY <1>2 DEF Becoming, ProfileSound
<1>6. ASSUME p \in Employees, profiles'[p].status # "ABSENT"
      PROVE  /\ profiles'[p].manager \in Admins
             /\ profiles'[profiles'[p].manager].status # "ABSENT"
             /\ ~profiles'[p].late => Follows(p)'
   <2>1. PICK a : a = profiles[p].manager
         OBVIOUS
   <2>2. /\ a \in Admins /\ profiles[a].status # "ABSENT" /\ (~profiles[p].late => Follows(p))
         /\ profiles'[p].manager = a /\ profiles[p].status # "ABSENT"
         BY <1>2, <1>6, <2>1 DEF Becoming, ProfileSound
   <2>3. a \in Principals /\ a \notin Employees /\ a \in Staff
         BY <2>2, Kinds
   <2>4. Becoming(c, a) /\ ProfileSound(a)
         BY <1>1, <2>3, ProfilesBecome DEF IInv
   <2>5. profiles[a].manager = None
         BY <2>3, <2>4 DEF ProfileSound
   <2>6. ASSUME ~profiles'[p].late
         PROVE  Follows(p)'
      <3>1. ~profiles[p].late
            BY <1>2, <2>6 DEF Becoming
      <3>2. /\ ~profiles[a].late /\ profiles[a].scope = profiles[p].scope
            /\ profiles[p].status = "ACTIVE" => profiles[a].status = "ACTIVE"
            BY <2>1, <2>2, <3>1 DEF Follows
      <3>3. profiles'[a].late \in BOOLEAN /\ profiles'[p].late \in BOOLEAN
            BY <1>2, <2>4 DEF Becoming, Profile
      <3>4. CASE p \in DOMAIN c.writes /\ a \in DOMAIN c.writes
         <4>1. RowSound(c, a) /\ EmployeeSound(c, p)
               BY <1>1, <1>2, <1>6, <3>4 DEF ChangeSound
         <4>2. /\ c.writes[p].scope = c.writes[a].scope
               /\ c.writes[p].status = "ACTIVE" => c.writes[a].status = "ACTIVE"
               BY <2>1, <3>2, <3>4, <4>1 DEF EmployeeSound
         <4>3. ~c.writes[a].late
               BY <2>2, <3>2, <4>1 DEF RowSound
         <4>4. ~profiles'[a].late
            <5>1. p \in Staff
                  BY <1>6, Kinds
            <5>2. c.writes[p].scope # profiles[p].scope =>
                      c.writes[p].scope \in activeCities \ Closing
                  BY <1>2, <2>6, <3>4, <5>1 DEF Becoming
            <5>3. profiles'[a].late => /\ c.writes[a].scope # profiles[a].scope
                                       /\ c.writes[a].scope \notin activeCities \ Closing
                  BY <2>4, <3>2, <3>4, <4>3 DEF Becoming
            <5> QED
                BY <3>2, <4>2, <5>2, <5>3
         <4> QED
             BY <1>2, <2>2, <2>4, <3>4, <4>2, <4>4 DEF Becoming, Follows
      <3>5. CASE p \in DOMAIN c.writes /\ a \notin DOMAIN c.writes
         <4>1. EmployeeSound(c, p)
               BY <1>1, <1>2, <1>6, <3>5 DEF ChangeSound
         <4>2. ~c.writes[p].late
               BY <1>2, <2>6, <3>5 DEF Becoming
         <4>3. /\ c.writes[p].scope = profiles[p].scope
               /\ c.writes[p].status = "ACTIVE" => profiles[a].status = "ACTIVE"
               BY <2>1, <3>1, <3>5, <4>1, <4>2 DEF EmployeeSound
         <4>4. /\ profiles'[a].late = profiles[a].late /\ profiles'[a].scope = profiles[a].scope
               /\ profiles'[a].status = profiles[a].status
               BY <2>4, <2>5, <3>5 DEF Becoming
         <4> QED
             BY <1>2, <2>2, <3>2, <3>5, <4>3, <4>4 DEF Becoming, Follows
      <3>6. CASE p \notin DOMAIN c.writes
         <4>1. profiles'[p].scope = profiles[p].scope /\ profiles'[p].status = profiles[p].status
               BY <1>2, <3>6 DEF Becoming
         <4>2. c.secretOf # None \/ a \notin DOMAIN c.writes \/ a \notin c.of
               BY <1>2, <2>1, <2>6, <3>6 DEF Becoming
         <4>3. /\ profiles'[a].scope = profiles[a].scope /\ ~profiles'[a].late
               /\ profiles[a].status = "ACTIVE" => profiles'[a].status = "ACTIVE"
            <5>1. CASE a \notin DOMAIN c.writes
                  BY <2>4, <2>5, <3>2, <5>1 DEF Becoming
            <5>2. CASE a \notin c.of
                  BY <1>1, <2>2, <2>3, <3>2, <5>2, RightsKept
            <5>3. CASE a \in DOMAIN c.writes /\ c.secretOf # None
               <6>1. RowSound(c, a)
                     BY <1>1, <1>2, <5>3 DEF ChangeSound
               <6>2. /\ c.writes[a].scope = profiles[a].scope /\ c.writes[a].status = profiles[a].status
                     /\ ~c.writes[a].late
                     BY <2>2, <3>2, <5>3, <6>1 DEF RowSound
               <6> QED
                   BY <2>4, <3>2, <5>3, <6>2 DEF Becoming
            <5> QED
                BY <4>2, <5>1, <5>2, <5>3
         <4> QED
             BY <2>2, <3>2, <4>1, <4>3 DEF Follows
      <3> QED
          BY <3>4, <3>5, <3>6
   <2> QED
       BY <2>2, <2>4, <2>6 DEF Becoming
<1> QED
    BY <1>3, <1>4, <1>5, <1>6 DEF ProfileSound

LEMMA CommitRequests ==
    ASSUME IInv, NEW x \in Changes, Commit(x), NEW r \in Requests
    PROVE  RequestSound(r)'
<1>1. PICK c, q, o : c = changes[x] /\ q = requests[r] /\ o = requests'[r]
      OBVIOUS
<1>2. RequestSound(r) /\ TypeOK /\ cast \subseteq Principals /\ cast' = cast
      BY CastsArePrincipals DEF IInv, Commit, TypeOK
<1>3. /\ o.step = q.step /\ o.of = q.of /\ o.secret = q.secret /\ o.session = q.session
      /\ o.scope = q.scope
      /\ ~o.late /\ q.session = 0 => ~q.late /\ q.of \notin c.of
      BY <1>1, RequestsBecome, OvertakenAreThose
<1>4. q.step \in {"verified", "hashed"} => LoggingIn(o)'
   <2>1. SUFFICES ASSUME LoggingIn(q)
                  PROVE  LoggingIn(o)'
         BY <1>1, <1>2 DEF RequestSound
   <2>2. q.of \in Principals /\ q.session = 0
         BY <1>2, <2>1 DEF LoggingIn
   <2>3. ~o.late => /\ profiles[q.of].status = "ACTIVE" => profiles'[q.of].status = "ACTIVE"
                    /\ secrets'[q.of] = secrets[q.of]
         BY <1>1, <1>3, <2>2, RightsKept
   <2> QED
       BY <1>2, <1>3, <2>1, <2>2, <2>3 DEF LoggingIn
<1>5. q.step = "acting" => Acting(o)'
   <2>1. SUFFICES ASSUME Acting(q)
                  PROVE  Acting(o)'
         BY <1>1, <1>2 DEF RequestSound
   <2>2. q.of \in Principals /\ q.session = 0 /\ q.of \in Admins /\ q.of \in Staff
         BY <2>1, Kinds DEF Acting
   <2>3. ~o.late => /\ profiles[q.of].status = "ACTIVE" => profiles'[q.of].status = "ACTIVE"
                    /\ profiles'[q.of].scope = profiles[q.of].scope
                    /\ profiles'[q.of].late = profiles[q.of].late
         BY <1>1, <1>3, <2>2, RightsKept
   <2>4. profiles'[q.of].status # "ABSENT"
         BY <1>1, <2>1, <2>2, ProfilesBecome DEF Acting, Becoming
   <2> QED
       BY <1>2, <1>3, <2>1, <2>2, <2>3, <2>4 DEF Acting
<1>6. q.step = "created" => /\ o.session \in SessionIds
                            /\ sessions'[o.session].state # "NONE"
                            /\ sessions'[o.session].of = o.of
   <2>1. SUFFICES ASSUME q.step = "created"
                  PROVE  /\ o.session \in SessionIds
                         /\ sessions'[o.session].state # "NONE"
                         /\ sessions'[o.session].of = o.of
         OBVIOUS
   <2>2. q.session \in SessionIds /\ sessions[q.session].state # "NONE"
             /\ sessions[q.session].of = q.of
         BY <1>1, <1>2, <2>1 DEF RequestSound
   <2>3. Wanes(q.session)
         BY <1>1, <2>2, SessionsBecome
   <2> QED
       BY <1>3, <2>2, <2>3 DEF Wanes
<1> QED
    BY <1>1, <1>3, <1>4, <1>5, <1>6 DEF RequestSound, LoggingIn, Acting

\* The transactions still under way will write what they were going to write.
LEMMA CommitChanges ==
    ASSUME IInv, NEW x \in Changes, Commit(x)
    PROVE  /\ \A y \in Changes : ChangeSound(y)'
           /\ \A y, z \in Changes : y # z => Apart(y, z)'
<1>1. PICK c : c = changes[x]
      OBVIOUS
<1>2. TypeOK /\ ChangeSound(x) /\ cast' = cast
      BY DEF IInv, Commit
<1>3. changes'[x] = NoChange /\ \A y \in Changes : y # x => changes'[y] = changes[y]
      BY <1>2 DEF Commit, TypeOK
<1>4. /\ NoChange.open = FALSE /\ DOMAIN NoChange.writes = {} /\ NoChange.secretOf = None
      /\ NoChange.closing = None /\ NoChange.of = {} /\ NoChange.doomed = {}
      BY NothingIsWritten DEF NoChange
<1>5. ChangeSound(x)'
      BY <1>3, <1>4 DEF ChangeSound
<1>6. ASSUME NEW y \in Changes, y # x
      PROVE  ChangeSound(y)'
   <2>1. PICK d : d = changes[y]
         OBVIOUS
   <2>2. changes'[y] = d /\ ChangeSound(y) /\ Apart(x, y) /\ Apart(y, x)
         BY <1>3, <1>6, <2>1 DEF IInv
   <2>3. /\ DOMAIN d.writes \subseteq Principals /\ d.doomed \subseteq SessionIds
         /\ d.secretOf \in Principals \cup {None}
         BY <1>2, <2>1, ChangeRows
   <2>4. ASSUME NEW p \in DOMAIN d.writes
         PROVE  /\ RowSound(d, p) /\ p \in Principals /\ p \notin DOMAIN c.writes
                /\ Becoming(c, p) /\ ProfileSound(p)
                /\ profiles'[p].status = profiles[p].status /\ profiles'[p].scope = profiles[p].scope
                /\ profiles'[p].manager = profiles[p].manager
      <3>1. RowSound(d, p) /\ p \in Principals /\ p \notin DOMAIN c.writes
            BY <1>1, <2>1, <2>2, <2>3 DEF ChangeSound, Apart
      <3>2. Becoming(c, p) /\ ProfileSound(p)
            BY <1>1, <3>1, ProfilesBecome DEF IInv
      <3> QED
          BY <3>1, <3>2 DEF Becoming
   <2>5. ASSUME NEW p \in DOMAIN d.writes
         PROVE  RowSound(d, p)'
      <3>1. p \in Admins => profiles'[p].late = profiles[p].late
         <4>1. SUFFICES ASSUME p \in Admins
                        PROVE  profiles'[p].late = profiles[p].late
               OBVIOUS
         <4>2. profiles[p].manager = None
               BY <2>4, <4>1, Kinds DEF ProfileSound
         <4> QED
             BY <2>4, <4>2 DEF Becoming
      <3> QED
          BY <1>2, <2>4, <3>1 DEF RowSound
   <2>6. ASSUME NEW e \in DOMAIN d.writes \cap Employees
         PROVE  EmployeeSound(d, e)'
      <3>1. PICK a : a = profiles[e].manager
            OBVIOUS
      <3>2. EmployeeSound(d, e)
            BY <2>1, <2>2 DEF ChangeSound
      <3>3. /\ profiles'[e].status = profiles[e].status /\ profiles'[e].scope = profiles[e].scope
            /\ profiles'[e].manager = a /\ e \in Principals /\ e \notin DOMAIN c.writes
            /\ Becoming(c, e)
            BY <2>4, <3>1
      <3>4. a \in Admins /\ a \in Principals
            BY <2>4, <3>1, Kinds DEF ProfileSound, RowSound
      <3>5. CASE a \in DOMAIN d.writes
         <4>1. profiles'[a].status = profiles[a].status /\ profiles'[a].scope = profiles[a].scope
               BY <2>4, <3>5
         <4> QED
             BY <3>1, <3>2, <3>3, <3>5, <4>1 DEF EmployeeSound
      <3>6. CASE a \notin DOMAIN d.writes
         <4>1. d.writes[e].scope = profiles[e].scope
               BY <3>1, <3>2, <3>6 DEF EmployeeSound
         <4>2. ASSUME ~d.writes[e].late, ~profiles'[e].late, d.writes[e].status = "ACTIVE"
               PROVE  profiles'[a].status = "ACTIVE"
            <5>1. ~profiles[e].late
                  BY <3>3, <4>2 DEF Becoming
            <5>2. profiles[a].status = "ACTIVE"
                  BY <3>1, <3>2, <3>6, <4>2, <5>1 DEF EmployeeSound
            <5>3. c.secretOf # None \/ a \notin DOMAIN c.writes \/ a \notin c.of
                  BY <3>1, <3>3, <4>2 DEF Becoming
            <5>4. Becoming(c, a)
                  BY <1>1, <3>4, ProfilesBecome
            <5>5. CASE a \notin DOMAIN c.writes
                  BY <5>2, <5>4, <5>5 DEF Becoming
            <5>6. CASE a \notin c.of
                  BY <1>1, <3>4, <5>2, <5>6, RightsKept
            <5>7. CASE a \in DOMAIN c.writes /\ c.secretOf # None
               <6>1. c.writes[a].status = profiles[a].status
                     BY <1>1, <1>2, <5>7 DEF ChangeSound, RowSound
               <6> QED
                   BY <5>2, <5>4, <5>7, <6>1 DEF Becoming
            <5> QED
                BY <5>3, <5>5, <5>6, <5>7
         <4> QED
             BY <3>3, <3>6, <4>1, <4>2 DEF EmployeeSound
      <3> QED
          BY <3>5, <3>6
   <2>7. d.secretOf # None =>
             /\ d.secretOf \in d.of \ Customers
             /\ profiles'[d.secretOf].status # "ABSENT"
             /\ secrets'[d.secretOf].issued < MaxSecrets
      <3>1. SUFFICES ASSUME d.secretOf # None
                     PROVE  /\ d.secretOf \in d.of \ Customers
                            /\ profiles'[d.secretOf].status # "ABSENT"
                            /\ secrets'[d.secretOf].issued < MaxSecrets
            OBVIOUS
      <3>2. d.secretOf \in Principals /\ d.secretOf # c.secretOf
            BY <1>1, <2>1, <2>2, <2>3, <3>1 DEF Apart
      <3>3. secrets'[d.secretOf] = secrets[d.secretOf]
            BY <1>1, <3>2 DEF Commit
      <3>4. Becoming(c, d.secretOf)
            BY <1>1, <3>2, ProfilesBecome
      <3> QED
          BY <2>1, <2>2, <3>1, <3>3, <3>4 DEF ChangeSound, Becoming
   <2>8. d.closing # None =>
             /\ DOMAIN d.writes = {} /\ d.secretOf = None
             /\ \A a \in Admins : profiles'[a].scope = d.closing /\ ~profiles'[a].late => a \in d.of
      <3>1. SUFFICES ASSUME d.closing # None, NEW a \in Admins,
                            profiles'[a].scope = d.closing, ~profiles'[a].late
                     PROVE  a \in d.of
            BY <2>1, <2>2 DEF ChangeSound
      <3>2. a \in Principals /\ a \in Staff /\ d.closing \in Closing
            BY <2>1, <3>1, Kinds DEF Closing
      <3>3. Becoming(c, a)
            BY <1>1, <3>2, ProfilesBecome
      <3>4. ~profiles[a].late
            BY <3>1, <3>3 DEF Becoming
      <3>5. profiles[a].scope = d.closing
            BY <3>1, <3>2, <3>3 DEF Becoming
      <3> QED
          BY <2>1, <2>2, <3>1, <3>4, <3>5 DEF ChangeSound
   <2>9. \A s \in d.doomed : sessions'[s].state # "NONE"
      <3>1. \A s \in d.doomed : sessions[s].state # "NONE" /\ s \in SessionIds
            BY <2>1, <2>2, <2>3 DEF ChangeSound
      <3>2. \A s \in SessionIds : Wanes(s)
            BY <1>1, SessionsBecome
      <3> QED
          BY <3>1, <3>2 DEF Wanes
   <2> QED
       BY <1>2, <2>1, <2>2, <2>5, <2>6, <2>7, <2>8, <2>9 DEF ChangeSound
<1>7. ASSUME NEW y \in Changes, NEW z \in Changes, y # z
      PROVE  Apart(y, z)'
      BY <1>3, <1>4, <1>7 DEF Apart, IInv
<1> QED
    BY <1>5, <1>6, <1>7

LEMMA CommitClaims ==
    ASSUME IInv, NEW x \in Changes, Commit(x)
    PROVE  DisabledAreOut' /\ OldSecretsAreOut' /\ ClaimsFollowScope'
<1>1. PICK c : c = changes[x]
      OBVIOUS
<1>2. TypeOK /\ ChangeSound(x) /\ cast \subseteq Principals
      BY CastsArePrincipals DEF IInv, TypeOK
<1>3. ASSUME NEW s \in SessionIds, sessions'[s].state = "LIVE", ~sessions'[s].late,
             NEW p, p = sessions'[s].of
      PROVE  /\ sessions[s].state = "LIVE" /\ ~sessions[s].late /\ sessions[s].of = p
             /\ sessions'[s].secret = sessions[s].secret
             /\ p \in cast /\ p \in Principals /\ p \notin Overtaken(c) /\ p \notin c.of
             /\ profiles[p].status = "ACTIVE"
   <2>1. /\ Wanes(s) /\ SessionSound(s) /\ ~sessions[s].late
         /\ sessions[s].of \notin Overtaken(c)
         BY <1>1, <1>3, SessionsBecome DEF IInv
   <2> QED
       BY <1>2, <1>3, <2>1, OvertakenAreThose DEF Wanes, SessionSound, DisabledAreOut, IInv
<1>4. DisabledAreOut'
   <2>1. SUFFICES ASSUME NEW s \in SessionIds, sessions'[s].state = "LIVE", ~sessions'[s].late,
                         NEW p, p = sessions'[s].of
                  PROVE  profiles'[p].status = "ACTIVE"
         BY DEF DisabledAreOut
   <2>2. p \in Principals /\ p \notin c.of /\ profiles[p].status = "ACTIVE"
         BY <1>3, <2>1
   <2> QED
       BY <1>1, <2>2, RightsKept
<1>5. OldSecretsAreOut'
   <2>1. SUFFICES ASSUME NEW s \in SessionIds, sessions'[s].state = "LIVE", ~sessions'[s].late,
                         NEW p, p = sessions'[s].of, ~secrets'[p].restored
                  PROVE  sessions'[s].secret = secrets'[p].issued
         BY DEF OldSecretsAreOut
   <2>2. /\ p \in Principals /\ p \notin c.of /\ sessions[s].of = p /\ sessions[s].state = "LIVE"
         /\ ~sessions[s].late /\ sessions'[s].secret = sessions[s].secret
         BY <1>3, <2>1
   <2>3. secrets'[p] = secrets[p]
         BY <1>1, <2>2, RightsKept
   <2> QED
       BY <2>1, <2>2, <2>3 DEF OldSecretsAreOut, IInv
<1>6. ClaimsFollowScope'
   <2>1. SUFFICES ASSUME NEW s \in SessionIds, NEW p, p = sessions'[s].of,
                         sessions'[s].claims # {}, ~sessions'[s].late, ~profiles'[p].late
                  PROVE  /\ sessions'[s].claims = {profiles'[p].scope}
                         /\ profiles'[p].scope \in activeCities'
         BY DEF ClaimsFollowScope
   <2>2. sessions'[s].state = "LIVE" /\ sessions'[s].claims = sessions[s].claims
         BY <1>1, <2>1, SessionsBecome DEF Wanes
   <2>3. /\ ~sessions[s].late /\ sessions[s].of = p /\ p \in cast /\ p \in Principals
         /\ p \notin Overtaken(c) /\ p \notin c.of /\ profiles[p].status = "ACTIVE"
         BY <1>3, <2>1, <2>2
   <2>4. p \in Staff /\ ProfileSound(p)
         BY <2>1, <2>2, <2>3 DEF SessionSound, IInv
   <2>5. ~profiles[p].late
         BY <1>1, <2>1, <2>3, ProfilesBecome DEF Becoming
   <2>6. profiles'[p].scope = profiles[p].scope
         BY <1>1, <2>3, <2>4, RightsKept
   <2>7. sessions[s].claims = {profiles[p].scope} /\ profiles[p].scope \in activeCities
         BY <2>1, <2>2, <2>3, <2>5 DEF ClaimsFollowScope, IInv
   <2>8. activeCities' = activeCities \ {c.closing}
         BY <1>1 DEF Commit
   <2>9. ASSUME c.closing = profiles[p].scope
         PROVE  FALSE
      <3>1. c.closing # None
         <4>1. c.closing \in Cities
               BY <1>2, <2>7, <2>9 DEF TypeOK
         <4> QED
             BY <4>1, NoneIsNothing
      <3>2. /\ DOMAIN c.writes = {} /\ c.secretOf = None
            /\ \A a \in Admins : profiles[a].scope = c.closing /\ ~profiles[a].late => a \in c.of
            BY <1>1, <1>2, <3>1 DEF ChangeSound
      <3>3. CASE p \in Admins
            BY <2>3, <2>5, <2>9, <3>2, <3>3
      <3>4. CASE p \in Employees
         <4>1. PICK a : a = profiles[p].manager
               OBVIOUS
         <4>2. a \in Admins /\ profiles[a].scope = c.closing /\ ~profiles[a].late
               BY <2>3, <2>4, <2>5, <2>9, <3>4, <4>1 DEF ProfileSound, Follows
         <4>3. a \in c.of /\ p \in Managed(a)
               BY <2>3, <3>2, <3>4, <4>1, <4>2 DEF Managed
         <4>4. p \in Overtaken(c)
               BY <3>2, <4>2, <4>3 DEF Overtaken
         <4> QED
             BY <2>3, <4>4
      <3> QED
          BY <2>4, <3>3, <3>4 DEF Staff
   <2> QED
       BY <2>2, <2>6, <2>7, <2>8, <2>9
<1> QED
    BY <1>4, <1>5, <1>6

LEMMA CommitStep ==
    ASSUME IInv, NEW x \in Changes, Commit(x)
    PROVE  IInv'
<1>1. TypeOK' /\ cast' = cast /\ challenges' = challenges
      BY CommitTypes DEF Commit
<1>2. \A s \in SessionIds : Wanes(s) /\ sessions'[s].reused = sessions[s].reused
      BY SessionsBecome
<1>3. /\ WithinLimit' /\ InTurn' /\ ReuseIsFatal'
      /\ \A s \in SessionIds : SessionSound(s)'
      BY <1>1, <1>2, WaningSessions, ReuseStaysFatal
<1>4. \A i \in ChallengeIds : ChallengeSound(i)'
      BY <1>1 DEF ChallengeSound, IInv
<1>5. \A p \in Principals : SecretSound(p)' /\ ProfileSound(p)'
      BY CommitTypes, CommitProfiles
<1>6. \A r \in Requests : RequestSound(r)'
      BY CommitRequests
<1> QED
    BY <1>1, <1>3, <1>4, <1>5, <1>6, CommitChanges, CommitClaims DEF IInv

----------------------------------------------------------------------------
(* The theorems. *)

LEMMA InitIInv == Init => IInv
<1> SUFFICES ASSUME Init
             PROVE  IInv
    OBVIOUS
<1>1. \A P : Open(P) = {}
      BY DEF Init, Open
<1>2. TypeOK
   <2>1. 0 \in 0 .. MaxSecrets /\ 0 \in 0 .. MaxAttempts
         BY Bounds
   <2>2. /\ cast \in Casts /\ activeCities \subseteq Cities /\ begun \in Nat
         /\ profiles \in [Principals -> Profile] /\ requests \in [Requests -> Request]
         BY <2>1 DEF Init, Profile, Request, NoRequest
   <2>3. secrets \in [Principals -> Secret] /\ sessions \in [SessionIds -> Session]
             /\ challenges \in [ChallengeIds -> Challenge]
         BY <2>1 DEF Init, Secret, Session, Challenge
   <2>4. changes \in [Changes -> {changes[x] : x \in Changes}]
         BY DEF Init
   <2>5. NoChange \in Change({}) /\ DOMAIN NoChange.writes = {}
         BY NothingIsWritten DEF NoChange, Change
   <2>6. \A x \in Changes : changes[x] = NoChange
         BY DEF Init
   <2> QED
       BY <2>2, <2>3, <2>4, <2>5, <2>6 DEF TypeOK
<1>3. WithinLimit
      BY <1>1, LimitIsPositive, FS_EmptySet DEF WithinLimit
<1>4. InTurn /\ ReuseIsFatal /\ \A s \in SessionIds : SessionSound(s)
      BY DEF Init, InTurn, ReuseIsFatal, SessionSound
<1>5. \A i \in ChallengeIds : ChallengeSound(i)
      BY DEF Init, ChallengeSound
<1>6. \A p \in Principals : SecretSound(p) /\ ProfileSound(p)
      BY DEF Init, SecretSound, ProfileSound
<1>7. \A r \in Requests : RequestSound(r)
      BY DEF Init, RequestSound, NoRequest
<1>8. /\ NoChange.open = FALSE /\ DOMAIN NoChange.writes = {} /\ NoChange.secretOf = None
      /\ NoChange.closing = None /\ NoChange.of = {} /\ NoChange.doomed = {}
      BY NothingIsWritten DEF NoChange
<1>9. \A x \in Changes : changes[x] = NoChange
      BY DEF Init
<1>10. \A x \in Changes : ChangeSound(x)
       BY <1>8, <1>9 DEF ChangeSound
<1>11. \A x, y \in Changes : x # y => Apart(x, y)
       BY <1>8, <1>9 DEF Apart
<1>12. DisabledAreOut /\ OldSecretsAreOut /\ ClaimsFollowScope
       BY DEF Init, DisabledAreOut, OldSecretsAreOut, ClaimsFollowScope
<1> QED
    BY <1>2, <1>3, <1>4, <1>5, <1>6, <1>7, <1>10, <1>11, <1>12 DEF IInv

LEMMA Invariance == Spec => []IInv
<1>1. Init => IInv
      BY InitIInv
<1>2. IInv /\ [Next]_vars => IInv'
   <2> SUFFICES ASSUME IInv, [Next]_vars
                PROVE  IInv'
       OBVIOUS
   <2>1. CASE UNCHANGED vars
      <3>1. TypeOK'
            BY <2>1 DEF vars, TypeOK, Change, IInv
      <3>2. UNCHANGED <<cast, profiles, secrets, sessions, challenges, activeCities, requests, changes>>
            BY <2>1 DEF vars
      <3> QED
          BY <3>1, <3>2, SessionsStay, QuietSessions
   <2>2. ASSUME NEW a \in Admins, NEW city \in Cities, CreateAdmin(a, city)
         PROVE  IInv'
         BY <2>2, CreateSteps, Kinds
   <2>3. ASSUME NEW r \in Requests, NEW e \in Employees, CreateEmployee(r, e)
         PROVE  IInv'
         BY <2>3, CreateSteps, Kinds
   <2>4. ASSUME NEW m \in Merchants, NEW status \in Statuses, NEW store \in Stores,
                CreateMerchant(m, status, store)
         PROVE  IInv'
         BY <2>4, CreateSteps, Kinds
   <2>5. ASSUME NEW d \in Drivers, NEW city \in Cities, CreateDriver(d, city)
         PROVE  IInv'
         BY <2>5, CreateSteps, Kinds
   <2>6. ASSUME NEW r \in Requests, NEW s \in SessionIds, NEW city \in Cities, ActAs(r, s, city)
         PROVE  IInv'
         BY <2>6, ActAsStep
   <2>7. ASSUME NEW r \in Requests, NEW p \in Principals, Verify(r, p)
         PROVE  IInv'
         BY <2>7, VerifyStep
   <2>8. ASSUME NEW r \in Requests, Rehash(r) \/ Sign(r)
         PROVE  IInv'
         BY <2>8, RehashStep, SignStep
   <2>9. ASSUME NEW r \in Requests, NEW s \in SessionIds, LoginCreates(r, s) \/ Refresh(r, s)
         PROVE  IInv'
         BY <2>9, LoginCreatesStep, RefreshStep
   <2>10. ASSUME NEW i \in ChallengeIds, NEW p \in Customers, RequestOtp(i, p)
          PROVE  IInv'
          BY <2>10, RequestOtpStep
   <2>11. ASSUME NEW i \in ChallengeIds, ChallengeEnds(i) \/ WrongOtp(i)
          PROVE  IInv'
          BY <2>11, ChallengeEndsStep
   <2>12. ASSUME NEW r \in Requests, NEW i \in ChallengeIds, NEW s \in SessionIds,
                 VerifyOtp(r, i, s)
          PROVE  IInv'
          BY <2>12, VerifyOtpStep
   <2>13. ASSUME NEW s \in SessionIds,
                 RefreshReuse(s) \/ Logout(s) \/ LogoutAll(s) \/ SessionExpires(s)
          PROVE  IInv'
          BY <2>13, RefreshReuseStep, LogoutSteps, SessionExpiresStep
   <2>14. ASSUME NEW x \in Changes, NEW a \in Admins, NEW status \in Statuses, NEW city \in Cities,
                 BeginUpdateAdmin(x, a, status, city)
          PROVE  IInv'
          BY <2>14, BeginUpdateAdminStep
   <2>15. ASSUME NEW x \in Changes, NEW a \in Admins, BeginResetAdminPassword(x, a)
          PROVE  IInv'
          BY <2>15, BeginResetSteps, Kinds
   <2>16. ASSUME NEW x \in Changes, NEW r \in Requests, NEW e \in Employees,
                 NEW status \in Statuses, BeginUpdateEmployee(x, r, e, status)
          PROVE  IInv'
          BY <2>16, BeginUpdateEmployeeStep
   <2>17. ASSUME NEW x \in Changes, NEW m \in Merchants, NEW status \in Statuses,
                 BeginUpdateMerchant(x, m, status)
          PROVE  IInv'
          BY <2>17, BeginUpdateMerchantStep
   <2>18. ASSUME NEW x \in Changes, NEW m \in Merchants, NEW store \in Stores,
                 BeginTransferStore(x, m, store)
          PROVE  IInv'
          BY <2>18, BeginTransferStoreStep
   <2>19. ASSUME NEW x \in Changes, NEW m \in Merchants, BeginResetMerchantPassword(x, m)
          PROVE  IInv'
          BY <2>19, BeginResetSteps, Kinds
   <2>20. ASSUME NEW x \in Changes, NEW m \in Merchants, NEW s \in SessionIds,
                 BeginChangePassword(x, m, s)
          PROVE  IInv'
          BY <2>20, BeginChangePasswordStep
   <2>21. ASSUME NEW x \in Changes, NEW d \in Drivers, NEW status \in Statuses, NEW city \in Cities,
                 NEW phone \in BOOLEAN, BeginUpdateDriver(x, d, status, city, phone)
          PROVE  IInv'
          BY <2>21, BeginUpdateDriverStep
   <2>22. ASSUME NEW x \in Changes, NEW d \in Drivers, BeginResetAccessCode(x, d)
          PROVE  IInv'
          BY <2>22, BeginResetSteps, Kinds
   <2>23. ASSUME NEW x \in Changes, NEW city \in Cities, BeginClosing(x, city)
          PROVE  IInv'
          BY <2>23, BeginClosingStep
   <2>24. ASSUME NEW x \in Changes, Commit(x)
          PROVE  IInv'
          BY <2>24, CommitStep
   <2>25. ASSUME NEW city \in Cities, Reopen(city)
          PROVE  IInv'
          BY <2>25, ReopenStep
   <2>26. CASE Next
          BY <2>2, <2>3, <2>4, <2>5, <2>6, <2>7, <2>8, <2>9, <2>10, <2>11, <2>12, <2>13, <2>14,
             <2>15, <2>16, <2>17, <2>18, <2>19, <2>20, <2>21, <2>22, <2>23, <2>24, <2>25, <2>26
          DEF Next
   <2> QED
       BY <2>1, <2>26
<1> QED
    BY <1>1, <1>2, PTL DEF Spec

\* The state of every account, session, request and transaction is of its type.
THEOREM AccountsTypeCorrect == Spec => []TypeOK
<1>1. IInv => TypeOK
      BY DEF IInv
<1> QED
    BY <1>1, Invariance, PTL

\* However logins, refreshes and revocations interleave, an account has no more sessions
\* than its application allows (session-service.ts:57-73): the oldest make room for each
\* new one in the transaction that creates it.
THEOREM LimitAlwaysHolds == Spec => []LimitHolds
<1>1. IInv => LimitHolds
      BY CastsArePrincipals DEF IInv, TypeOK, WithinLimit, LimitHolds
<1> QED
    BY <1>1, Invariance, PTL

\* A refresh token presented a second time ends its session and all that a staff account
\* had opened before it, for good (session-service.ts:255-261).
THEOREM ReuseIsAlwaysFatal == Spec => []ReuseIsFatal
<1>1. IInv => ReuseIsFatal
      BY DEF IInv
<1> QED
    BY <1>1, Invariance, PTL

\* Disabling an account and giving it a new secret put out every session that was open,
\* whatever was under way at the time, but for the logins that had read the account before
\* (staff-organization.service.ts:258-266, merchant-organization.service.ts:465-471,
\* driver-management.service.ts:411-416).
THEOREM RevokedStayOut == Spec => []RevokedAreOut
<1>1. IInv => RevokedAreOut
      BY DEF IInv, RevokedAreOut
<1> QED
    BY <1>1, Invariance, PTL

\* Tokens name the account's own city while it is active, and employees follow their admin,
\* however transactions on both overlap (staff-organization.service.ts:255-290, 490-506).
THEOREM ScopesAlwaysAgree == Spec => []ScopesAgree
<1>1. IInv => EmployeesFollowTheirAdmin
   <2> SUFFICES ASSUME IInv, NEW e \in cast \cap Employees,
                       profiles[e].status = "ACTIVE", ~profiles[e].late
                PROVE  /\ profiles[profiles[e].manager].status = "ACTIVE"
                       /\ profiles[profiles[e].manager].scope = profiles[e].scope
       BY DEF EmployeesFollowTheirAdmin
   <2>1. ProfileSound(e)
         BY Kinds DEF IInv
   <2> QED
       BY <2>1 DEF ProfileSound, Follows
<1>2. IInv => ScopesAgree
      BY <1>1 DEF IInv, ScopesAgree
<1> QED
    BY <1>2, Invariance, PTL

=============================================================================
