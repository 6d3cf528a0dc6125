----------------------- MODULE DeliveryPricing_proofs -----------------------
(***************************************************************************)
(* What DeliveryPricing promises, for any number of processes, quotes and  *)
(* activations: a quote charges by a version that was active after it, or  *)
(* the load it waits for, began; the copy in Redis never goes back; the    *)
(* fee is the least multiple of the step that covers the cost.             *)
(*                                                                         *)
(* A quote that waits is only as good as the load it waits for, so IInv    *)
(* follows the loads: what a load publishes was read after it began, and   *)
(* the quotes in its process wait for that load and for no other.          *)
(***************************************************************************)
EXTENDS DeliveryPricing, TLAPS

USE DeliveryPricingAssumption DEF DeliveryPricingAssumption

----------------------------------------------------------------------------
(* The inductive invariant. *)

\* Nothing that is published, in a copy or under way is of a revision to come.
CacheSound == cache \in Revisions => cache <= Current

ActivatorSound(a) ==
    /\ activators[a].revision <= Current
    /\ activators[a] # Idle => activators[a].revision > 0

LoadSound(p) ==
    /\ loads[p].since <= Current
    /\ loads[p].step = "publishing" =>
           /\ loads[p].publish.revision \in 1 .. Current
           /\ loads[p].publish.revision >= loads[p].since

QuoteSound(q) ==
    /\ quotes[q].since <= Current
    /\ quotes[q].step \in {"checking", "missed", "waiting"} => quotes[q].process \in Processes
    /\ quotes[q].step = "waiting" =>
           /\ loads[quotes[q].process].step # "none"
           /\ loads[quotes[q].process].since = quotes[q].since
    /\ quotes[q].step = "priced" => quotes[q].price >= quotes[q].since

IInv ==
    /\ TypeOK
    /\ CacheSound
    /\ \A a \in Activators : ActivatorSound(a)
    /\ \A p \in Processes : LoadSound(p)
    /\ \A q \in Quotes : QuoteSound(q)

LEMMA FunctionIsSeq ==
    ASSUME NEW S, NEW n \in Nat, NEW f \in [1 .. n -> S]
    PROVE  f \in Seq(S) /\ Len(f) = n
OBVIOUS

LEMMA Rows ==
    ASSUME TypeOK
    PROVE  /\ Current \in 0 .. MaxActivations
           /\ \A p \in Processes : /\ loads[p] \in Load /\ loads[p].since \in 0 .. MaxActivations
                                   /\ loads[p].publish \in Publish
                                   /\ loads[p].publish.revision \in 0 .. MaxActivations
           /\ \A q \in Quotes : quotes[q] \in Quote /\ quotes[q].since \in 0 .. MaxActivations
           /\ \A a \in Activators : /\ activators[a] \in Publish
                                    /\ activators[a].revision \in 0 .. MaxActivations
<1>1. Current \in 0 .. MaxActivations
  BY DEF TypeOK, Current
<1>2. ASSUME NEW p \in Processes
      PROVE  /\ loads[p] \in Load /\ loads[p].since \in 0 .. MaxActivations
             /\ loads[p].publish \in Publish /\ loads[p].publish.revision \in 0 .. MaxActivations
  BY <1>2 DEF TypeOK, Load, Publish
<1>3. ASSUME NEW q \in Quotes PROVE quotes[q] \in Quote /\ quotes[q].since \in 0 .. MaxActivations
  BY <1>3 DEF TypeOK, Quote
<1>4. ASSUME NEW a \in Activators
      PROVE  activators[a] \in Publish /\ activators[a].revision \in 0 .. MaxActivations
  BY <1>4 DEF TypeOK, Publish
<1>. QED  BY <1>1, <1>2, <1>3, <1>4

LEMMA InitInv == Init => IInv
<1> SUFFICES ASSUME Init PROVE IInv
  OBVIOUS
<1>1. Current = 0 /\ Len(versions) = 0
  BY DEF Init, Current
<1>2. TypeOK
  BY <1>1 DEF Init, TypeOK, Current, Revisions, Publish, Idle, Load, NoLoad, Quote, NoQuote, Statuses
<1>3. CacheSound /\ \A a \in Activators : ActivatorSound(a)
  BY <1>1 DEF Init, CacheSound, ActivatorSound, Revisions, Idle
<1>4. (\A p \in Processes : LoadSound(p)) /\ (\A q \in Quotes : QuoteSound(q))
  BY <1>1 DEF Init, LoadSound, QuoteSound, NoLoad, NoQuote, Idle
<1>. QED  BY <1>2, <1>3, <1>4 DEF IInv

----------------------------------------------------------------------------
(* Versions. *)

LEMMA CreateKeeps == ASSUME IInv, Create PROVE IInv'
<1>1. /\ versions' \in Seq(Statuses) /\ Len(versions') = Len(versions) + 1
      /\ Len(versions) \in Nat /\ Len(TermsOf) \in Nat
  BY DEF IInv, TypeOK, Create, Statuses
<1>2. activations' \in Seq(1 .. Len(versions'))
  <2>1. activations \in Seq(1 .. Len(versions)) /\ 1 .. Len(versions) \subseteq 1 .. Len(versions')
    BY <1>1 DEF IInv, TypeOK
  <2>. QED  BY <2>1 DEF Create
<1>3. TypeOK'
  BY <1>1, <1>2 DEF IInv, TypeOK, Create, Current
<1>. QED  BY <1>3 DEF IInv, CacheSound, ActivatorSound, LoadSound, QuoteSound, Create, Current,
             Revisions, Idle

LEMMA ActivateKeeps ==
    ASSUME IInv, NEW a \in Activators, NEW v \in DOMAIN versions, Activate(a, v) PROVE IInv'
<1>1. v \in 1 .. Len(versions)
  BY DEF IInv, TypeOK
<1>2. versions' \in Seq(Statuses) /\ Len(versions') = Len(versions)
  <2>1. DOMAIN versions = 1 .. Len(versions) /\ Len(versions) \in Nat
    BY DEF IInv, TypeOK
  <2>2. \A w \in 1 .. Len(versions) : versions[w] \in Statuses
    BY DEF IInv, TypeOK
  <2>3. versions' \in [1 .. Len(versions) -> Statuses]
    BY <2>1, <2>2 DEF Activate, Statuses
  <2>. QED  BY <2>1, <2>3, FunctionIsSeq
<1>3. activations' \in Seq(1 .. Len(versions')) /\ Current' = Current + 1 /\ Current \in Nat
  BY <1>1, <1>2 DEF IInv, TypeOK, Activate, Current
<1>4. activators' \in [Activators -> Publish]
  BY <1>3 DEF IInv, TypeOK, Activate, Publish
<1>5. TypeOK'
  <2>1. Len(versions') <= Len(TermsOf) /\ Current' <= MaxActivations
    BY <1>2, <1>3 DEF IInv, TypeOK, Activate
  <2>. QED  BY <1>2, <1>3, <1>4, <2>1 DEF IInv, TypeOK, Activate, Revisions
<1>6. ASSUME NEW b \in Activators PROVE ActivatorSound(b)'
  <2>1. activators[b].revision \in Nat /\ ActivatorSound(b)
    BY <1>6, Rows DEF IInv
  <2>2. CASE b = a
    <3>1. activators'[b] = [revision |-> Current + 1, failed |-> 0]
      BY <2>2 DEF IInv, TypeOK, Activate
    <3>. QED  BY <1>3, <3>1 DEF ActivatorSound
  <2>3. CASE b # a
    <3>1. activators'[b] = activators[b]
      BY <2>3, <1>6 DEF IInv, TypeOK, Activate
    <3>. QED  BY <1>3, <2>1, <3>1 DEF ActivatorSound, Idle
  <2>. QED  BY <2>2, <2>3
<1>7. CacheSound'
  BY <1>3 DEF IInv, TypeOK, CacheSound, Activate, Revisions
<1>8. ASSUME NEW p \in Processes PROVE LoadSound(p)'
  <2>1. loads[p].since \in Nat /\ loads[p].publish.revision \in Nat /\ LoadSound(p)
    BY <1>8, Rows DEF IInv
  <2>2. loads' = loads
    BY DEF Activate
  <2>. QED  BY <1>3, <2>1, <2>2 DEF LoadSound
<1>9. ASSUME NEW q \in Quotes PROVE QuoteSound(q)'
  BY <1>3, <1>9 DEF IInv, TypeOK, QuoteSound, Activate, Quote
<1>. QED  BY <1>5, <1>6, <1>7, <1>8, <1>9 DEF IInv

----------------------------------------------------------------------------
(* Publishing. *)

\* One attempt to publish a revision that is not from the future.
LEMMA AttemptKeeps ==
    ASSUME TypeOK, CacheSound, NEW revision \in 1 .. Current, Attempted(revision)
    PROVE  /\ cache' \in Revisions \cup {None, Corrupt}
           /\ cache' \in Revisions => cache' <= Current
           /\ {cache, cache'} \subseteq Revisions => cache' >= cache
<1>1. Current \in 0 .. MaxActivations
  BY DEF TypeOK, Current
<1>2. revision \in Revisions
  BY <1>1 DEF Revisions
<1>. QED  BY <1>1, <1>2 DEF Attempted, WriteIfNewer, TypeOK, CacheSound, Revisions

LEMMA RemainingIsSound ==
    ASSUME NEW publish \in Publish
    PROVE  /\ Remaining(publish) \in Publish
           /\ Remaining(publish) # Idle => Remaining(publish).revision = publish.revision
<1>1. CASE redis \/ GivesUp(publish)
  BY <1>1 DEF Remaining, Publish, Idle
<1>2. CASE ~(redis \/ GivesUp(publish))
  <2>1. Remaining(publish) = [publish EXCEPT !.failed = 1]
    BY <1>2 DEF Remaining
  <2>. QED  BY <2>1 DEF Publish
<1>. QED  BY <1>1, <1>2

LEMMA PublishActivationKeeps ==
    ASSUME IInv, NEW a \in Activators, PublishActivation(a) PROVE IInv'
<1>1. activators[a].revision \in 1 .. Current /\ activators[a] \in Publish
  BY DEF IInv, TypeOK, ActivatorSound, PublishActivation, Publish, Current
<1>2. cache' \in Revisions \cup {None, Corrupt} /\ (cache' \in Revisions => cache' <= Current)
  BY <1>1, AttemptKeeps DEF IInv, PublishActivation
<1>3. activators'[a] = Remaining(activators[a]) /\ activators' \in [Activators -> Publish]
  BY <1>1, RemainingIsSound DEF IInv, TypeOK, PublishActivation
<1>4. TypeOK'
  BY <1>2, <1>3 DEF IInv, TypeOK, PublishActivation, Current, Revisions
<1>5. ASSUME NEW b \in Activators PROVE ActivatorSound(b)'
  <2>1. CASE b = a
    BY <1>1, <1>3, <2>1, RemainingIsSound DEF ActivatorSound, PublishActivation, Current, Publish, Idle
  <2>2. CASE b # a
    BY <2>2, <1>5 DEF IInv, TypeOK, ActivatorSound, PublishActivation, Current
  <2>. QED  BY <2>1, <2>2
<1>6. CacheSound'
  BY <1>2 DEF CacheSound, PublishActivation, Current, Revisions
<1>7. (\A p \in Processes : LoadSound(p))' /\ (\A q \in Quotes : QuoteSound(q))'
  BY DEF IInv, LoadSound, QuoteSound, PublishActivation, Current
<1>. QED  BY <1>4, <1>5, <1>6, <1>7 DEF IInv

----------------------------------------------------------------------------
(* Reading what is active. *)

\* A step that writes the quotes alone keeps the invariant if it keeps every quote's.
LEMMA QuotesKeep ==
    ASSUME IInv, UNCHANGED <<versions, activations, cache, redis, activators, loads>>,
           faults' \in 0 .. MaxFaults, quotes' \in [Quotes -> Quote],
           \A q \in Quotes : QuoteSound(q)'
    PROVE  IInv'
<1>1. TypeOK'
  BY DEF IInv, TypeOK, Current
<1>. QED  BY <1>1 DEF IInv, CacheSound, ActivatorSound, LoadSound, Current, Revisions, Idle

LEMMA BeginKeeps ==
    ASSUME IInv, NEW q \in Quotes, NEW p \in Processes, Begin(q, p) PROVE IInv'
<1>1. Current \in 0 .. MaxActivations /\ Current' = Current /\ loads' = loads
  BY DEF IInv, TypeOK, Current, Begin
<1>2. quotes'[q] \in Quote /\ quotes' = [quotes EXCEPT ![q] = quotes'[q]]
  BY <1>1 DEF IInv, TypeOK, Begin, Quote, Revisions
<1>3. quotes' \in [Quotes -> Quote]
  BY <1>2 DEF IInv, TypeOK
<1>4. quotes'[q].step \in {"checking", "missed"} /\ quotes'[q].process = p /\ quotes'[q].since = Current
  BY DEF IInv, TypeOK, Begin
<1>5. ASSUME NEW r \in Quotes PROVE QuoteSound(r)'
  <2>1. CASE r = q
    BY <1>1, <1>4, <2>1 DEF QuoteSound
  <2>2. CASE r # q
    BY <1>1, <1>2, <2>2, <1>5 DEF IInv, TypeOK, QuoteSound
  <2>. QED  BY <2>1, <2>2
<1>. QED  BY <1>3, <1>5, QuotesKeep DEF IInv, TypeOK, Begin

LEMMA CheckKeeps ==
    ASSUME IInv, NEW q \in Quotes, CheckRevision(q) \/ CheckFails(q) PROVE IInv'
<1>1. Current \in 0 .. MaxActivations /\ Current' = Current /\ loads' = loads
      /\ quotes[q] \in Quote
  BY DEF IInv, TypeOK, Current, CheckRevision, CheckFails
<1>2. /\ quotes' = [quotes EXCEPT ![q] = quotes'[q]]
      /\ quotes'[q] \in Quote
      /\ quotes'[q].since = quotes[q].since
      /\ quotes'[q].process = quotes[q].process
      /\ \/ quotes'[q].step = "missed"
         \/ quotes'[q].step = "priced" /\ quotes'[q].price = Current
  <2>1. CASE CheckRevision(q)
    <3>1. quotes'[q] = [quotes[q] EXCEPT
              !.step = IF quotes[q].raw = Current THEN "priced" ELSE "missed",
              !.price = IF quotes[q].raw = Current THEN quotes[q].raw ELSE 0]
      BY <2>1 DEF IInv, TypeOK, CheckRevision, IsCurrentRevision
    <3>2. quotes' = [quotes EXCEPT ![q] = quotes'[q]]
      BY <2>1 DEF IInv, TypeOK, CheckRevision
    <3>3. CASE quotes[q].raw = Current
      BY <1>1, <3>1, <3>2, <3>3 DEF Quote
    <3>4. CASE quotes[q].raw # Current
      <4>1. quotes'[q] = [quotes[q] EXCEPT !.step = "missed", !.price = 0]
        BY <3>1, <3>4
      <4>2. 0 \in 0 .. MaxActivations
        OBVIOUS
      <4>. QED  BY <1>1, <3>2, <4>1, <4>2 DEF Quote
    <3>. QED  BY <3>3, <3>4
  <2>2. CASE CheckFails(q)
    BY <1>1, <2>2 DEF IInv, TypeOK, CheckFails, Quote
  <2>. QED  BY <2>1, <2>2
<1>3. quotes' \in [Quotes -> Quote]
  BY <1>2 DEF IInv, TypeOK
<1>4. ASSUME NEW r \in Quotes PROVE QuoteSound(r)'
  <2>1. CASE r = q
    BY <1>1, <1>2, <2>1 DEF IInv, QuoteSound, CheckRevision, CheckFails, Quote
  <2>2. CASE r # q
    BY <1>1, <1>2, <2>2, <1>4 DEF IInv, TypeOK, QuoteSound
  <2>. QED  BY <2>1, <2>2
<1>5. faults' \in 0 .. MaxFaults
  BY DEF IInv, TypeOK, CheckRevision, CheckFails
<1>. QED  BY <1>3, <1>4, <1>5, QuotesKeep DEF CheckRevision, CheckFails

LEMMA EndKeeps == ASSUME IInv, NEW q \in Quotes, End(q) PROVE IInv'
<1>1. quotes' \in [Quotes -> Quote]
  BY DEF IInv, TypeOK, End, NoQuote, Quote
<1>2. ASSUME NEW r \in Quotes PROVE QuoteSound(r)'
  BY <1>2 DEF IInv, TypeOK, QuoteSound, End, NoQuote, Current
<1>. QED  BY <1>1, <1>2, QuotesKeep DEF IInv, TypeOK, End

\* A quote joins the load of its process, whoever started it.
LEMMA JoinKeeps == ASSUME IInv, NEW q \in Quotes, Join(q) PROVE IInv'
<1>0. PICK p \in Processes : p = quotes[q].process
  BY DEF IInv, QuoteSound, Join
<1>1. /\ loads[p] \in Load /\ quotes[q] \in Quote
      /\ Current \in 0 .. MaxActivations /\ Current' = Current
  BY DEF IInv, TypeOK, Join, Current
<1>2. /\ loads'[p] \in Load /\ loads' = [loads EXCEPT ![p] = loads'[p]]
      /\ loads'[p].step # "none" /\ LoadSound(p)' /\ loads'[p].since <= Current
      /\ loads[p].step # "none" => loads'[p] = loads[p]
  <2>1. CASE loads[p].step = "none"
    <3>1. loads' = [loads EXCEPT ![p] = [NoLoad EXCEPT !.step = "reading", !.since = Current]]
      BY <1>0, <2>1 DEF Join
    <3>2. loads'[p] = [NoLoad EXCEPT !.step = "reading", !.since = Current]
      BY <1>1, <3>1 DEF IInv, TypeOK
    <3>3. loads'[p] = [step |-> "reading", since |-> Current, publish |-> Idle]
      BY <3>2 DEF NoLoad
    <3>4. loads'[p] \in Load
      BY <1>1, <3>3 DEF Load, Publish, Idle
    <3>5. LoadSound(p)'
      BY <1>1, <3>3 DEF LoadSound
    <3>6. loads' = [loads EXCEPT ![p] = loads'[p]]
      BY <3>1, <3>2
    <3>7. loads'[p].step # "none" /\ loads'[p].since <= Current
      BY <1>1, <3>3
    <3>. QED  BY <2>1, <3>4, <3>5, <3>6, <3>7
  <2>2. CASE loads[p].step # "none"
    <3>1. loads' = loads
      BY <1>0, <2>2 DEF Join
    <3>2. LoadSound(p)
      BY <1>1 DEF IInv
    <3>3. loads = [loads EXCEPT ![p] = loads[p]]
      BY <1>1 DEF IInv, TypeOK
    <3>. QED  BY <1>1, <2>2, <3>1, <3>2, <3>3 DEF LoadSound
  <2>. QED  BY <2>1, <2>2
<1>3. /\ quotes' = [quotes EXCEPT ![q] = quotes'[q]]
      /\ quotes'[q] \in Quote
      /\ quotes'[q].step = "waiting" /\ quotes'[q].process = p
      /\ quotes'[q].since = loads'[p].since
  BY <1>0, <1>1, <1>2 DEF IInv, TypeOK, Join, Quote, Load
<1>4. TypeOK'
  BY <1>2, <1>3 DEF IInv, TypeOK, Join, Current, Revisions
<1>5. ASSUME NEW s \in Processes PROVE LoadSound(s)'
  <2>1. CASE s = p
    BY <1>2, <2>1
  <2>2. CASE s # p
    <3>1. loads'[s] = loads[s] /\ LoadSound(s)
      BY <1>2, <1>5, <2>2 DEF IInv, TypeOK
    <3>. QED  BY <1>1, <3>1 DEF LoadSound
  <2>. QED  BY <2>1, <2>2
<1>6. ASSUME NEW r \in Quotes PROVE QuoteSound(r)'
  <2>1. CASE r = q
    BY <1>1, <1>2, <1>3, <2>1 DEF QuoteSound
  <2>2. CASE r # q
    <3>1. quotes'[r] = quotes[r] /\ QuoteSound(r)
      BY <1>3, <1>6, <2>2 DEF IInv, TypeOK
    <3>2. ASSUME quotes[r].step = "waiting"
          PROVE  loads'[quotes[r].process] = loads[quotes[r].process]
      BY <1>2, <3>1, <3>2 DEF IInv, TypeOK, QuoteSound
    <3>. QED  BY <1>1, <3>1, <3>2 DEF QuoteSound
  <2>. QED  BY <2>1, <2>2
<1>7. CacheSound' /\ \A a \in Activators : ActivatorSound(a)'
  BY <1>1 DEF IInv, CacheSound, ActivatorSound, Join, Revisions
<1>. QED  BY <1>4, <1>5, <1>6, <1>7 DEF IInv

----------------------------------------------------------------------------
(* The load of a process. *)

LEMMA ReadActiveKeeps == ASSUME IInv, NEW p \in Processes, ReadActive(p) PROVE IInv'
<1>1. /\ loads[p] \in Load
      /\ Current \in 1 .. MaxActivations /\ Current' = Current
  BY DEF IInv, TypeOK, ReadActive, Current
<1>2. /\ loads' = [loads EXCEPT ![p] = loads'[p]]
      /\ loads'[p] \in Load
      /\ loads'[p].step = "publishing" /\ loads'[p].since = loads[p].since
      /\ loads'[p].publish.revision = Current
  <2>1. loads'[p] = [loads[p] EXCEPT !.step = "publishing",
                                     !.publish = [revision |-> Current, failed |-> 0]]
    BY DEF IInv, TypeOK, ReadActive
  <2>2. [revision |-> Current, failed |-> 0] \in Publish
    BY <1>1 DEF Publish
  <2>3. loads' = [loads EXCEPT ![p] = loads'[p]]
    BY DEF IInv, TypeOK, ReadActive
  <2>4. loads'[p] = [step |-> "publishing", since |-> loads[p].since,
                     publish |-> [revision |-> Current, failed |-> 0]]
    BY <1>1, <2>1 DEF Load
  <2>. QED  BY <1>1, <2>2, <2>3, <2>4 DEF Load
<1>3. TypeOK'
  BY <1>2 DEF IInv, TypeOK, ReadActive, Current, Revisions
<1>4. ASSUME NEW s \in Processes PROVE LoadSound(s)'
  <2>1. loads[s].since \in Nat /\ LoadSound(s)
    BY <1>4, Rows DEF IInv
  <2>2. CASE s = p
    BY <1>1, <1>2, <2>1, <2>2 DEF LoadSound
  <2>3. CASE s # p
    <3>1. loads'[s] = loads[s]
      BY <1>2, <1>4, <2>3 DEF IInv, TypeOK
    <3>. QED  BY <1>1, <2>1, <3>1 DEF LoadSound
  <2>. QED  BY <2>2, <2>3
<1>5. ASSUME NEW r \in Quotes PROVE QuoteSound(r)'
  BY <1>1, <1>2, <1>5 DEF IInv, TypeOK, QuoteSound, ReadActive
<1>6. CacheSound' /\ \A a \in Activators : ActivatorSound(a)'
  BY <1>1 DEF IInv, CacheSound, ActivatorSound, ReadActive, Revisions
<1>. QED  BY <1>3, <1>4, <1>5, <1>6 DEF IInv

\* When a load is over, those who wait for it have its result, and nobody else does.
LEMMA FinishedIsSound ==
    ASSUME IInv, NEW p \in Processes, loads[p].step # "none",
           NEW step \in {"failed", "priced"}, NEW revision \in 0 .. MaxActivations,
           step = "priced" => revision >= loads[p].since,
           loads' = [loads EXCEPT ![p] = NoLoad], activations' = activations,
           Finished(p, step, revision)
    PROVE  /\ loads' \in [Processes -> Load] /\ quotes' \in [Quotes -> Quote]
           /\ \A s \in Processes : LoadSound(s)'
           /\ \A r \in Quotes : QuoteSound(r)'
<1>1. loads' \in [Processes -> Load] /\ quotes' \in [Quotes -> Quote]
  <2>1. NoLoad \in Load
    BY DEF Load, NoLoad, Publish, Idle
  <2>2. \A r \in Quotes : [quotes[r] EXCEPT !.step = step, !.price = revision] \in Quote
    BY DEF IInv, TypeOK, Quote
  <2>. QED  BY <2>1, <2>2 DEF IInv, TypeOK, Finished
<1>2. ASSUME NEW s \in Processes PROVE LoadSound(s)'
  BY <1>2 DEF IInv, TypeOK, LoadSound, NoLoad, Current
<1>3. ASSUME NEW r \in Quotes PROVE QuoteSound(r)'
  <2>1. quotes[r] \in Quote /\ QuoteSound(r)
    BY <1>3 DEF IInv, TypeOK
  <2>2. CASE quotes[r].step = "waiting" /\ quotes[r].process = p
    <3>1. quotes'[r] = [quotes[r] EXCEPT !.step = step, !.price = revision]
      BY <1>3, <2>2 DEF Finished
    <3>. QED  BY <2>1, <2>2, <3>1 DEF QuoteSound, Quote, Current
  <2>3. CASE ~(quotes[r].step = "waiting" /\ quotes[r].process = p)
    <3>1. quotes'[r] = quotes[r]
      BY <1>3, <2>3 DEF Finished
    <3>. QED  BY <2>1, <2>3, <3>1 DEF QuoteSound, IInv, TypeOK, Current
  <2>. QED  BY <2>2, <2>3
<1>. QED  BY <1>1, <1>2, <1>3

LEMMA ReadFailsKeeps == ASSUME IInv, NEW p \in Processes, ReadFails(p) PROVE IInv'
<1>1. /\ loads' \in [Processes -> Load] /\ quotes' \in [Quotes -> Quote]
      /\ \A s \in Processes : LoadSound(s)'
      /\ \A r \in Quotes : QuoteSound(r)'
  <2>1. loads[p].step # "none" /\ loads' = [loads EXCEPT ![p] = NoLoad]
        /\ activations' = activations /\ Finished(p, "failed", 0)
    BY DEF ReadFails
  <2>2. 0 \in 0 .. MaxActivations
    OBVIOUS
  <2>. QED  BY <2>1, <2>2, FinishedIsSound
<1>2. TypeOK'
  BY <1>1 DEF IInv, TypeOK, ReadFails, Current, Revisions
<1>3. CacheSound' /\ \A a \in Activators : ActivatorSound(a)'
  BY DEF IInv, CacheSound, ActivatorSound, ReadFails, Revisions, Current
<1>. QED  BY <1>1, <1>2, <1>3 DEF IInv

LEMMA PublishLoadKeeps == ASSUME IInv, NEW p \in Processes, PublishLoad(p) PROVE IInv'
<1> DEFINE publish == loads[p].publish
           rest == Remaining(publish)
<1>1. /\ loads[p] \in Load /\ publish \in Publish /\ LoadSound(p)
      /\ publish.revision \in 1 .. Current /\ publish.revision >= loads[p].since
      /\ Current \in 0 .. MaxActivations /\ Current' = Current
  BY DEF IInv, TypeOK, LoadSound, PublishLoad, Current, Load
<1>2. cache' \in Revisions \cup {None, Corrupt} /\ (cache' \in Revisions => cache' <= Current)
  BY <1>1, AttemptKeeps DEF IInv, PublishLoad
<1>3. /\ loads' \in [Processes -> Load] /\ quotes' \in [Quotes -> Quote]
      /\ \A s \in Processes : LoadSound(s)'
      /\ \A r \in Quotes : QuoteSound(r)'
  <2>1. CASE rest = Idle
    <3>1. loads' = [loads EXCEPT ![p] = NoLoad] /\ Finished(p, "priced", publish.revision)
      BY <2>1 DEF PublishLoad
    <3>2. publish.revision \in 0 .. MaxActivations /\ loads[p].step # "none"
      BY <1>1 DEF PublishLoad
    <3>. QED  BY <1>1, <3>1, <3>2, FinishedIsSound DEF PublishLoad
  <2>2. CASE rest # Idle
    <3>1. loads' = [loads EXCEPT ![p].publish = rest] /\ quotes' = quotes
      BY <2>2 DEF PublishLoad
    <3>2. rest \in Publish /\ rest.revision = publish.revision
      BY <1>1, <2>2, RemainingIsSound
    <3>3. /\ loads'[p] \in Load /\ loads' = [loads EXCEPT ![p] = loads'[p]]
          /\ loads'[p].step = loads[p].step /\ loads'[p].since = loads[p].since
          /\ loads'[p].publish.revision = publish.revision
      <4> HIDE DEF rest, publish
      <4>. QED  BY <1>1, <3>1, <3>2 DEF IInv, TypeOK, Load
    <3>4. ASSUME NEW s \in Processes PROVE LoadSound(s)'
      BY <1>1, <3>3, <3>4 DEF IInv, TypeOK, LoadSound
    <3>5. ASSUME NEW r \in Quotes PROVE QuoteSound(r)'
      BY <1>1, <3>1, <3>3, <3>5 DEF IInv, TypeOK, QuoteSound
    <3>. QED  BY <3>1, <3>3, <3>4, <3>5 DEF IInv, TypeOK
  <2>. QED  BY <2>1, <2>2
<1>4. TypeOK'
  BY <1>2, <1>3 DEF IInv, TypeOK, PublishLoad, Current, Revisions
<1>5. CacheSound' /\ \A a \in Activators : ActivatorSound(a)'
  BY <1>1, <1>2 DEF IInv, CacheSound, ActivatorSound, PublishLoad, Revisions
<1>. QED  BY <1>3, <1>4, <1>5 DEF IInv

----------------------------------------------------------------------------
(* Redis. *)

LEMMA RedisKeeps == ASSUME IInv, Away \/ Back \/ Expire \/ Spoil PROVE IInv'
<1>1. /\ UNCHANGED <<versions, activations, activators, loads, quotes>>
      /\ redis' \in BOOLEAN /\ faults' \in 0 .. MaxFaults
      /\ cache' \in {cache, None, Corrupt}
  <2>1. CASE Away
    <3>1. faults \in 0 .. MaxFaults /\ faults + 1 <= MaxFaults
      BY <2>1 DEF IInv, TypeOK, Away
    <3>2. faults' \in 0 .. MaxFaults
      BY <2>1, <3>1 DEF Away
    <3>3. redis' \in BOOLEAN
      BY <2>1 DEF Away
    <3>. QED  BY <2>1, <3>2, <3>3 DEF Away
  <2>3. CASE Back
    BY <2>3 DEF IInv, TypeOK, Back
  <2>2. CASE Expire \/ Spoil
    BY <2>2 DEF IInv, TypeOK, Expire, Spoil
  <2>. QED  BY <2>1, <2>2, <2>3
<1>2. TypeOK'
  BY <1>1 DEF IInv, TypeOK, Current, Revisions
<1>3. CacheSound'
  BY <1>1 DEF IInv, CacheSound, Current, Revisions
<1>. QED  BY <1>1, <1>2, <1>3 DEF IInv, ActivatorSound, LoadSound, QuoteSound, Current, Idle

----------------------------------------------------------------------------
(* The theorems. *)

LEMMA StepInv == IInv /\ [Next]_vars => IInv'
<1> SUFFICES ASSUME IInv, [Next]_vars PROVE IInv'
  OBVIOUS
<1>1. CASE UNCHANGED vars
  BY <1>1 DEF IInv, vars, TypeOK, CacheSound, ActivatorSound, LoadSound, QuoteSound, Current,
     Revisions, Idle
<1>2. CASE Next
  BY <1>2, CreateKeeps, ActivateKeeps, PublishActivationKeeps, BeginKeeps, CheckKeeps, JoinKeeps,
     EndKeeps, ReadActiveKeeps, ReadFailsKeeps, PublishLoadKeeps, RedisKeeps
     DEF Next, QuoteStep, LoadStep
<1>. QED  BY <1>1, <1>2

LEMMA Invariance == Spec => []IInv
BY InitInv, StepInv, PTL DEF Spec

\* Versions, copies, loads and quotes have their types, whatever fails.
THEOREM PricingTypeCorrect == Spec => []TypeOK
<1>1. IInv => TypeOK  BY DEF IInv
<1>. QED  BY <1>1, Invariance, PTL

\* A quote never charges by a version that was retired before it, or the load whose
\* result it shares, began (active, isCurrentRevision, loadActive).
THEOREM QuoteIsCurrentAlways == Spec => []QuoteIsCurrent
<1>1. IInv => QuoteIsCurrent  BY DEF IInv, QuoteSound, QuoteIsCurrent
<1>. QED  BY <1>1, Invariance, PTL

LEMMA CacheStep ==
    IInv /\ [Next]_vars =>
        [({cache, cache'} \subseteq Revisions) => (cache' >= cache /\ cache' <= Current)]_vars
<1> SUFFICES ASSUME IInv, Next, {cache, cache'} \subseteq Revisions
             PROVE  cache' >= cache /\ cache' <= Current
  OBVIOUS
<1>1. TypeOK /\ CacheSound /\ cache <= Current /\ cache \in Nat
  BY DEF IInv, CacheSound, Revisions
<1>2. CASE cache' = cache
  BY <1>1, <1>2
<1>3. ASSUME NEW a \in Activators, PublishActivation(a)
      PROVE  cache' >= cache /\ cache' <= Current
  <2>1. activators[a].revision \in 1 .. Current
    BY <1>3 DEF IInv, TypeOK, ActivatorSound, PublishActivation, Publish, Current
  <2>. QED  BY <1>1, <1>3, <2>1, AttemptKeeps DEF PublishActivation
<1>4. ASSUME NEW p \in Processes, PublishLoad(p)
      PROVE  cache' >= cache /\ cache' <= Current
  <2>1. loads[p].publish.revision \in 1 .. Current
    BY <1>4 DEF IInv, LoadSound, PublishLoad
  <2>. QED  BY <1>1, <1>4, <2>1, AttemptKeeps DEF PublishLoad
<1>5. CASE Expire \/ Spoil
  BY <1>5 DEF Expire, Spoil, Revisions
<1>. QED  BY <1>2, <1>3, <1>4, <1>5
          DEF Next, QuoteStep, LoadStep, Create, Activate, Begin, CheckRevision, CheckFails, Join,
              End, ReadActive, ReadFails, Away, Back

\* The copy in Redis never goes back, whoever publishes late (casScript).
THEOREM CacheAdvancesAlways == Spec => CacheAdvances
BY CacheStep, Invariance, PTL DEF Spec, CacheAdvances

----------------------------------------------------------------------------
(* The fee. *)

LEMMA Division ==
    ASSUME NEW a \in Nat, NEW k \in Nat \ {0}
    PROVE  /\ a \div k \in Nat
           /\ (a \div k) * k <= a
           /\ a < (a \div k) * k + k
OBVIOUS

LEMMA ProductIsMonotone ==
    ASSUME NEW a \in Nat, NEW b \in Nat, NEW k \in Nat, a <= b
    PROVE  a * k <= b * k
OBVIOUS

LEMMA QuotientIsMonotone ==
    ASSUME NEW a \in Nat, NEW b \in Nat, NEW k \in Nat \ {0}, a <= b
    PROVE  a \div k <= b \div k
<1> DEFINE x == a \div k
           y == b \div k
<1>1. x \in Nat /\ y \in Nat /\ x * k <= a /\ b < y * k + k
  BY Division
<1> HIDE DEF x, y
<1>2. x * k < (y + 1) * k
  BY <1>1
<1>3. ~(y + 1 <= x)
  BY <1>1, <1>2, ProductIsMonotone
<1>4. x <= y
  BY <1>1, <1>3
<1>. QED  BY <1>4 DEF x, y

LEMMA MultipleOf ==
    ASSUME NEW q \in Nat, NEW k \in Nat \ {0}
    PROVE  (q * k) % k = 0
OBVIOUS

TermsRow == [base : Nat, included : Nat, perKm : Nat, step : Nat \ {0}, maximum : Nat \cup {None}]

\* The exact cost is a natural number, and grows with the way.
LEMMA RawCostGrows ==
    ASSUME NEW terms \in TermsRow, NEW d \in Nat, NEW e \in Nat, e <= d
    PROVE  /\ RawCost(terms, d) \in Nat /\ RawCost(terms, e) \in Nat
           /\ RawCost(terms, e) <= RawCost(terms, d)
<1> DEFINE free == terms.included * 10
           far(x) == Larger(x, free) - free
<1>1. free \in Nat /\ terms.base \in Nat /\ terms.perKm \in Nat
  BY DEF TermsRow
<1>2. far(d) \in Nat /\ far(e) \in Nat /\ far(e) <= far(d)
  <2> HIDE DEF free
  <2>. QED  BY <1>1 DEF Larger
<1>3. /\ RawCost(terms, d) = terms.base * Denominator + far(d) * terms.perKm
      /\ RawCost(terms, e) = terms.base * Denominator + far(e) * terms.perKm
  BY DEF RawCost
<1> HIDE DEF far, free
<1>4. far(e) * terms.perKm <= far(d) * terms.perKm
  BY <1>1, <1>2, ProductIsMonotone
<1>5. far(e) * terms.perKm \in Nat /\ far(d) * terms.perKm \in Nat /\ terms.base * Denominator \in Nat
  BY <1>1, <1>2 DEF Denominator
<1>. QED  BY <1>3, <1>4, <1>5

\* Whole steps that cover a cost, and no step more.
LEMMA StepsCover ==
    ASSUME NEW cost \in Nat, NEW step \in Nat \ {0}
    PROVE  /\ Steps(cost, step) \in Nat
           /\ (Steps(cost, step) * step) % step = 0
           /\ (Steps(cost, step) * step) * Denominator >= cost
           /\ (Steps(cost, step) * step) * Denominator < cost + step * Denominator
<1> DEFINE k == Denominator * step
           a == cost + k - 1
           q == a \div k
<1>1. k \in Nat \ {0} /\ a \in Nat
  BY DEF Denominator
<1>2. Steps(cost, step) = q
  BY DEF Steps
<1>3. q \in Nat /\ q * k <= a /\ a < q * k + k
  <2> HIDE DEF k, a
  <2>. QED  BY <1>1, Division
<1>4. q * k >= cost /\ q * k < cost + k
  <2> HIDE DEF q, k
  <2>. QED  BY <1>1, <1>3
<1>5. (q * step) * Denominator = q * k /\ k = step * Denominator
  <2> HIDE DEF q
  <2>. QED  BY <1>3 DEF Denominator
<1>6. (q * step) % step = 0
  <2> HIDE DEF q
  <2>. QED  BY <1>3, MultipleOf
<1> HIDE DEF q, k
<1>. QED  BY <1>2, <1>3, <1>4, <1>5, <1>6

LEMMA StepsGrow ==
    ASSUME NEW x \in Nat, NEW y \in Nat, NEW step \in Nat \ {0}, x <= y
    PROVE  Steps(x, step) * step <= Steps(y, step) * step
<1>1. Denominator * step \in Nat \ {0}
  BY DEF Denominator
<1>2. Steps(x, step) <= Steps(y, step)
  <2> DEFINE k == Denominator * step
  <2>1. x + k - 1 \in Nat /\ y + k - 1 \in Nat /\ x + k - 1 <= y + k - 1
    <3> HIDE DEF k
    <3>. QED  BY <1>1 DEF k
  <2>2. Steps(x, step) = (x + k - 1) \div k /\ Steps(y, step) = (y + k - 1) \div k
    BY DEF Steps
  <2> HIDE DEF k
  <2>. QED  BY <1>1, <2>1, <2>2, QuotientIsMonotone DEF k
<1>3. Steps(x, step) \in Nat /\ Steps(y, step) \in Nat
  BY StepsCover
<1>. QED  BY <1>2, <1>3, ProductIsMonotone

LEMMA FeeIsRight ==
    ASSUME NEW terms \in TermsRow, NEW d \in Nat, Fee(terms, d) # None
    PROVE  /\ Fee(terms, d) % terms.step = 0
           /\ Fee(terms, d) * Denominator >= RawCost(terms, d)
           /\ Fee(terms, d) * Denominator < RawCost(terms, d) + terms.step * Denominator
           /\ \A e \in Nat : e <= d => Fee(terms, e) # None /\ Fee(terms, e) <= Fee(terms, d)
<1>1. terms.step \in Nat \ {0} /\ terms.maximum \in Nat \cup {None}
  BY DEF TermsRow
<1>2. ~(terms.maximum # None /\ d > terms.maximum * 10)
  BY DEF Fee
<1>3. Fee(terms, d) = Steps(RawCost(terms, d), terms.step) * terms.step
  BY <1>2 DEF Fee
<1>4. RawCost(terms, d) \in Nat
  BY RawCostGrows
<1>5. ASSUME NEW e \in Nat, e <= d
      PROVE  Fee(terms, e) # None /\ Fee(terms, e) <= Fee(terms, d)
  <2>1. ~(terms.maximum # None /\ e > terms.maximum * 10)
    BY <1>1, <1>2, <1>5
  <2>2. Fee(terms, e) = Steps(RawCost(terms, e), terms.step) * terms.step
    BY <2>1 DEF Fee
  <2>3. RawCost(terms, e) \in Nat /\ RawCost(terms, e) <= RawCost(terms, d)
    BY <1>5, RawCostGrows
  <2>4. Fee(terms, e) <= Fee(terms, d)
    BY <1>1, <1>3, <1>4, <2>2, <2>3, StepsGrow
  <2>5. Fee(terms, e) \in Nat
    <3>1. Steps(RawCost(terms, e), terms.step) \in Nat
      BY <1>1, <2>3, StepsCover
    <3>. QED  BY <1>1, <2>2, <3>1
  <2>. QED  BY <2>4, <2>5
<1>. QED  BY <1>1, <1>3, <1>4, <1>5, StepsCover

\* What is charged is the least multiple of the step that covers the exact cost, and
\* never falls with the distance (calculateDeliveryFee), for any terms and distances.
THEOREM FeeCoversCostAlways == Spec => []FeeCoversCost
<1>1. IInv => FeeCoversCost
  <2> SUFFICES ASSUME IInv, NEW v \in DOMAIN versions, NEW d \in Distances,
                      Fee(TermsOf[v], d) # None
               PROVE  /\ Fee(TermsOf[v], d) % TermsOf[v].step = 0
                      /\ Fee(TermsOf[v], d) * Denominator >= RawCost(TermsOf[v], d)
                      /\ Fee(TermsOf[v], d) * Denominator
                            < RawCost(TermsOf[v], d) + TermsOf[v].step * Denominator
                      /\ \A e \in Distances :
                            e <= d => Fee(TermsOf[v], e) # None
                                      /\ Fee(TermsOf[v], e) <= Fee(TermsOf[v], d)
    BY DEF FeeCoversCost
  <2>1. TermsOf \in Seq(TermsRow)
    BY DEF TermsRow
  <2>2. v \in 1 .. Len(TermsOf)
    <3>1. TypeOK
      BY DEF IInv
    <3>2. /\ versions \in Seq(Statuses)
          /\ Len(versions) <= Len(TermsOf)
      BY <3>1 DEF TypeOK
    <3>3. /\ DOMAIN versions = 1 .. Len(versions) /\ Len(versions) \in Nat
          /\ Len(TermsOf) \in Nat
      <4>1. \A s : versions \in Seq(s) =>
                DOMAIN versions = 1 .. Len(versions) /\ Len(versions) \in Nat
        OBVIOUS
      <4>2. Len(TermsOf) \in Nat
        BY <2>1
      <4>. QED  BY <3>2, <4>1, <4>2
    <3>4. PICK m, n : m = Len(versions) /\ n = Len(TermsOf)
      OBVIOUS
    <3>5. v \in 1 .. m /\ m <= n /\ m \in Nat /\ n \in Nat
      BY <3>2, <3>3, <3>4
    <3>6. v \in 1 .. n
      BY <3>5
    <3>. QED  BY <3>4, <3>6
  <2>3. TermsOf[v] \in TermsRow
    BY <2>1, <2>2
  <2>4. d \in Nat /\ Distances \subseteq Nat
    OBVIOUS
  <2>. QED  BY <2>3, <2>4, FeeIsRight
<1>. QED  BY <1>1, Invariance, PTL

============================================================================
