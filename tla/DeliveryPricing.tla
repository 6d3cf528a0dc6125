-------------------------- MODULE DeliveryPricing ---------------------------
(***************************************************************************)
(* What a delivery costs: the pricing versions of a city, one of them      *)
(* active, the copy of it that Redis holds, and the quotes that use it.    *)
(*                                                                         *)
(* Processes share PostgreSQL and Redis.  An activation publishes after it *)
(* has committed; a quote takes the copy if its revision is the current    *)
(* one, or else waits for the load that its process has under way, which   *)
(* it starts when there is none.  Redis may be away at any step.           *)
(***************************************************************************)
EXTENDS Naturals, Sequences, FiniteSets

CONSTANTS Processes, Quotes, Activators,
          TermsOf,        \* TermsOf[v]: what version v says
          Distances,      \* distances of deliveries, in tenths of a metre
          MaxActivations, \* bound: activations
          MaxFaults,      \* bound: how often Redis goes away, its copy goes bad or a check of it fails
          None, Corrupt

ASSUME DeliveryPricingAssumption ==
    /\ TermsOf \in Seq([base : Nat, included : Nat, perKm : Nat, step : Nat \ {0},
                       maximum : Nat \cup {None}])
    /\ MaxActivations \in Nat /\ MaxFaults \in Nat
    /\ Distances \subseteq Nat
    /\ None \notin Nat /\ Corrupt \notin Nat \cup {None}

VARIABLES
    versions,     \* PostgreSQL: city_delivery_pricing_versions of one city, their status
    activations,  \* activations[r]: the version that activation_revision r is of
    cache,        \* Redis: the revision of its copy, None or Corrupt
    redis,        \* whether Redis answers
    faults,       \* faults so far
    activators,   \* activators[a]: an activation that has committed and publishes
    loads,        \* loads[p]: what the process p has in its map of loads
    quotes        \* quotes[q]: the estimate q and how far it is

vars == <<versions, activations, cache, redis, faults, activators, loads, quotes>>

Revisions == 1 .. MaxActivations
Current == Len(activations)

Statuses == {"DRAFT", "ACTIVE", "INACTIVE"}

\* What is published, and how often that has failed; nothing when the revision is 0.
Publish == [revision : 0 .. MaxActivations, failed : 0 .. 1]
Idle == [revision |-> 0, failed |-> 0]

Load == [ step : {"none", "reading", "publishing"}, since : 0 .. MaxActivations,
          publish : Publish ]
NoLoad == [step |-> "none", since |-> 0, publish |-> Idle]

Quote == [ step    : {"idle", "checking", "missed", "waiting", "priced", "failed"},
           process : Processes \cup {None},
           raw     : 0 .. MaxActivations,     \* the revision it found in Redis
           began   : 0 .. MaxActivations,     \* the current revision when it began
           since   : 0 .. MaxActivations,     \* or when the load began that it waits for
           price   : 0 .. MaxActivations ]    \* the revision it charges by
NoQuote == [step |-> "idle", process |-> None, raw |-> 0, began |-> 0, since |-> 0, price |-> 0]

TypeOK ==
    /\ versions \in Seq(Statuses) /\ Len(versions) <= Len(TermsOf)
    /\ activations \in Seq(1 .. Len(versions)) /\ Current <= MaxActivations
    /\ cache \in Revisions \cup {None, Corrupt}
    /\ redis \in BOOLEAN
    /\ faults \in 0 .. MaxFaults
    /\ activators \in [Activators -> Publish]
    /\ loads \in [Processes -> Load]
    /\ quotes \in [Quotes -> Quote]

Init ==
    /\ versions = <<>>
    /\ activations = <<>>
    /\ cache = None
    /\ redis = TRUE
    /\ faults = 0
    /\ activators = [a \in Activators |-> Idle]
    /\ loads = [p \in Processes |-> NoLoad]
    /\ quotes = [q \in Quotes |-> NoQuote]

-----------------------------------------------------------------------------
(* The fee *)

Larger(x, y) == IF x > y THEN x ELSE y

\* The exact cost as a fraction of this denominator: distances are in tenths.
Denominator == 10000
RawCost(terms, distance) ==
    terms.base * Denominator
        + (Larger(distance, terms.included * 10) - terms.included * 10) * terms.perKm

\* (In the mutant: what is left of a step is not charged.)
StepsDown(cost, step) == cost \div (Denominator * step)
Steps(cost, step) == (cost + Denominator * step - 1) \div (Denominator * step)

\* calculateDeliveryFee; None stands for MAX_DISTANCE_EXCEEDED.
Fee(terms, distance) ==
    IF terms.maximum # None /\ distance > terms.maximum * 10 THEN None
    ELSE Steps(RawCost(terms, distance), terms.step) * terms.step

-----------------------------------------------------------------------------
(* Versions *)

\* Under the lock of the city's pricing: the next number.  Its terms never change.
Create ==
    /\ Len(versions) < Len(TermsOf)
    /\ versions' = Append(versions, "DRAFT")
    /\ UNCHANGED <<activations, cache, redis, faults, activators, loads, quotes>>

\* The version may have been active before.  One that is active is left alone.
Activate(a, v) ==
    /\ activators[a] = Idle
    /\ Current < MaxActivations
    /\ versions[v] # "ACTIVE"
    /\ versions' = [w \in DOMAIN versions |->
           IF w = v THEN "ACTIVE" ELSE IF versions[w] = "ACTIVE" THEN "INACTIVE" ELSE versions[w]]
    /\ activations' = Append(activations, v)
    /\ activators' = [activators EXCEPT ![a] = [revision |-> Current + 1, failed |-> 0]]
    /\ UNCHANGED <<cache, redis, faults, loads, quotes>>

-----------------------------------------------------------------------------
(* Publishing: twice at most, and never in the way of what publishes *)

\* The script keeps a copy that is newer; one it cannot read is overwritten.
WriteIfNewer(revision) ==
    IF cache \in Revisions /\ cache > revision THEN cache ELSE revision

\* (In the mutant: until it succeeds.)
NeverGivesUp(publish) == FALSE
GivesUp(publish) == publish.failed = 1

\* One attempt: what the copy is afterwards, and what is left to publish.
Attempted(revision) == cache' = IF redis THEN WriteIfNewer(revision) ELSE cache
Remaining(publish) ==
    IF redis \/ GivesUp(publish) THEN Idle ELSE [publish EXCEPT !.failed = 1]

PublishActivation(a) ==
    /\ activators[a] # Idle
    /\ Attempted(activators[a].revision)
    /\ activators' = [activators EXCEPT ![a] = Remaining(@)]
    /\ UNCHANGED <<versions, activations, redis, faults, loads, quotes>>

-----------------------------------------------------------------------------
(* Reading what is active *)

\* active, up to the answer of Redis
Begin(q, p) ==
    /\ quotes[q].step = "idle"
    /\ LET hit == redis /\ cache \in Revisions IN
       quotes' = [quotes EXCEPT ![q] =
           [ step |-> IF hit THEN "checking" ELSE "missed", process |-> p,
             raw |-> IF hit THEN cache ELSE 0, began |-> Current, since |-> Current,
             price |-> 0 ]]
    /\ UNCHANGED <<versions, activations, cache, redis, faults, activators, loads>>

\* (In the mutant: a copy that can be read is taken as it is.)
IsReadable(revision) == TRUE
IsCurrentRevision(revision) == revision = Current

CheckRevision(q) ==
    /\ quotes[q].step = "checking"
    /\ quotes' = [quotes EXCEPT
           ![q].step = IF IsCurrentRevision(quotes[q].raw) THEN "priced" ELSE "missed",
           ![q].price = IF IsCurrentRevision(quotes[q].raw) THEN quotes[q].raw ELSE 0]
    /\ UNCHANGED <<versions, activations, cache, redis, faults, activators, loads>>

\* The query fails: the copy is left aside as if it were an old one.
CheckFails(q) ==
    /\ quotes[q].step = "checking" /\ faults < MaxFaults
    /\ quotes' = [quotes EXCEPT ![q].step = "missed"]
    /\ faults' = faults + 1
    /\ UNCHANGED <<versions, activations, cache, redis, activators, loads>>

\* The load of its process that is under way, or one it starts: that is decided in one
\* turn of the event loop.
Join(q) ==
    LET p == quotes[q].process IN
    /\ quotes[q].step = "missed"
    /\ IF loads[p].step = "none"
       THEN loads' = [loads EXCEPT ![p] = [NoLoad EXCEPT !.step = "reading", !.since = Current]]
       ELSE UNCHANGED loads
    /\ quotes' = [quotes EXCEPT ![q].step = "waiting", ![q].since = loads'[p].since]
    /\ UNCHANGED <<versions, activations, cache, redis, faults, activators>>

\* The load is over and out of the map: those who wait for it have its result.
Finished(p, step, revision) ==
    quotes' = [q \in Quotes |->
        IF quotes[q].step = "waiting" /\ quotes[q].process = p
        THEN [quotes[q] EXCEPT !.step = step, !.price = revision]
        ELSE quotes[q]]

\* loadActive: the row, and what is then published; it fails when none is active, or the
\* query does.
ReadActive(p) ==
    /\ loads[p].step = "reading"
    /\ Current > 0
    /\ loads' = [loads EXCEPT ![p].step = "publishing",
                              ![p].publish = [revision |-> Current, failed |-> 0]]
    /\ UNCHANGED <<versions, activations, cache, redis, faults, activators, quotes>>

ReadFails(p) ==
    /\ loads[p].step = "reading"
    /\ loads' = [loads EXCEPT ![p] = NoLoad]
    /\ Finished(p, "failed", 0)
    /\ UNCHANGED <<versions, activations, cache, redis, faults, activators>>

PublishLoad(p) ==
    /\ loads[p].step = "publishing"
    /\ Attempted(loads[p].publish.revision)
    /\ LET rest == Remaining(loads[p].publish) IN
       IF rest = Idle
       THEN /\ loads' = [loads EXCEPT ![p] = NoLoad]
            /\ Finished(p, "priced", loads[p].publish.revision)
       ELSE /\ loads' = [loads EXCEPT ![p].publish = rest]
            /\ UNCHANGED quotes
    /\ UNCHANGED <<versions, activations, redis, faults, activators>>

\* The way is priced, or there is no delivery, or the estimate has failed.
End(q) ==
    /\ quotes[q].step \in {"priced", "failed"}
    /\ quotes' = [quotes EXCEPT ![q] = NoQuote]
    /\ UNCHANGED <<versions, activations, cache, redis, faults, activators, loads>>

-----------------------------------------------------------------------------
(* Redis *)

Away ==
    /\ redis /\ faults < MaxFaults
    /\ redis' = FALSE /\ faults' = faults + 1
    /\ UNCHANGED <<versions, activations, cache, activators, loads, quotes>>

Back ==
    /\ ~redis
    /\ redis' = TRUE
    /\ UNCHANGED <<versions, activations, cache, faults, activators, loads, quotes>>

Expire ==
    /\ cache # None
    /\ cache' = None
    /\ UNCHANGED <<versions, activations, redis, faults, activators, loads, quotes>>

Spoil ==
    /\ cache \in Revisions /\ faults < MaxFaults
    /\ cache' = Corrupt /\ faults' = faults + 1
    /\ UNCHANGED <<versions, activations, redis, activators, loads, quotes>>

-----------------------------------------------------------------------------

QuoteStep(q) == CheckRevision(q) \/ Join(q) \/ End(q)
LoadStep(p) == ReadActive(p) \/ ReadFails(p) \/ PublishLoad(p)

Next ==
    \/ Create
    \/ \E a \in Activators :
           \/ \E v \in DOMAIN versions : Activate(a, v)
           \/ PublishActivation(a)
    \/ \E q \in Quotes :
           \/ \E p \in Processes : Begin(q, p)
           \/ QuoteStep(q) \/ CheckFails(q)
    \/ \E p \in Processes : LoadStep(p)
    \/ Away \/ Back \/ Expire \/ Spoil

Spec == Init /\ [][Next]_vars

\* Every call of a process returns or fails; whether Redis comes back is not assumed.
Fairness ==
    /\ \A q \in Quotes : WF_vars(QuoteStep(q))
    /\ \A p \in Processes : WF_vars(LoadStep(p))
    /\ \A a \in Activators : WF_vars(PublishActivation(a))

FairSpec == Spec /\ Fairness

-----------------------------------------------------------------------------
(* Properties *)

\* A quote charges by a version that was active since the quote began, or since the load
\* began that it waited for: neither a copy of Redis that outlived its version nor a
\* reader from before the activation brings the old price back (active, isCurrentRevision,
\* loadActive; docs/delivery-pricing.md, "the cross-instance consistency barrier").
QuoteIsCurrent ==
    \A q \in Quotes : quotes[q].step = "priced" => quotes[q].price >= quotes[q].since

\* "The next read detects the revision mismatch and uses PostgreSQL"
\* (docs/delivery-pricing.md): a quote that begins after an activation has committed does
\* not charge by the version it retired.
NextReadIsCurrent ==
    \A q \in Quotes : quotes[q].step = "priced" => quotes[q].price >= quotes[q].began

\* A copy in Redis is never replaced by an older one, whoever publishes late, and the
\* copy of an activation is of the version that was activated (casScript).
CacheAdvances ==
    [][({cache, cache'} \subseteq Revisions) => (cache' >= cache /\ cache' <= Current)]_vars

\* Every estimate gets its price or its failure, with Redis away for good too: publishing
\* gives up after two attempts, and a load leaves the map whatever becomes of it
\* (publish, the "finally" of active).
QuotesEnd == \A q \in Quotes : quotes[q].step # "idle" ~> quotes[q].step = "idle"

\* What is charged is the least multiple of the step that covers the exact cost, and a
\* longer way never costs less (calculateDeliveryFee).
FeeCoversCost ==
    \A v \in DOMAIN versions :
        LET terms == TermsOf[v] IN
        \A d \in Distances :
            Fee(terms, d) # None =>
                /\ Fee(terms, d) % terms.step = 0
                /\ Fee(terms, d) * Denominator >= RawCost(terms, d)
                /\ Fee(terms, d) * Denominator < RawCost(terms, d) + terms.step * Denominator
                /\ \A e \in Distances :
                       e <= d => Fee(terms, e) # None /\ Fee(terms, e) <= Fee(terms, d)

=============================================================================
