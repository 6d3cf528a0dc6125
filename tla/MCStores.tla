------------------------------ MODULE MCStores ------------------------------
\* The city of the run: two main categories, two subcategories and a store. The runs
\* start with a budget of commands, or with any valid hours of up to two periods and
\* no budget (the schedule is then judged at every instant of the week).

EXTENDS Stores, TLC

CONSTANTS s1, u1, u2, t1, t2, i1

\* The transactions differ in nothing.
Swapped == Permutations({t1, t2})

Overnight == {[day |-> 4, opens |-> 2, closes |-> 1]}
Hours == {Overnight}

SubsOfBoth == (u1 :> [status |-> "ACTIVE", main |-> 1])
              @@ (u2 :> [status |-> "ACTIVE", main |-> 2])

Empty == [stores |-> s1 :> None, subs |-> (u1 :> [status |-> "ACTIVE", main |-> 1]) @@ (u2 :> None),
          mains |-> <<"ACTIVE", None>>, begun |-> 0]

Shop(hours) == s1 :> [status |-> "ACTIVE", main |-> 1, subs |-> {u1}, hours |-> hours]

Trading == [stores |-> Shop(Overnight), subs |-> SubsOfBoth,
            mains |-> <<"ACTIVE", "ACTIVE">>, begun |-> 0]

AnyHours == {{}} \cup {h \in {{p, q} : p, q \in Period} : ValidHours(h)}

StockAll == {Empty, Trading} \cup
    {[stores |-> Shop(h), subs |-> SubsOfBoth, mains |-> <<"ACTIVE", "ACTIVE">>,
      begun |-> MaxCommands] : h \in AnyHours}

=============================================================================
