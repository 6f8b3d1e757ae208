-------------------------------- MODULE Cidr --------------------------------
(***************************************************************************)
(* From a list of allocations or prefixes to the routes of one AnyConnect  *)
(* node (ParseChinaCIDRs and its helpers, internal/anyconnect/network.go), *)
(* on addresses of Width bits.  The code sorts its lists of prefixes and   *)
(* removes duplicates after each stage: they are sets here, and the order  *)
(* is that of Before.                                                      *)
(***************************************************************************)
EXTENDS Integers, Sequences, FiniteSets, FiniteSetsExt, Functions

CONSTANTS
    Width,         \* bits of an address: 32
    Special,       \* special-use prefixes, a list
    MinBits,       \* no prefix is wider: 7
    MinRoutes,     \* no list is shorter: 100
    MinAddresses,  \* and covers less or more: 10 and 1000 million addresses
    MaxAddresses,
    MaxRoutes,     \* what the clients accept: 1200
    MaxRecords     \* bound on the records of a source

\* 1 << n.
Pow[n \in Nat] == IF n = 0 THEN 1 ELSE 2 * Pow[n - 1]

Size(p) == Pow[Width - p.bits]
Address == 0 .. Pow[Width] - 1
Prefix == {p \in [addr : Address, bits : 0 .. Width] : p.addr % Size(p) = 0}

\* Ranges of addresses, and those with an address in them.
Extent == {r \in [start : 0 .. Pow[Width], count : 0 .. Pow[Width]] : r.start + r.count <= Pow[Width]}
Allocation == {r \in Extent : r.count > 0}

ASSUME CidrAssumption == Width \in Nat /\ Special \in Seq(Prefix) /\ MaxRoutes \in Nat /\ MaxRecords \in Nat

VARIABLES source, stage, routes

cidrVars == <<source, stage, routes>>

Interval(r) == r.start .. r.start + r.count - 1
Span(p) == p.addr .. p.addr + Size(p) - 1
Covered(ps) == UNION {Span(p) : p \in ps}
Reserved == Covered(Range(Special))

Before(p, q) == p.addr < q.addr \/ (p.addr = q.addr /\ p.bits < q.bits)

CidrTypeOK ==
    /\ source \in [format : {"apnic", "cidr"}, records : SUBSET (Allocation \cup Prefix)]
    /\ stage \in {"read", "exclude", "check", "merge", "choose", "done", "refused"}
    /\ routes \subseteq Prefix

\* rangeToPrefixes: again and again the largest block that starts here and fits.
Exponent(r) == Max({i \in 0 .. Width : r.start % Pow[i] = 0 /\ Pow[i] <= r.count})

Blocks[r \in Extent] ==
    IF r.count = 0 THEN {}
    ELSE LET k == Exponent(r)
         IN {[addr |-> r.start, bits |-> Width - k]}
            \cup Blocks[[start |-> r.start + Pow[k], count |-> r.count - Pow[k]]]

\* subtractPrefix: halves of halves, until they are outside or inside.
Left(p) == [p EXCEPT !.bits = @ + 1]
Right(p) == [addr |-> p.addr + Size(Left(p)), bits |-> p.bits + 1]

Without(p, e) ==
    LET Part[q \in Prefix] ==
            IF q.addr \notin Span(e) /\ e.addr \notin Span(q) THEN {q}
            ELSE IF e.bits <= q.bits THEN {}
            ELSE Part[Left(q)] \cup Part[Right(q)]
    IN Part[p]

\* excludeSpecialUsePrefixes: one special-use prefix after another.
Excluded(ps) ==
    LET Past[i \in 0 .. Len(Special)] ==
            IF i = 0 THEN ps ELSE UNION {Without(p, Special[i]) : p \in Past[i - 1]}
    IN Past[Len(Special)]

CidrInit ==
    /\ \/ \E rs \in [1 .. MaxRecords -> Allocation] : source = [format |-> "apnic", records |-> Range(rs)]
       \/ \E ps \in [1 .. MaxRecords -> Prefix] : source = [format |-> "cidr", records |-> Range(ps)]
    /\ stage = "read" /\ routes = {}

To(at, ps) == stage' = at /\ routes' = ps /\ UNCHANGED source

Read ==
    /\ stage = "read"
    /\ LET ps == IF source.format = "cidr" THEN source.records
                 ELSE UNION {Blocks[r] : r \in source.records}
       IN IF \A p \in ps : p.bits >= MinBits /\ p.addr \notin Reserved
          THEN To("exclude", ps) ELSE To("refused", {})

Exclude ==
    /\ stage = "exclude"
    /\ To("check", Excluded(routes))

\* Mutant of Overlaps: only equal first addresses are compared.
OverlapsAtStart(p, q) == p.addr = q.addr

\* A prefix contains the first address of the next one in order.
Overlaps(p, q) == q.addr \in Span(p)

Adjacent(p, q, ps) == Before(p, q) /\ \A r \in ps : ~(Before(p, r) /\ Before(r, q))

Separate(ps) == \A p, q \in ps : Adjacent(p, q, ps) => ~Overlaps(p, q)

Fits(ps) ==
    /\ Cardinality(ps) >= MinRoutes
    /\ \A p \in ps : p.bits >= MinBits /\ Span(p) \cap Reserved = {}
    /\ Separate(ps)
    /\ MapThenSumSet(Size, ps) \in MinAddresses .. MaxAddresses

CheckList ==
    /\ stage = "check"
    /\ \/ ~Fits(routes) /\ To("refused", {})
       \/ Fits(routes) /\ source.format = "apnic" /\ To("merge", routes)
       \/ /\ Fits(routes) /\ source.format = "cidr"
          /\ IF Cardinality(routes) <= MaxRoutes THEN To("done", routes) ELSE To("refused", {})

\* The longest runs of covered addresses; the prefixes no longer overlap.
Runs(ps) ==
    LET ends == {p.addr + Size(p) : p \in ps}
        starts == {p.addr : p \in ps}
    IN {[start |-> a, count |-> Min({e \in ends \ starts : e > a}) - a] : a \in starts \ ends}

\* collapsePrefixes.
Merge ==
    /\ stage = "merge"
    /\ To("choose", UNION {Blocks[r] : r \in Runs(routes)})

\* largestPrefixes: the first MaxRoutes of the list, the widest prefixes before the others.
Preferred(p, q) == p.bits < q.bits \/ (p.bits = q.bits /\ p.addr < q.addr)

Choose ==
    /\ stage = "choose"
    /\ To("done", {p \in routes : Cardinality({q \in routes : Preferred(q, p)}) < MaxRoutes})

CidrNext == Read \/ Exclude \/ CheckList \/ Merge \/ Choose

CidrSpec == CidrInit /\ [][CidrNext]_cidrVars

-----------------------------------------------------------------------------
FromSource ==
    IF source.format = "cidr" THEN Covered(source.records)
    ELSE UNION {Interval(r) : r \in source.records}

\* The longest ranges within a set of addresses, and their blocks.
Longest(as) == {r \in Allocation : Interval(r) \subseteq as /\ r.start - 1 \notin as /\ r.start + r.count \notin as}
Collapsed(as) == UNION {Blocks[r] : r \in Longest(as)}

\* Only what the source lists and is public is routed around the tunnel, no address by
\* two routes, by no more routes than the clients take; and of the merged routes as
\* many addresses as that many routes can cover, all of them where they suffice.
RoutesExact ==
    stage = "done" =>
        LET public == FromSource \ Reserved
        IN /\ Covered(routes) \subseteq public
           /\ \A p, q \in routes : p # q => Span(p) \cap Span(q) = {}
           /\ Cardinality(routes) <= MaxRoutes
           /\ source.format = "cidr" \/ Cardinality(Collapsed(public)) <= MaxRoutes => Covered(routes) = public
           /\ source.format = "apnic" =>
                \A p \in routes, q \in Collapsed(public) \ routes : p.bits <= q.bits
=============================================================================
