----------------------------- MODULE RuleTable -----------------------------
(***************************************************************************)
(* What internal/firewall promises: an operation asks for the rules of     *)
(* some owners, and each owner's rules are then replaced in one step, or   *)
(* left with some of the old and some of the new when a command fails.     *)
(* The rules of other owners do not change, and a rule that is wanted and  *)
(* already there stays.                                                    *)
(***************************************************************************)
EXTENDS Integers

CONSTANTS Owner, Tag

VARIABLES
    table,  \* how many rules of each tag each owner has
    want,   \* the tags the operation in progress asks for
    adds,   \* the owners whose other rules it leaves alone
    left    \* the owners it has still to serve

Nothing == [o \in Owner |-> {}]

TableInit ==
    /\ table \in [Owner -> [Tag -> Nat]]
    /\ want = Nothing /\ adds = {} /\ left = {}

Ask ==
    /\ left = {}
    /\ want' \in [Owner -> SUBSET Tag] /\ adds' \in SUBSET Owner /\ left' \in SUBSET Owner
    /\ UNCHANGED table

\* Every wanted rule once, and no other.
Replaced(o) ==
    [t \in Tag |-> IF o \in adds /\ (t \notin want[o] \/ table[o][t] > 0) THEN table[o][t]
                   ELSE IF t \in want[o] THEN 1 ELSE 0]

Serve(o) ==
    /\ o \in left /\ left' = left \ {o}
    /\ table' = [table EXCEPT ![o] = Replaced(o)]
    /\ UNCHANGED <<want, adds>>

\* What a failed command may leave of one owner's rules.
Partly(o, rules) ==
    \A t \in Tag :
        IF t \notin want[o] THEN rules[t] \in 0 .. table[o][t]
        ELSE IF table[o][t] = 0 THEN rules[t] \in {0, 1}
        ELSE rules[t] \in 1 .. table[o][t]

\* The operation has ended.
Over == want' = Nothing /\ adds' = {} /\ left' = {}

\* Only an operation that asks for no rules goes on after a failure.
Abort(o) ==
    /\ o \in left
    /\ \/ want = Nothing /\ left' = left \ {o} /\ UNCHANGED <<want, adds>>
       \/ Over
    /\ table' = [table EXCEPT ![o] = table'[o]]
    /\ Partly(o, table'[o])

\* Everything is removed, or everything of some owners where that fails.
Clear ==
    /\ left = {} /\ UNCHANGED <<want, adds, left>>
    /\ \A o \in Owner : table'[o] \in {table[o], [t \in Tag |-> 0]}
    /\ table' = [o \in Owner |-> table'[o]]

End == Over /\ UNCHANGED table

TableNext == Ask \/ Clear \/ End \/ \E o \in Owner : Serve(o) \/ Abort(o)

TableSpec == TableInit /\ [][TableNext]_<<table, want, adds, left>>
=============================================================================
