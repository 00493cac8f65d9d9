----------------------------- MODULE SeriesColors -----------------------------
(***************************************************************************)
(* The colours of the costwatch charts (frontend/src/theme.ts:36-57): a key *)
(* gets the next categorical slot the first time it is drawn and keeps it  *)
(* for the session.  A chart draws the groups the server sends, largest    *)
(* first; "Other" has a colour of its own and is left out.                 *)
(***************************************************************************)
EXTENDS Naturals, FiniteSets, Sequences, SequencesExt

CONSTANTS
    Keys,       \* group keys other than "Other"
    Slots,      \* CATEGORICAL.length, 8 in the code
    MaxGroups   \* maxGroups of service.go, 12 in the code

ASSUME ColorsAssumption == Slots \in Nat \ {0} /\ MaxGroups \in Nat

VARIABLE
    slotByKey  \* the session's map from keys to slots

ColorsInit == slotByKey = [k \in {} |-> 0]

AssignAlways(map, k) ==  \* mutant: `slot === undefined' is not tested
    [l \in DOMAIN map \cup {k} |->
        IF l = k THEN Cardinality(DOMAIN map) % Slots ELSE map[l]]

\* seriesColor: a key that is not in the map yet gets the next slot.
Assign(map, k) ==
    IF k \in DOMAIN map THEN map
    ELSE [l \in DOMAIN map \cup {k} |->
            IF l = k THEN Cardinality(DOMAIN map) % Slots ELSE map[l]]

\* The groups a chart may have, in the order they are drawn.
Charts == {chart \in SeqOf(Keys, MaxGroups) : IsInjective(chart)}

DrawChart(chart) == slotByKey' = FoldLeft(Assign, slotByKey, chart)

\* "Color follows the entity" (theme.ts:45-46): whatever comes on screen, from
\* whichever view and in whatever order, no key changes its colour, and while
\* the session has seen no more keys than there are slots no two look alike.
ColorFollowsEntity ==
    [][LET known == DOMAIN slotByKey
           seen == DOMAIN slotByKey'
       IN  /\ known \subseteq seen
           /\ \A k \in known : slotByKey'[k] = slotByKey[k]
           /\ Cardinality(seen) <= Slots =>
                \A k, l \in seen : slotByKey'[k] = slotByKey'[l] => k = l
      ]_slotByKey
=============================================================================
