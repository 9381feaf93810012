---------------------------- MODULE ItemSelector ----------------------------
(***************************************************************************)
(* The choice of the next item of an adaptive test                         *)
(* (item-selector.service.ts), by several callers at once.                 *)
(*                                                                         *)
(* The items not given yet are tried in the order of their information at  *)
(* the ability of the moment, which is abstracted to any order.  With      *)
(* exposure control every try is counted, and an item given too often may  *)
(* be passed over by lot.  The column exposureRate, which is written after *)
(* the counters and never read, is left out.                               *)
(***************************************************************************)
EXTENDS Naturals, FiniteSets

CONSTANTS
    Item,             \* active items of the bank
    Caller,           \* requests in progress at the same time
    RateNum, RateDen, \* config.maxExposureRate
    Idle

ASSUME SelectorAssumption ==
    /\ RateNum \in Nat /\ RateDen \in Nat \ {0} /\ RateNum <= RateDen
    /\ IsFiniteSet(Caller)

VARIABLES
    exposureControl, \* config.exposureControl
    exposure,  \* counters of each item in cat_item_exposures
    selection, \* how far each caller is in selectNextItem
    uncounted  \* history: items chosen by a request that failed before counting

selectorVars == <<exposureControl, exposure, selection, uncounted>>

-----------------------------------------------------------------------------
Counters == [eligible : Nat, administered : Nat]

\* A caller in selectNextItem: the items it has not tried, the most
\* informative one and the one it is given.
Selecting ==
    [step : {"draw", "administer", "done"},
     left : SUBSET Item, best : Item, item : Item]

None == [eligible |-> 0, administered |-> 0]

ASSUME IdleAssumption == Idle \notin Selecting

SelectorInit ==
    /\ exposureControl \in BOOLEAN
    /\ exposure = [i \in Item |-> None]
    /\ selection = [c \in Caller |-> Idle]
    /\ uncounted = [i \in Item |-> 0]

At(c, step) == selection[c] # Idle /\ selection[c].step = step

\* Counted by eligible, not yet by administered.
Pending(c, i) == At(c, "administer") /\ selection[c].item = i

\* Mutant: items already answered are offered again.
NotExcluding(excluded) == Item

NotGiven(excluded) == Item \ excluded

\* The query for items and the order of their information.
BeginSelection(c, excluded) ==
    /\ selection[c] = Idle
    /\ \E best \in NotGiven(excluded) :
        selection' = [selection EXCEPT ![c] =
            [step |-> IF exposureControl THEN "draw" ELSE "done",
             left |-> IF exposureControl THEN NotGiven(excluded) ELSE {},
             best |-> best, item |-> best]]
    /\ UNCHANGED <<exposureControl, exposure, uncounted>>

\* At the maximum the probability is still 1, unless the maximum is 0.
MayBePassed(row) ==
    row.administered * RateDen > RateNum * row.eligible \/ RateNum = 0

Tried(i) == [exposure[i] EXCEPT !.eligible = @ + 1]

\* One turn of the loop: the increment of timesEligible and the lot.
Draw(c) ==
    /\ At(c, "draw")
    /\ LET s == selection[c] IN
       \E i \in IF s.best \in s.left THEN {s.best} ELSE s.left :
        /\ exposure' = [exposure EXCEPT ![i] = Tried(i)]
        /\ \/ selection' = [selection EXCEPT ![c] =
                [s EXCEPT !.step = "administer", !.left = {},
                          !.best = i, !.item = i]]
           \/ /\ MayBePassed(Tried(i))
              /\ selection' = [selection EXCEPT ![c].left = @ \ {i}]
    /\ UNCHANGED <<exposureControl, uncounted>>

CountAdministered(c) ==
    /\ At(c, "administer")
    /\ exposure' = [exposure EXCEPT ![selection[c].item].administered = @ + 1]
    /\ selection' = [selection EXCEPT ![c].step = "done"]
    /\ UNCHANGED <<exposureControl, uncounted>>

\* All were passed over: the most informative one, counted if the upsert
\* succeeds.
Fallback(c) ==
    /\ At(c, "draw")
    /\ selection[c].left = {}
    /\ LET best == selection[c].best IN
        \/ exposure' = [exposure EXCEPT
                ![best] = [eligible |-> @.eligible + 1,
                           administered |-> @.administered + 1]]
        \/ UNCHANGED exposure
    /\ selection' = [selection EXCEPT ![c].step = "done"]
    /\ UNCHANGED <<exposureControl, uncounted>>

SelectorStep(c) ==
    \/ Draw(c)
    \/ CountAdministered(c)
    \/ Fallback(c)

\* The caller takes the item.
TakeItem(c) ==
    /\ At(c, "done")
    /\ selection' = [selection EXCEPT ![c] = Idle]
    /\ UNCHANGED <<exposureControl, exposure, uncounted>>

\* A failed query leaves the counters as they are.
AbortSelection(c) ==
    /\ selection' = [selection EXCEPT ![c] = Idle]
    /\ uncounted' = IF At(c, "administer")
                    THEN [uncounted EXCEPT ![selection[c].item] = @ + 1]
                    ELSE uncounted
    /\ UNCHANGED <<exposureControl, exposure>>

-----------------------------------------------------------------------------
SelectorTypeOK ==
    /\ exposureControl \in BOOLEAN
    /\ exposure \in [Item -> Counters]
    /\ selection \in [Caller -> Selecting \cup {Idle}]
    /\ uncounted \in [Item -> Nat]

InFlight(i) == Cardinality({c \in Caller : Pending(c, i)})

\* The tries that gave the item: counted, about to be, or never.
Given(i) == exposure[i].administered + InFlight(i) + uncounted[i]

\* An item is never administered more often than it was eligible, however
\* the callers' increments cross (the loop of selectNextItem,
\* item-selector.service.ts).
ExposureIsARate == \A i \in Item : Given(i) <= exposure[i].eligible

\* The "maximum" exposure rate works as a minimum: an item at or under it is
\* always given, so the share of its tries that gave it never falls below
\* (adminProb, item-selector.service.ts).
NeverBelowTheMaximum ==
    \A i \in Item : Given(i) * RateDen >= RateNum * exposure[i].eligible
=============================================================================
