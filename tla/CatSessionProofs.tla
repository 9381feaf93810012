-------------------------- MODULE CatSessionProofs --------------------------
(***************************************************************************)
(* Proofs about the exposure counters and the session of an adaptive test, *)
(* for any bank, any number of requests and any maximum exposure rate.     *)
(*                                                                         *)
(* For the counters the argument is on Given(i), the tries of an item that *)
(* gave it: it grows with eligible but for a try that passes the item      *)
(* over, and the lot allows one only when the item is above the maximum.   *)
(* For the session, while one request is in progress, what it has read and *)
(* written tells which item is current: none of the rows has it.           *)
(***************************************************************************)
EXTENDS CatSession, FiniteSetTheorems, TLAPS

SelectorInv == SelectorTypeOK /\ ExposureIsARate /\ NeverBelowTheMaximum

InFlightSet(i) == {c \in Caller : Pending(c, i)}

\* The items in flight are counted.
LEMMA InFlightType ==
    ASSUME NEW i \in Item
    PROVE  /\ InFlight(i) \in Nat
           /\ IsFiniteSet(InFlightSet(i))
           /\ InFlight(i) = Cardinality(InFlightSet(i))
<1>1. InFlightSet(i) \subseteq Caller
  BY DEF InFlightSet
<1>2. IsFiniteSet(InFlightSet(i))
  BY <1>1, SelectorAssumption, FS_Subset
<1> QED
  BY <1>2, FS_CardinalityType DEF InFlightSet, InFlight

LEMMA InFlightTypeNext ==
    ASSUME NEW i \in Item
    PROVE  /\ InFlight(i)' \in Nat
           /\ IsFiniteSet(InFlightSet(i)')
           /\ InFlight(i)' = Cardinality(InFlightSet(i)')
<1>1. InFlightSet(i)' \subseteq Caller
  BY DEF InFlightSet
<1>2. IsFiniteSet(InFlightSet(i)')
  BY <1>1, SelectorAssumption, FS_Subset
<1> QED
  BY <1>2, FS_CardinalityType DEF InFlightSet, InFlight

\* What the step of one caller does to the number in flight.
LEMMA InFlightKept ==
    ASSUME NEW i \in Item, \A c \in Caller : Pending(c, i)' <=> Pending(c, i)
    PROVE  InFlight(i)' = InFlight(i)
<1>1. InFlightSet(i)' = InFlightSet(i)
  BY DEF InFlightSet
<1> QED
  BY <1>1, InFlightType, InFlightTypeNext

LEMMA InFlightGrows ==
    ASSUME NEW i \in Item, NEW d \in Caller, ~Pending(d, i), Pending(d, i)',
           \A c \in Caller \ {d} : Pending(c, i)' <=> Pending(c, i)
    PROVE  InFlight(i)' = InFlight(i) + 1
<1>1. InFlightSet(i)' = InFlightSet(i) \cup {d} /\ d \notin InFlightSet(i)
  BY DEF InFlightSet
<1>2. Cardinality(InFlightSet(i) \cup {d}) = Cardinality(InFlightSet(i)) + 1
  BY <1>1, InFlightType, FS_AddElement
<1> QED
  BY <1>1, <1>2, InFlightType, InFlightTypeNext

LEMMA InFlightShrinks ==
    ASSUME NEW i \in Item, NEW d \in Caller, Pending(d, i), ~Pending(d, i)',
           \A c \in Caller \ {d} : Pending(c, i)' <=> Pending(c, i)
    PROVE  InFlight(i) = InFlight(i)' + 1
<1>1. InFlightSet(i) = InFlightSet(i)' \cup {d} /\ d \notin InFlightSet(i)'
  BY DEF InFlightSet
<1>2. Cardinality(InFlightSet(i)' \cup {d}) = Cardinality(InFlightSet(i)') + 1
  BY <1>1, InFlightTypeNext, FS_AddElement
<1> QED
  BY <1>1, <1>2, InFlightType, InFlightTypeNext

\* The arithmetic of a try that gives the item, or that passes it over.
LEMMA GivenTry ==
    ASSUME NEW g \in Nat, NEW e \in Nat, g * RateDen >= RateNum * e
    PROVE  (g + 1) * RateDen >= RateNum * (e + 1)
<1>1. RateNum \in Nat /\ RateDen \in Nat /\ RateNum <= RateDen
  BY SelectorAssumption
<1> QED
  BY <1>1

LEMMA PassedTry ==
    ASSUME NEW a \in Nat, NEW f \in Nat, NEW u \in Nat, NEW e \in Nat,
           a * RateDen > RateNum * e \/ RateNum = 0
    PROVE  (a + f + u) * RateDen >= RateNum * e
<1>1. RateNum \in Nat /\ RateDen \in Nat
  BY SelectorAssumption
<1>2. (a + f + u) * RateDen = a * RateDen + (f + u) * RateDen
  BY <1>1
<1>3. (f + u) * RateDen >= 0 /\ (a + f + u) * RateDen >= 0
  BY <1>1
<1> QED
  BY <1>1, <1>2, <1>3

-----------------------------------------------------------------------------
\* What a step may do to an item: nothing, a try that gives it, or a try
\* that passes it over.
KeptItem(i) ==
    /\ exposure'[i].eligible = exposure[i].eligible
    /\ Given(i)' = Given(i)

GivenItem(i) ==
    /\ exposure'[i].eligible = exposure[i].eligible + 1
    /\ Given(i)' = Given(i) + 1

PassedItem(i) ==
    /\ exposure'[i].eligible = exposure[i].eligible + 1
    /\ exposure'[i].administered = exposure[i].administered
    /\ Given(i)' = Given(i)
    /\ MayBePassed(exposure'[i])

ItemStep == \A i \in Item : KeptItem(i) \/ GivenItem(i) \/ PassedItem(i)

LEMMA GivenType ==
    ASSUME SelectorTypeOK, NEW i \in Item
    PROVE  /\ exposure[i].administered \in Nat
           /\ exposure[i].eligible \in Nat
           /\ uncounted[i] \in Nat
           /\ InFlight(i) \in Nat
           /\ Given(i) \in Nat
BY InFlightType DEF SelectorTypeOK, Counters, Given

LEMMA BeginStep ==
    ASSUME SelectorTypeOK, NEW c \in Caller, NEW excluded, BeginSelection(c, excluded)
    PROVE  SelectorTypeOK' /\ ItemStep
<1> PICK best \in NotGiven(excluded) :
        selection' = [selection EXCEPT ![c] =
            [step |-> IF exposureControl THEN "draw" ELSE "done",
             left |-> IF exposureControl THEN NotGiven(excluded) ELSE {},
             best |-> best, item |-> best]]
  BY DEF BeginSelection
<1>1. best \in Item /\ NotGiven(excluded) \subseteq Item
  BY DEF NotGiven
<1>2. SelectorTypeOK'
  BY <1>1 DEF BeginSelection, SelectorTypeOK, Selecting
<1>3. ASSUME NEW i \in Item
      PROVE  KeptItem(i)
  <2>1. \A d \in Caller : Pending(d, i)' <=> Pending(d, i)
    BY DEF BeginSelection, SelectorTypeOK, Pending, At
  <2>2. InFlight(i)' = InFlight(i)
    BY <2>1, InFlightKept
  <2> QED
    BY <2>2 DEF BeginSelection, KeptItem, Given
<1> QED
  BY <1>2, <1>3 DEF ItemStep

\* A step that ends a selection, or leaves it to another, without counting.
LEMMA QuietStep ==
    ASSUME SelectorTypeOK, UNCHANGED <<exposureControl, exposure, uncounted>>,
           selection' \in [Caller -> Selecting \cup {Idle}],
           \A i \in Item, d \in Caller : Pending(d, i)' <=> Pending(d, i)
    PROVE  SelectorTypeOK' /\ ItemStep
<1>1. SelectorTypeOK'
  BY DEF SelectorTypeOK
<1>2. ASSUME NEW i \in Item
      PROVE  KeptItem(i)
  <2>1. InFlight(i)' = InFlight(i)
    BY InFlightKept
  <2> QED
    BY <2>1 DEF KeptItem, Given
<1> QED
  BY <1>1, <1>2 DEF ItemStep

LEMMA DrawStep ==
    ASSUME SelectorTypeOK, NEW c \in Caller, Draw(c)
    PROVE  SelectorTypeOK' /\ ItemStep
<1>1. selection[c] \in Selecting /\ selection[c].step = "draw"
  BY DEF Draw, At, SelectorTypeOK
<1>2. PICK i \in Item :
        /\ exposure' = [exposure EXCEPT ![i] = Tried(i)]
        /\ \/ selection' = [selection EXCEPT ![c] =
                [selection[c] EXCEPT !.step = "administer", !.left = {},
                                     !.best = i, !.item = i]]
           \/ /\ MayBePassed(Tried(i))
              /\ selection' = [selection EXCEPT ![c].left = @ \ {i}]
  BY <1>1 DEF Draw, Selecting
<1>3. /\ exposure'[i] = Tried(i)
      /\ Tried(i) \in Counters
      /\ Tried(i).eligible = exposure[i].eligible + 1
      /\ Tried(i).administered = exposure[i].administered
      /\ \A j \in Item \ {i} : exposure'[j] = exposure[j]
  BY <1>2 DEF SelectorTypeOK, Counters, Tried
<1>4. uncounted' = uncounted /\ exposureControl' = exposureControl
  BY DEF Draw
<1>5. exposure' \in [Item -> Counters]
  BY <1>2, <1>3 DEF SelectorTypeOK
<1>6. \A j \in Item : ~Pending(c, j)
  BY <1>1 DEF Pending, At
<1>7. CASE selection' = [selection EXCEPT ![c] =
                [selection[c] EXCEPT !.step = "administer", !.left = {},
                                     !.best = i, !.item = i]]
  <2>1. selection' \in [Caller -> Selecting \cup {Idle}] /\ selection'[c] \in Selecting
        /\ selection'[c].step = "administer" /\ selection'[c].item = i
    BY <1>1, <1>7 DEF SelectorTypeOK, Selecting
  <2>2. SelectorTypeOK'
    BY <2>1, <1>4, <1>5 DEF SelectorTypeOK
  <2>3. \A d \in Caller \ {c} : selection'[d] = selection[d]
    BY <1>7 DEF SelectorTypeOK
  <2>4. Pending(c, i)' /\ \A j \in Item \ {i} : ~Pending(c, j)'
    BY <2>1, IdleAssumption DEF Pending, At
  <2>5. GivenItem(i)
    <3>1. InFlight(i)' = InFlight(i) + 1
      BY <1>6, <2>3, <2>4, InFlightGrows DEF Pending, At
    <3> QED
      BY <3>1, <1>3, <1>4, GivenType DEF GivenItem, Given
  <2>6. ASSUME NEW j \in Item \ {i}
        PROVE  KeptItem(j)
    <3>1. InFlight(j)' = InFlight(j)
      BY <1>6, <2>3, <2>4, InFlightKept DEF Pending, At
    <3> QED
      BY <3>1, <1>3, <1>4 DEF KeptItem, Given
  <2> QED
    BY <2>2, <2>5, <2>6 DEF ItemStep
<1>8. CASE /\ MayBePassed(Tried(i))
           /\ selection' = [selection EXCEPT ![c].left = @ \ {i}]
  <2>1. selection' \in [Caller -> Selecting \cup {Idle}]
        /\ selection'[c].step = "draw"
    BY <1>1, <1>8 DEF SelectorTypeOK, Selecting
  <2>2. SelectorTypeOK'
    BY <2>1, <1>4, <1>5 DEF SelectorTypeOK
  <2>3. \A d \in Caller \ {c} : selection'[d] = selection[d]
    BY <1>8 DEF SelectorTypeOK
  <2>4. ASSUME NEW j \in Item
        PROVE  InFlight(j)' = InFlight(j)
    BY <1>6, <2>1, <2>3, InFlightKept DEF Pending, At
  <2>5. PassedItem(i)
    BY <2>4, <1>3, <1>4, <1>8 DEF PassedItem, Given
  <2>6. \A j \in Item \ {i} : KeptItem(j)
    BY <2>4, <1>3, <1>4 DEF KeptItem, Given
  <2> QED
    BY <2>2, <2>5, <2>6 DEF ItemStep
<1> QED
  BY <1>2, <1>7, <1>8

LEMMA CountStep ==
    ASSUME SelectorTypeOK, NEW c \in Caller, CountAdministered(c)
    PROVE  SelectorTypeOK' /\ ItemStep
<1> PICK i \in Item : i = selection[c].item
  BY DEF CountAdministered, At, SelectorTypeOK, Selecting
<1>1. selection[c] \in Selecting /\ selection[c].step = "administer"
  BY DEF CountAdministered, At, SelectorTypeOK
<1>2. /\ exposure' = [exposure EXCEPT ![i].administered = @ + 1]
      /\ selection' = [selection EXCEPT ![c].step = "done"]
      /\ uncounted' = uncounted /\ exposureControl' = exposureControl
  BY DEF CountAdministered
<1>3. /\ exposure'[i].administered = exposure[i].administered + 1
      /\ exposure'[i].eligible = exposure[i].eligible
      /\ \A j \in Item \ {i} : exposure'[j] = exposure[j]
      /\ exposure' \in [Item -> Counters]
  BY <1>1, <1>2 DEF SelectorTypeOK, Counters
<1>4. /\ selection' \in [Caller -> Selecting \cup {Idle}]
      /\ selection'[c].step = "done"
      /\ \A d \in Caller \ {c} : selection'[d] = selection[d]
  BY <1>1, <1>2 DEF SelectorTypeOK, Selecting
<1>5. SelectorTypeOK'
  BY <1>2, <1>3, <1>4 DEF SelectorTypeOK
<1>6. Pending(c, i) /\ \A j \in Item \ {i} : ~Pending(c, j)
  BY <1>1, IdleAssumption DEF Pending, At
<1>7. \A j \in Item : ~Pending(c, j)'
  BY <1>4 DEF Pending, At
<1>8. KeptItem(i)
  <2>1. InFlight(i) = InFlight(i)' + 1
    BY <1>1, <1>4, <1>6, <1>7, InFlightShrinks DEF Pending, At
  <2> QED
    BY <2>1, <1>1, <1>2, <1>3, GivenType, InFlightTypeNext DEF KeptItem, Given
<1>9. ASSUME NEW j \in Item \ {i}
      PROVE  KeptItem(j)
  <2>1. InFlight(j)' = InFlight(j)
    BY <1>4, <1>6, <1>7, InFlightKept DEF Pending, At
  <2> QED
    BY <2>1, <1>2, <1>3 DEF KeptItem, Given
<1> QED
  BY <1>5, <1>8, <1>9 DEF ItemStep

LEMMA FallbackStep ==
    ASSUME SelectorTypeOK, NEW c \in Caller, Fallback(c)
    PROVE  SelectorTypeOK' /\ ItemStep
<1> PICK i \in Item : i = selection[c].best
  BY DEF Fallback, At, SelectorTypeOK, Selecting
<1>1. selection[c] \in Selecting /\ selection[c].step = "draw"
  BY DEF Fallback, At, SelectorTypeOK
<1>2. /\ selection' \in [Caller -> Selecting \cup {Idle}]
      /\ selection'[c].step = "done"
      /\ \A d \in Caller \ {c} : selection'[d] = selection[d]
      /\ uncounted' = uncounted /\ exposureControl' = exposureControl
  BY <1>1 DEF Fallback, SelectorTypeOK, Selecting
<1>3. ASSUME NEW j \in Item
      PROVE  InFlight(j)' = InFlight(j)
  BY <1>1, <1>2, InFlightKept DEF Pending, At
<1>4. CASE exposure' = exposure
  <2>1. SelectorTypeOK'
    BY <1>2, <1>4 DEF SelectorTypeOK
  <2>2. \A j \in Item : KeptItem(j)
    BY <1>2, <1>3, <1>4 DEF KeptItem, Given
  <2> QED
    BY <2>1, <2>2 DEF ItemStep
<1>5. CASE exposure' = [exposure EXCEPT
                ![i] = [eligible |-> @.eligible + 1,
                        administered |-> @.administered + 1]]
  <2>1. /\ exposure'[i].administered = exposure[i].administered + 1
        /\ exposure'[i].eligible = exposure[i].eligible + 1
        /\ \A j \in Item \ {i} : exposure'[j] = exposure[j]
        /\ exposure' \in [Item -> Counters]
    BY <1>1, <1>5 DEF SelectorTypeOK, Counters
  <2>2. SelectorTypeOK'
    BY <1>2, <2>1 DEF SelectorTypeOK
  <2>3. GivenItem(i)
    BY <1>1, <1>2, <1>3, <2>1, GivenType DEF GivenItem, Given
  <2>4. \A j \in Item \ {i} : KeptItem(j)
    BY <1>2, <1>3, <2>1 DEF KeptItem, Given
  <2> QED
    BY <2>2, <2>3, <2>4 DEF ItemStep
<1> QED
  BY <1>4, <1>5 DEF Fallback

LEMMA TakeStep ==
    ASSUME SelectorTypeOK, NEW c \in Caller, TakeItem(c)
    PROVE  SelectorTypeOK' /\ ItemStep
<1>1. \A i \in Item, d \in Caller : Pending(d, i)' <=> Pending(d, i)
  BY DEF TakeItem, SelectorTypeOK, Pending, At
<1>2. selection' \in [Caller -> Selecting \cup {Idle}]
  BY DEF TakeItem, SelectorTypeOK
<1> QED
  BY <1>1, <1>2, QuietStep DEF TakeItem

LEMMA AbortStep ==
    ASSUME SelectorTypeOK, NEW c \in Caller, AbortSelection(c)
    PROVE  SelectorTypeOK' /\ ItemStep
<1>1. /\ selection' \in [Caller -> Selecting \cup {Idle}]
      /\ selection'[c] = Idle
      /\ \A d \in Caller \ {c} : selection'[d] = selection[d]
      /\ exposure' = exposure /\ exposureControl' = exposureControl
  BY DEF AbortSelection, SelectorTypeOK
<1>2. \A j \in Item : ~Pending(c, j)'
  BY <1>1 DEF Pending, At
<1>3. CASE ~At(c, "administer")
  <2>1. \A i \in Item, d \in Caller : Pending(d, i)' <=> Pending(d, i)
    BY <1>1, <1>2, <1>3 DEF Pending, At
  <2>2. uncounted' = uncounted
    BY <1>3 DEF AbortSelection
  <2> QED
    BY <1>1, <2>1, <2>2, QuietStep
<1>4. CASE At(c, "administer")
  <2> PICK i \in Item : i = selection[c].item
    BY <1>4 DEF SelectorTypeOK, Selecting, At
  <2>1. Pending(c, i) /\ \A j \in Item \ {i} : ~Pending(c, j)
    BY <1>4 DEF SelectorTypeOK, Selecting, Pending, At
  <2>2. /\ uncounted' = [uncounted EXCEPT ![i] = @ + 1]
        /\ uncounted'[i] = uncounted[i] + 1
        /\ \A j \in Item \ {i} : uncounted'[j] = uncounted[j]
        /\ uncounted' \in [Item -> Nat]
    BY <1>4, <2>1 DEF AbortSelection, SelectorTypeOK
  <2>3. SelectorTypeOK'
    BY <1>1, <2>2 DEF SelectorTypeOK
  <2>4. InFlight(i) = InFlight(i)' + 1
    BY <1>1, <1>2, <2>1, InFlightShrinks DEF Pending, At
  <2>5. ASSUME NEW j \in Item \ {i}
        PROVE  KeptItem(j)
    <3>1. InFlight(j)' = InFlight(j)
      BY <1>1, <1>2, <2>1, InFlightKept DEF Pending, At
    <3> QED
      BY <3>1, <1>1, <2>2 DEF KeptItem, Given
  <2>6. KeptItem(i)
    BY <1>1, <2>1, <2>2, <2>4, GivenType, InFlightTypeNext DEF KeptItem, Given
  <2> QED
    BY <2>3, <2>5, <2>6 DEF ItemStep
<1> QED
  BY <1>3, <1>4

LEMMA StutterStep ==
    ASSUME SelectorTypeOK, UNCHANGED selectorVars
    PROVE  SelectorTypeOK' /\ ItemStep
BY QuietStep DEF selectorVars, SelectorTypeOK, Pending, At

-----------------------------------------------------------------------------
\* Every step of the system is one of these for the selector.
LEMMA SystemStep ==
    ASSUME SelectorTypeOK, [Next]_vars
    PROVE  SelectorTypeOK' /\ ItemStep
<1>1. CASE UNCHANGED vars \/ TimeUp
  BY <1>1, StutterStep DEF vars, TimeUp
<1>2. ASSUME NEW c \in Caller
      PROVE  /\ RequestStart(c) \/ RequestItem(c) => SelectorTypeOK' /\ ItemStep
             /\ Respond(c) => SelectorTypeOK' /\ ItemStep
             /\ Fail(c) => SelectorTypeOK' /\ ItemStep
  BY BeginStep, StutterStep, AbortStep DEF RequestStart, RequestItem, Respond, ReadSession, Fail
<1>3. ASSUME NEW c \in Caller, Proceed(c)
      PROVE  SelectorTypeOK' /\ ItemStep
  <2>1. CASE Select(c)
    BY <2>1, DrawStep, CountStep, FallbackStep DEF Select, SelectorStep
  <2>2. CASE CreateSession(c) \/ ReturnItem(c) \/ NextItem(c)
    BY <2>2, TakeStep DEF CreateSession, ReturnItem, NextItem
  <2>3. CASE DecideToGoOn(c)
    BY <2>3, BeginStep DEF DecideToGoOn
  <2>4. CASE RecordResponse(c) \/ DecideToStop(c) \/ FinishSession(c) \/ BankExhausted(c)
    BY <2>4, StutterStep DEF RecordResponse, DecideToStop, FinishSession, BankExhausted
  <2> QED
    BY <1>3, <2>1, <2>2, <2>3, <2>4 DEF Proceed
<1> QED
  BY <1>1, <1>2, <1>3 DEF Next

LEMMA SelectorStart == Init => SelectorInv
<1> SUFFICES ASSUME Init
             PROVE  SelectorInv
  OBVIOUS
<1>1. SelectorTypeOK
  BY DEF Init, SelectorInit, SelectorTypeOK, Counters, None
<1>2. ASSUME NEW i \in Item
      PROVE  /\ Given(i) = 0
             /\ exposure[i].eligible = 0
  <2>1. InFlightSet(i) = {}
    BY DEF Init, SelectorInit, InFlightSet, Pending, At
  <2>2. InFlight(i) = 0
    BY <2>1, InFlightType, FS_EmptySet
  <2> QED
    BY <2>2 DEF Init, SelectorInit, None, Given
<1>3. RateNum \in Nat /\ RateDen \in Nat
  BY SelectorAssumption
<1> QED
  BY <1>1, <1>2, <1>3 DEF SelectorInv, ExposureIsARate, NeverBelowTheMaximum

LEMMA SelectorKept == SelectorInv /\ [Next]_vars => SelectorInv'
<1> SUFFICES ASSUME SelectorInv, [Next]_vars
             PROVE  SelectorInv'
  OBVIOUS
<1>1. SelectorTypeOK' /\ ItemStep
  BY SystemStep DEF SelectorInv
<1>2. ASSUME NEW i \in Item
      PROVE  /\ Given(i)' <= exposure'[i].eligible
             /\ Given(i)' * RateDen >= RateNum * exposure'[i].eligible
  <2>1. /\ Given(i) \in Nat /\ exposure[i].eligible \in Nat
        /\ Given(i) <= exposure[i].eligible
        /\ Given(i) * RateDen >= RateNum * exposure[i].eligible
    BY GivenType DEF SelectorInv, ExposureIsARate, NeverBelowTheMaximum
  <2>2. CASE KeptItem(i)
    BY <2>1, <2>2 DEF KeptItem
  <2>3. CASE GivenItem(i)
    BY <2>1, <2>3, GivenTry DEF GivenItem
  <2>4. CASE PassedItem(i)
    <3>1. /\ exposure'[i].administered \in Nat /\ InFlight(i)' \in Nat
          /\ uncounted'[i] \in Nat /\ exposure'[i].eligible \in Nat
          /\ Given(i)' = exposure'[i].administered + InFlight(i)' + uncounted'[i]
      BY <1>1, InFlightTypeNext DEF SelectorTypeOK, Counters, Given
    <3>2. Given(i)' * RateDen >= RateNum * exposure'[i].eligible
      BY <3>1, <2>4, PassedTry DEF PassedItem, MayBePassed
    <3> QED
      BY <2>1, <2>4, <3>2 DEF PassedItem
  <2> QED
    BY <1>1, <2>2, <2>3, <2>4 DEF ItemStep
<1> QED
  BY <1>1, <1>2 DEF SelectorInv, ExposureIsARate, NeverBelowTheMaximum

\* No item is administered more often than it was eligible, for any number
\* of concurrent requests (item-selector.service.ts, selectNextItem).
THEOREM ExposureBounded == Spec => []ExposureIsARate
<1>1. SelectorInv => ExposureIsARate
  BY DEF SelectorInv
<1> QED
  BY <1>1, SelectorStart, SelectorKept, PTL DEF Spec

\* The maximum exposure rate is a lower bound of the share of tries that
\* gave an item, whatever requests cross or fail (item-selector.service.ts,
\* adminProb).
THEOREM MaximumIsAMinimum == Spec => []NeverBelowTheMaximum
<1>1. SelectorInv => NeverBelowTheMaximum
  BY DEF SelectorInv
<1> QED
  BY <1>1, SelectorStart, SelectorKept, PTL DEF Spec

-----------------------------------------------------------------------------
\* What the requests read from the rows.
LEMMA RowsRead ==
    ASSUME rows \in Seq(Row)
    PROVE  /\ Valid(rows) \in Nat
           /\ NextPosition \in Nat
           /\ LastPrecise \subseteq BOOLEAN
           /\ {rows[n].item : n \in DOMAIN rows} \subseteq Item
<1>1. Valid(rows) \in Nat
  <2> DEFINE S == {n \in DOMAIN rows : ~rows[n].rapid}
  <2>1. S \subseteq 1..Len(rows) /\ IsFiniteSet(1..Len(rows))
    BY FS_Interval
  <2>2. Cardinality(S) \in Nat
    BY <2>1, FS_Subset, FS_CardinalityType
  <2> QED
    BY <2>2 DEF Valid
<1>2. NextPosition \in Nat
  BY DEF NextPosition
<1>3. \A n \in DOMAIN rows : rows[n] \in Row
  OBVIOUS
<1>4. LastPrecise \subseteq BOOLEAN
  BY <1>3 DEF LastPrecise, Row
<1> QED
  BY <1>1, <1>2, <1>3, <1>4 DEF Row

\* What a request reads is a response in progress, at the next position.
LEMMA ReadStep ==
    ASSUME SessionInv, NEW c \in Caller, Respond(c)
    PROVE  SessionInv'
<1> PICK rapid \in BOOLEAN : ReadSession(c, rapid)
  BY DEF Respond
<1>1. /\ rows \in Seq(Row) /\ current \in Item /\ request[c] = Idle
      /\ status = "IN_PROGRESS"
  BY DEF ReadSession, SessionInv, TypeOK, SessionTypeOK
<1> PICK precise \in BOOLEAN :
        request' = [request EXCEPT ![c] =
            [op |-> "record",
             row |-> [item |-> current, position |-> NextPosition,
                      rapid |-> rapid, precise |-> precise],
             valid |-> Valid(rows) + (IF rapid THEN 0 ELSE 1),
             given |-> {rows[n].item : n \in DOMAIN rows} \cup {current}]]
  BY <1>1, RowsRead DEF ReadSession
<1> DEFINE r == [op |-> "record",
             row |-> [item |-> current, position |-> NextPosition,
                      rapid |-> rapid, precise |-> precise],
             valid |-> Valid(rows) + (IF rapid THEN 0 ELSE 1),
             given |-> {rows[n].item : n \in DOMAIN rows} \cup {current}]
<1>2. r \in Responding /\ r.op = "record" /\ r.row.position = Len(rows) + 1
  <2>1. /\ Valid(rows) + (IF rapid THEN 0 ELSE 1) \in Nat
        /\ {rows[n].item : n \in DOMAIN rows} \cup {current} \in SUBSET Item
    BY <1>1, RowsRead
  <2> QED
    BY <2>1, <1>1, RowsRead DEF Responding, Row, NextPosition
<1>3. request' = [request EXCEPT ![c] = r]
  OBVIOUS
<1> HIDE DEF r
<1>4. /\ request' \in [Caller -> Responding \cup Selection \cup {Idle}]
      /\ request'[c] = r
      /\ \A d \in Caller \ {c} : request'[d] = request[d]
  BY <1>2, <1>3 DEF SessionInv, TypeOK, SessionTypeOK
<1>5. SelectorTypeOK'
  BY StutterStep DEF ReadSession, SessionInv, TypeOK
<1>6. /\ UNCHANGED <<status, current, rows, total, late, failures>>
      /\ overlapped' = (overlapped \/ \E d \in Caller : ResponseInProgress(d))
  BY DEF ReadSession
<1>7. TypeOK'
  BY <1>1, <1>4, <1>5, <1>6 DEF SessionInv, TypeOK, SessionTypeOK
<1>8. CountedWhenAlone'
  BY <1>6 DEF SessionInv, CountedWhenAlone
<1>9. OneAtATime'
  <2> SUFFICES ASSUME ~overlapped'
               PROVE  /\ \A d, e \in Caller :
                            ResponseInProgress(d)' /\ ResponseInProgress(e)' => d = e
                      /\ \A d \in Caller :
                            /\ Does(d, "record")' => request'[d].row.position = Len(rows') + 1
                            /\ Does(d, "decide")' => request'[d].row.position = Len(rows')
                            /\ Does(d, "finish")' => request'[d].total = Len(rows')
                            /\ ResponseInProgress(d)' => status' \notin Ended
    BY DEF OneAtATime
  <2>1. ~overlapped /\ \A d \in Caller : ~ResponseInProgress(d)
    BY <1>6
  <2>2. \A d \in Caller \ {c} : ~ResponseInProgress(d)'
    BY <2>1, <1>4 DEF ResponseInProgress
  <2>3. \A d \in Caller \ {c} :
            ~Does(d, "record")' /\ ~Does(d, "decide")' /\ ~Does(d, "finish")'
    BY <2>1, <1>4 DEF ResponseInProgress, Does
  <2>4. ~Does(c, "decide")' /\ ~Does(c, "finish")'
    BY <1>2, <1>4 DEF Does
  <2> QED
    BY <2>2, <2>3, <2>4, <1>1, <1>2, <1>4, <1>6 DEF Ended
<1> QED
  BY <1>7, <1>8, <1>9 DEF SessionInv

\* A step that leaves the responses in progress as they are, or ends one.
LEMMA ApartStep ==
    ASSUME SessionInv, SelectorTypeOK', UNCHANGED <<rows, total, overlapped>>,
           late' \in BOOLEAN, failures' \in Nat,
           request' \in [Caller -> Responding \cup Selection \cup {Idle}],
           \A c \in Caller : ResponseInProgress(c)' => request'[c] = request[c],
           status' \in Ended \cup {"NONE", "IN_PROGRESS"},
           current' \in Item \cup {NoItem},
           status' = "IN_PROGRESS" => current' \in Item,
           ~overlapped /\ status' \in Ended => status' = status /\ current' = current
    PROVE  SessionInv'
<1>1. TypeOK'
  BY DEF SessionInv, TypeOK, SessionTypeOK
<1>2. CountedWhenAlone'
  BY DEF SessionInv, CountedWhenAlone
<1>3. \A c \in Caller : ResponseInProgress(c)' => ResponseInProgress(c)
  BY DEF ResponseInProgress
<1>4. ASSUME NEW c \in Caller, NEW op \in {"record", "decide", "finish"}, Does(c, op)'
      PROVE  Does(c, op) /\ request'[c] = request[c]
  BY <1>4 DEF Does, ResponseInProgress
<1>5. OneAtATime'
  BY <1>3, <1>4 DEF SessionInv, OneAtATime
<1> QED
  BY <1>1, <1>2, <1>5 DEF SessionInv

\* A step of the response in progress of one caller; another one is in
\* progress only in an overlapped session.
LEMMA OwnStep ==
    ASSUME SessionInv, SelectorTypeOK', NEW c \in Caller, NEW r \in Responding,
           request' = [request EXCEPT ![c] = r], ResponseInProgress(c),
           UNCHANGED <<status, current, total, late, overlapped, failures>>,
           rows' \in Seq(Row), CountedWhenAlone',
           ~overlapped =>
                /\ r.op = "record" => r.row.position = Len(rows') + 1
                /\ r.op = "decide" => r.row.position = Len(rows')
                /\ r.op = "finish" => r.total = Len(rows')
    PROVE  SessionInv'
<1>1. /\ request' \in [Caller -> Responding \cup Selection \cup {Idle}]
      /\ request'[c] = r
      /\ \A d \in Caller \ {c} : request'[d] = request[d]
  BY DEF SessionInv, TypeOK, SessionTypeOK
<1>2. TypeOK'
  BY <1>1 DEF SessionInv, TypeOK, SessionTypeOK
<1>3. OneAtATime'
  <2> SUFFICES ASSUME ~overlapped
               PROVE  OneAtATime'
    BY DEF OneAtATime
  <2>1. \A d \in Caller \ {c} : ~ResponseInProgress(d)
    BY DEF SessionInv, OneAtATime
  <2>2. \A d \in Caller \ {c} : ~ResponseInProgress(d)'
    BY <2>1, <1>1 DEF ResponseInProgress
  <2>3. \A d \in Caller \ {c} :
            ~Does(d, "record")' /\ ~Does(d, "decide")' /\ ~Does(d, "finish")'
    BY <2>2 DEF ResponseInProgress, Does
  <2>4. status \notin Ended
    BY DEF SessionInv, OneAtATime
  <2>5. /\ Does(c, "record")' => r.op = "record"
        /\ Does(c, "decide")' => r.op = "decide"
        /\ Does(c, "finish")' => r.op = "finish"
    BY <1>1 DEF Does
  <2> QED
    BY <2>2, <2>3, <2>4, <2>5, <1>1 DEF OneAtATime
<1> QED
  BY <1>2, <1>3 DEF SessionInv

LEMMA RecordStep ==
    ASSUME SessionInv, NEW c \in Caller, RecordResponse(c)
    PROVE  SessionInv'
<1> DEFINE r == [request[c] EXCEPT !.op = "decide"]
<1>1. /\ request[c] \in [op : {"record", "decide"}, row : Row, valid : Nat, given : SUBSET Item]
      /\ ResponseInProgress(c)
  <2>1. request[c] \in Responding \cup Selection \cup {Idle}
    BY DEF SessionInv, TypeOK, SessionTypeOK
  <2>2. request[c] # Idle /\ request[c].op = "record"
    BY DEF RecordResponse, Does
  <2> QED
    BY <2>1, <2>2 DEF Responding, Selection, ResponseInProgress
<1>2. r \in Responding /\ r.op = "decide" /\ r.row = request[c].row
  BY <1>1 DEF Responding
<1>3. request' = [request EXCEPT ![c] = r]
  BY DEF RecordResponse
<1>4. request[c].row \in Row /\ rows \in Seq(Row)
  BY <1>1 DEF SessionInv, TypeOK, SessionTypeOK
<1>5. /\ rows' = Append(rows, request[c].row)
      /\ rows' \in Seq(Row) /\ Len(rows') = Len(rows) + 1
      /\ DOMAIN rows' = 1..(Len(rows) + 1) /\ DOMAIN rows = 1..Len(rows)
      /\ \A n \in DOMAIN rows : rows'[n] = rows[n]
      /\ rows'[Len(rows) + 1] = request[c].row
  BY <1>4 DEF RecordResponse
<1>6. UNCHANGED <<status, current, total, late, overlapped, failures>>
  BY DEF RecordResponse
<1>7. ~overlapped => request[c].row.position = Len(rows) + 1 /\ status \notin Ended
  BY <1>1 DEF SessionInv, OneAtATime, RecordResponse
<1>8. CountedWhenAlone'
  <2>1. ASSUME ~overlapped, NEW n \in DOMAIN rows'
        PROVE  rows'[n].position = n
    <3>1. CASE n \in DOMAIN rows
      BY <2>1, <3>1, <1>5 DEF SessionInv, CountedWhenAlone
    <3>2. CASE n = Len(rows) + 1
      BY <2>1, <3>2, <1>5, <1>7
    <3> QED
      BY <2>1, <3>1, <3>2, <1>4, <1>5
  <2> QED
    BY <2>1, <1>6, <1>7 DEF CountedWhenAlone
<1>9. SelectorTypeOK'
  BY StutterStep DEF RecordResponse, SessionInv, TypeOK
<1> HIDE DEF r
<1> QED
  BY <1>1, <1>2, <1>3, <1>5, <1>6, <1>7, <1>8, <1>9, OwnStep

LEMMA StopStep ==
    ASSUME SessionInv, NEW c \in Caller, DecideToStop(c)
    PROVE  SessionInv'
<1> DEFINE r == [op |-> "finish", total |-> request[c].row.position,
                 outcome |-> IF late THEN "TERMINATED_BY_TIME" ELSE "COMPLETED"]
<1>1. request[c].row \in Row /\ ResponseInProgress(c) /\ Does(c, "decide")
  <2>1. request[c] \in Responding \cup Selection \cup {Idle}
    BY DEF SessionInv, TypeOK, SessionTypeOK
  <2>2. request[c] # Idle /\ request[c].op = "decide" /\ Does(c, "decide")
    BY DEF DecideToStop, Does
  <2> QED
    BY <2>1, <2>2 DEF Responding, Selection, ResponseInProgress
<1>2. r \in Responding /\ r.op = "finish" /\ r.total = request[c].row.position
  BY <1>1 DEF Responding, Row, Ended
<1>3. request' = [request EXCEPT ![c] = r]
  BY DEF DecideToStop
<1>4. UNCHANGED <<rows, status, current, total, late, overlapped, failures>>
  BY DEF DecideToStop
<1>5. CountedWhenAlone' /\ rows' \in Seq(Row)
  BY <1>4 DEF SessionInv, CountedWhenAlone, TypeOK, SessionTypeOK
<1>6. ~overlapped => request[c].row.position = Len(rows)
  BY <1>1 DEF SessionInv, OneAtATime
<1>7. SelectorTypeOK'
  BY StutterStep DEF DecideToStop, SessionInv, TypeOK
<1> HIDE DEF r
<1> QED
  BY <1>1, <1>2, <1>3, <1>4, <1>5, <1>6, <1>7, OwnStep

LEMMA GoOnStep ==
    ASSUME SessionInv, NEW c \in Caller, DecideToGoOn(c)
    PROVE  SessionInv'
<1> DEFINE r == [op |-> "next"]
<1>1. ResponseInProgress(c)
  BY DEF DecideToGoOn, Does, ResponseInProgress
<1>2. r \in Responding /\ r.op = "next"
  BY DEF Responding
<1>3. request' = [request EXCEPT ![c] = r]
  BY DEF DecideToGoOn
<1>4. UNCHANGED <<rows, status, current, total, late, overlapped, failures>>
  BY DEF DecideToGoOn
<1>5. CountedWhenAlone' /\ rows' \in Seq(Row)
  BY <1>4 DEF SessionInv, CountedWhenAlone, TypeOK, SessionTypeOK
<1>6. SelectorTypeOK'
  BY BeginStep DEF DecideToGoOn, SessionInv, TypeOK
<1> HIDE DEF r
<1> QED
  BY <1>1, <1>2, <1>3, <1>4, <1>5, <1>6, OwnStep

\* The request that ends the session was the only response in progress, and
\* its position counts the rows.
LEMMA FinishStep ==
    ASSUME SessionInv, NEW c \in Caller, FinishSession(c)
    PROVE  SessionInv'
<1>1. /\ request[c] # Idle /\ request[c].op = "finish"
      /\ request[c] \in Responding
  <2>1. request[c] \in Responding \cup Selection \cup {Idle}
    BY DEF SessionInv, TypeOK, SessionTypeOK
  <2>2. request[c] # Idle /\ request[c].op = "finish"
    BY DEF FinishSession, Does
  <2> QED
    BY <2>1, <2>2 DEF Selection
<1>2. request[c].outcome \in Ended /\ request[c].total \in Nat
  BY <1>1 DEF Responding
<1>3. /\ status' = request[c].outcome /\ current' = NoItem
      /\ total' = request[c].total
      /\ UNCHANGED <<rows, late, overlapped, failures>>
  BY DEF FinishSession
<1>4. /\ request' \in [Caller -> Responding \cup Selection \cup {Idle}]
      /\ request'[c] = Idle
      /\ \A d \in Caller \ {c} : request'[d] = request[d]
  BY DEF FinishSession, SessionInv, TypeOK, SessionTypeOK
<1>5. SelectorTypeOK'
  BY StutterStep DEF FinishSession, SessionInv, TypeOK
<1>6. status' \in Ended /\ status' # "IN_PROGRESS"
  BY <1>2, <1>3 DEF Ended
<1>7. TypeOK'
  BY <1>2, <1>3, <1>4, <1>5, <1>6 DEF SessionInv, TypeOK, SessionTypeOK
<1>8. ASSUME ~overlapped
      PROVE  /\ total' = Len(rows)
             /\ \A d \in Caller : ~ResponseInProgress(d)'
  <2>1. Does(c, "finish") /\ ResponseInProgress(c)
    BY <1>1 DEF Does, ResponseInProgress
  <2>2. total' = Len(rows)
    BY <1>8, <2>1, <1>3 DEF SessionInv, OneAtATime
  <2>3. \A d \in Caller \ {c} : ~ResponseInProgress(d)
    BY <1>8, <2>1 DEF SessionInv, OneAtATime
  <2> QED
    BY <2>2, <2>3, <1>4 DEF ResponseInProgress
<1>9. CountedWhenAlone'
  BY <1>3, <1>8 DEF SessionInv, CountedWhenAlone
<1>10. OneAtATime'
  BY <1>3, <1>8 DEF OneAtATime, ResponseInProgress, Does
<1> QED
  BY <1>7, <1>9, <1>10 DEF SessionInv

\* The other steps, which are apart from the responses in progress.
LEMMA RestStep ==
    ASSUME SessionInv, NEW c \in Caller,
           \/ RequestStart(c) \/ CreateSession(c) \/ RequestItem(c) \/ ReturnItem(c)
           \/ BankExhausted(c) \/ NextItem(c) \/ Fail(c) \/ Select(c)
    PROVE  SessionInv'
<1>1. SelectorTypeOK /\ SelectorTypeOK'
  <2>1. SelectorTypeOK
    BY DEF SessionInv, TypeOK
  <2>2. [Next]_vars
    BY DEF Next, Proceed
  <2> QED
    BY <2>1, <2>2, SystemStep
<1>2. /\ request \in [Caller -> Responding \cup Selection \cup {Idle}]
      /\ late \in BOOLEAN /\ failures \in Nat /\ failures + 1 \in Nat
      /\ status \in Ended \cup {"NONE", "IN_PROGRESS"}
      /\ current \in Item \cup {NoItem}
      /\ status = "IN_PROGRESS" => current \in Item
  BY DEF SessionInv, TypeOK, SessionTypeOK
<1>3. At(c, "done") => selection[c].item \in Item
  BY <1>1 DEF SelectorTypeOK, Selecting, At
<1>4. CASE RequestStart(c) \/ RequestItem(c)
  <2>1. /\ \E r \in Selection : request' = [request EXCEPT ![c] = r]
        /\ UNCHANGED <<status, current, rows, total, late, overlapped, failures>>
    BY <1>4 DEF RequestStart, RequestItem, Selection
  <2>2. /\ request' \in [Caller -> Responding \cup Selection \cup {Idle}]
        /\ \A d \in Caller : ResponseInProgress(d)' => request'[d] = request[d]
    BY <2>1, <1>2 DEF Selection, ResponseInProgress
  <2> QED
    BY <2>1, <2>2, <1>1, <1>2, ApartStep
<1>5. CASE \/ CreateSession(c) \/ ReturnItem(c) \/ BankExhausted(c)
           \/ NextItem(c) \/ Fail(c)
  <2>1. request' = [request EXCEPT ![c] = Idle]
    BY <1>5 DEF CreateSession, ReturnItem, BankExhausted, NextItem, Fail
  <2>2. /\ request' \in [Caller -> Responding \cup Selection \cup {Idle}]
        /\ \A d \in Caller : ResponseInProgress(d)' => request'[d] = request[d]
    BY <2>1, <1>2 DEF ResponseInProgress
  <2>3. CASE ReturnItem(c) \/ BankExhausted(c) \/ Fail(c)
    <3>1. /\ UNCHANGED <<status, current, rows, total, late, overlapped>>
          /\ failures' = failures \/ failures' = failures + 1
      BY <2>3 DEF ReturnItem, BankExhausted, Fail
    <3> QED
      BY <3>1, <2>2, <1>1, <1>2, ApartStep
  <2>4. CASE CreateSession(c)
    <3>1. /\ UNCHANGED <<rows, total, late, overlapped, failures>>
          /\ status' = "IN_PROGRESS" /\ current' \in Item
      BY <2>4, <1>3 DEF CreateSession, TakeItem
    <3> QED
      BY <3>1, <2>2, <1>1, <1>2, ApartStep DEF Ended
  <2>5. CASE NextItem(c)
    <3>1. /\ UNCHANGED <<status, rows, total, late, overlapped, failures>>
          /\ current' \in Item /\ ResponseInProgress(c)
      BY <2>5, <1>3 DEF NextItem, TakeItem, Does, ResponseInProgress
    <3>2. ~overlapped => status \notin Ended
      BY <3>1 DEF SessionInv, OneAtATime
    <3> QED
      BY <3>1, <3>2, <2>2, <1>1, <1>2, ApartStep
  <2> QED
    BY <1>5, <2>3, <2>4, <2>5
<1>6. CASE Select(c)
  <2>1. UNCHANGED <<status, current, rows, total, late, request, overlapped, failures>>
    BY <1>6 DEF Select, sessionVars
  <2> QED
    BY <2>1, <1>1, <1>2, ApartStep
<1> QED
  BY <1>4, <1>5, <1>6

LEMMA SessionStart == Init => SessionInv
<1> SUFFICES ASSUME Init
             PROVE  SessionInv
  OBVIOUS
<1>1. SelectorTypeOK
  BY SelectorStart DEF SelectorInv
<1>2. TypeOK
  <2>1. rows \in Seq(Row)
    BY DEF Init
  <2>2. request \in [Caller -> Responding \cup Selection \cup {Idle}]
    BY DEF Init
  <2> QED
    BY <1>1, <2>1, <2>2 DEF Init, TypeOK, SessionTypeOK
<1>3. CountedWhenAlone
  BY DEF Init, CountedWhenAlone, Ended
<1>4. OneAtATime
  BY DEF Init, OneAtATime, ResponseInProgress, Does
<1> QED
  BY <1>2, <1>3, <1>4 DEF SessionInv

LEMMA SessionKept == SessionInv /\ [Next]_vars => SessionInv'
<1> SUFFICES ASSUME SessionInv, [Next]_vars
             PROVE  SessionInv'
  OBVIOUS
<1>1. CASE UNCHANGED vars \/ TimeUp
  <2>1. SelectorTypeOK'
    BY <1>1, StutterStep DEF vars, TimeUp, SessionInv, TypeOK
  <2>2. /\ UNCHANGED <<status, current, rows, total, request, overlapped, failures>>
        /\ late' \in BOOLEAN
    BY <1>1 DEF vars, sessionVars, TimeUp, SessionInv, TypeOK, SessionTypeOK
  <2> QED
    BY <2>1, <2>2, ApartStep DEF SessionInv, TypeOK, SessionTypeOK
<1>2. ASSUME NEW c \in Caller,
             RequestStart(c) \/ RequestItem(c) \/ Respond(c) \/ Fail(c)
      PROVE  SessionInv'
  BY <1>2, RestStep, ReadStep
<1>3. ASSUME NEW c \in Caller, Proceed(c)
      PROVE  SessionInv'
  BY <1>3, RecordStep, StopStep, FinishStep, GoOnStep, RestStep DEF Proceed
<1> QED
  BY <1>1, <1>2, <1>3 DEF Next

\* The invariant of the session holds for any number of requests, failures
\* and responses (processResponse, cat.service.ts).
THEOREM SessionInvariance == Spec => []SessionInv
BY SessionStart, SessionKept, PTL DEF Spec

-----------------------------------------------------------------------------
(***************************************************************************)
(* No item twice.  While nothing overlaps or fails, what a response in     *)
(* progress has read is what the rows say, and the item it is given next   *)
(* is none of theirs.                                                      *)
(***************************************************************************)
Answered == {rows[n].item : n \in DOMAIN rows}

Resting == \A c \in Caller : ~ResponseInProgress(c)

\* One request creates the session, before any response.
StartInv ==
    /\ \A c, d \in Caller : Does(c, "start") /\ Does(d, "start") => c = d
    /\ \A c \in Caller : Does(c, "start") => status = "NONE"
    /\ status = "NONE" => rows = <<>> /\ Resting

NewSelection(c) ==
    selection[c] # Idle =>
        /\ selection[c].left \cap Answered = {}
        /\ selection[c].best \notin Answered /\ selection[c].item \notin Answered

UpToDate(c) ==
    /\ Does(c, "record") =>
        /\ request[c].row.item \notin Answered
        /\ request[c].given = Answered \cup {request[c].row.item}
        /\ request[c].valid = Valid(rows) + (IF request[c].row.rapid THEN 0 ELSE 1)
        /\ request[c].valid <= MaxItems
    /\ Does(c, "decide") =>
        /\ request[c].given = Answered
        /\ request[c].valid = Valid(rows)
    /\ Does(c, "next") => NewSelection(c) /\ Valid(rows) < MaxItems

Undisturbed == ~overlapped /\ failures = 0

FreshInv == Undisturbed =>
    /\ \A n, m \in DOMAIN rows : rows[n].item = rows[m].item => n = m
    /\ Valid(rows) <= MaxItems
    /\ \A c \in Caller : UpToDate(c)
    /\ status = "IN_PROGRESS" /\ Resting
         => current \notin Answered /\ Valid(rows) < MaxItems

\* Once there is a session, nothing starts another.
LEMMA StartedStays ==
    ASSUME StartInv, status # "NONE", status' # "NONE",
           \A c \in Caller : Does(c, "start")' => Does(c, "start")
    PROVE  StartInv'
BY DEF StartInv

LEMMA StartKept == SessionInv /\ StartInv /\ [Next]_vars => StartInv'
<1> SUFFICES ASSUME SessionInv, StartInv, [Next]_vars
             PROVE  StartInv'
  OBVIOUS
<1>1. /\ request \in [Caller -> Responding \cup Selection \cup {Idle}]
      /\ \A c \in Caller : ResponseInProgress(c) => status # "NONE"
  BY DEF SessionInv, TypeOK, SessionTypeOK, StartInv, Resting
<1>2. CASE UNCHANGED vars \/ TimeUp \/ \E c \in Caller : Select(c)
  <2>1. UNCHANGED <<status, rows, request>>
    BY <1>2 DEF vars, TimeUp, Select, sessionVars
  <2> QED
    BY <2>1 DEF StartInv, Resting, Does, ResponseInProgress
<1>3. ASSUME NEW c \in Caller, RequestStart(c)
      PROVE  StartInv'
  <2>1. /\ status = "NONE" /\ \A d \in Caller : ~Does(d, "start")
        /\ request'[c] = [op |-> "start"] /\ UNCHANGED <<status, rows>>
        /\ \A d \in Caller \ {c} : request'[d] = request[d]
    BY <1>1, <1>3 DEF RequestStart
  <2> QED
    BY <2>1 DEF StartInv, Resting, Does, ResponseInProgress
<1>4. ASSUME NEW c \in Caller, CreateSession(c)
      PROVE  StartInv'
  <2>1. /\ Does(c, "start") /\ status' = "IN_PROGRESS" /\ request'[c] = Idle
        /\ \A d \in Caller \ {c} : request'[d] = request[d]
    BY <1>1, <1>4 DEF CreateSession
  <2> QED
    BY <2>1 DEF StartInv, Does
<1>5. ASSUME NEW c \in Caller, RequestItem(c) \/ ReturnItem(c) \/ Fail(c)
      PROVE  StartInv'
  <2>1. /\ request'[c] = [op |-> "legacy"] \/ request'[c] = Idle
        /\ UNCHANGED <<status, rows>>
        /\ \A d \in Caller \ {c} : request'[d] = request[d]
    BY <1>1, <1>5 DEF RequestItem, ReturnItem, Fail
  <2>2. \A d \in Caller : /\ Does(d, "start")' => Does(d, "start")
                          /\ ResponseInProgress(d)' => ResponseInProgress(d)
    BY <2>1 DEF Does, ResponseInProgress
  <2> QED
    BY <2>1, <2>2 DEF StartInv, Resting
<1>6. ASSUME NEW c \in Caller, Respond(c)
      PROVE  StartInv'
  <2>1. /\ status = "IN_PROGRESS" /\ status' = status
        /\ request'[c].op = "record"
        /\ \A d \in Caller \ {c} : request'[d] = request[d]
    BY <1>1, <1>6 DEF Respond, ReadSession
  <2> QED
    BY <2>1, StartedStays DEF Does
<1>7. ASSUME NEW c \in Caller,
             \/ RecordResponse(c) \/ DecideToStop(c) \/ FinishSession(c)
             \/ DecideToGoOn(c) \/ BankExhausted(c) \/ NextItem(c)
      PROVE  StartInv'
  <2>1. /\ Does(c, "record") \/ Does(c, "decide") \/ Does(c, "finish") \/ Does(c, "next")
        /\ status # "NONE"
    <3>1. Does(c, "record") \/ Does(c, "decide") \/ Does(c, "finish") \/ Does(c, "next")
      BY <1>7 DEF RecordResponse, DecideToStop, FinishSession, DecideToGoOn,
                  BankExhausted, NextItem
    <3> QED
      BY <1>1, <3>1 DEF Does, ResponseInProgress
  <2>2. status' # "NONE"
    <3>1. CASE FinishSession(c)
      <4>1. request[c].outcome \in Ended
        BY <1>1, <3>1 DEF FinishSession, Does, Responding, Selection
      <4> QED
        BY <3>1, <4>1 DEF FinishSession, Ended
    <3>2. CASE ~FinishSession(c)
      BY <1>7, <2>1, <3>2 DEF RecordResponse, DecideToStop, DecideToGoOn,
                              BankExhausted, NextItem
    <3> QED
      BY <3>1, <3>2
  <2>3. /\ request'[c] = Idle \/ request'[c].op \in {"decide", "finish", "next"}
        /\ \A d \in Caller \ {c} : request'[d] = request[d]
    <3>1. CASE RecordResponse(c)
      <4>1. request[c] \in Responding /\ request[c].op = "record"
        BY <1>1, <3>1 DEF RecordResponse, Does, Selection
      <4>2. request' = [request EXCEPT ![c] = [request[c] EXCEPT !.op = "decide"]]
        BY <3>1 DEF RecordResponse
      <4> QED
        BY <1>1, <4>1, <4>2 DEF Responding
    <3>2. CASE ~RecordResponse(c)
      BY <1>1, <1>7, <3>2 DEF DecideToStop, FinishSession, DecideToGoOn,
                              BankExhausted, NextItem
    <3> QED
      BY <3>1, <3>2
  <2>4. \A d \in Caller : Does(d, "start")' => Does(d, "start")
    BY <2>3 DEF Does
  <2> QED
    BY <2>1, <2>2, <2>4, StartedStays
<1> QED
  BY <1>2, <1>3, <1>4, <1>5, <1>6, <1>7 DEF Next, Proceed

-----------------------------------------------------------------------------
\* A step that leaves the responses in progress and the rows as they are.
LEMMA FreshApart ==
    ASSUME FreshInv, UNCHANGED <<rows, overlapped, failures>>,
           \A c \in Caller : ResponseInProgress(c)' =>
             /\ request'[c] = request[c]
             /\ selection'[c] = selection[c] \/ NewSelection(c)',
           status' = "IN_PROGRESS" /\ Resting' =>
             \/ status = "IN_PROGRESS" /\ Resting /\ current' = current
             \/ Undisturbed => current' \notin Answered /\ Valid(rows) < MaxItems
    PROVE  FreshInv'
<1> SUFFICES ASSUME Undisturbed
             PROVE  FreshInv'
  BY DEF FreshInv, Undisturbed
<1>1. Answered' = Answered /\ Valid(rows)' = Valid(rows)
  BY DEF Answered, Valid
<1>2. ASSUME NEW c \in Caller
      PROVE  UpToDate(c)'
  <2>1. UpToDate(c)
    BY DEF FreshInv
  <2>2. CASE ~ResponseInProgress(c)'
    BY <2>2 DEF UpToDate, Does, ResponseInProgress
  <2>3. CASE ResponseInProgress(c)'
    <3>1. /\ request'[c] = request[c]
          /\ selection'[c] = selection[c] \/ NewSelection(c)'
      BY <2>3
    <3>2. NewSelection(c) => NewSelection(c)'
      BY <1>1, <3>1 DEF NewSelection
    <3> QED
      BY <1>1, <2>1, <3>1, <3>2 DEF UpToDate, Does
  <2> QED
    BY <2>2, <2>3
<1> QED
  BY <1>1, <1>2 DEF FreshInv, Undisturbed

\* A step that fails leaves nothing to show.
LEMMA DisturbedIsFresh ==
    ASSUME failures' # 0 \/ overlapped'
    PROVE  FreshInv'
BY DEF FreshInv, Undisturbed

\* Whoever responds is alone.
LEMMA RespondsAlone ==
    ASSUME SessionInv, Undisturbed, NEW c \in Caller, ResponseInProgress(c),
           NEW d \in Caller \ {c}
    PROVE  ~ResponseInProgress(d) /\ ~Does(d, "record") /\ ~Does(d, "decide")
           /\ ~Does(d, "next")
<1>1. ~ResponseInProgress(d)
  BY DEF SessionInv, OneAtATime, Undisturbed
<1> QED
  BY <1>1 DEF ResponseInProgress, Does

(* A response that is read meets the current item for the first time.      *)
LEMMA ReadFresh ==
    ASSUME SessionInv, FreshInv, NEW c \in Caller, Respond(c)
    PROVE  FreshInv'
<1> PICK rapid \in BOOLEAN : ReadSession(c, rapid)
  BY DEF Respond
<1> SUFFICES ASSUME Undisturbed'
             PROVE  FreshInv'
  BY DEF FreshInv
<1>1. /\ rows \in Seq(Row) /\ current \in Item /\ status = "IN_PROGRESS"
      /\ request \in [Caller -> Responding \cup Selection \cup {Idle}]
  BY DEF ReadSession, SessionInv, TypeOK, SessionTypeOK
<1>2. PICK precise \in BOOLEAN :
        request' = [request EXCEPT ![c] =
            [op |-> "record",
             row |-> [item |-> current, position |-> NextPosition,
                      rapid |-> rapid, precise |-> precise],
             valid |-> Valid(rows) + (IF rapid THEN 0 ELSE 1),
             given |-> Answered \cup {current}]]
  BY <1>1, RowsRead DEF ReadSession, Answered
<1>3. Undisturbed /\ Resting /\ UNCHANGED <<status, current, rows>>
  BY DEF Undisturbed, ReadSession, Resting
<1>4. /\ current \notin Answered /\ Valid(rows) < MaxItems
      /\ \A n, m \in DOMAIN rows : rows[n].item = rows[m].item => n = m
  BY <1>1, <1>3 DEF FreshInv
<1>5. Valid(rows) \in Nat /\ MaxItems \in Nat
  BY <1>1, RowsRead, SessionAssumption
<1>6. Answered' = Answered /\ Valid(rows)' = Valid(rows)
  BY <1>3 DEF Answered, Valid
<1>7. /\ request'[c].op = "record" /\ request'[c].row.item = current
      /\ request'[c].row.rapid = rapid
      /\ request'[c].valid = Valid(rows) + (IF rapid THEN 0 ELSE 1)
      /\ request'[c].given = Answered \cup {current}
      /\ \A d \in Caller \ {c} : request'[d] = request[d]
  BY <1>1, <1>2
<1>8. UpToDate(c)'
  BY <1>4, <1>5, <1>6, <1>7 DEF UpToDate, Does
<1>9. ASSUME NEW d \in Caller \ {c}
      PROVE  UpToDate(d)'
  BY <1>3, <1>7 DEF Resting, ResponseInProgress, UpToDate, Does
<1> QED
  BY <1>3, <1>4, <1>5, <1>6, <1>8, <1>9 DEF FreshInv

\* Writing a row adds its item, and counts it unless it is a rapid guess.
LEMMA RowAdded ==
    ASSUME rows \in Seq(Row), NEW row \in Row, rows' = Append(rows, row)
    PROVE  /\ Answered' = Answered \cup {row.item}
           /\ Valid(rows)' = Valid(rows) + (IF row.rapid THEN 0 ELSE 1)
<1> DEFINE n == Len(rows) + 1
           S == {k \in DOMAIN rows : ~rows[k].rapid}
<1>1. /\ DOMAIN rows' = 1..n /\ DOMAIN rows = 1..Len(rows) /\ n \in Nat
      /\ \A k \in DOMAIN rows : rows'[k] = rows[k]
      /\ rows'[n] = row /\ n \notin DOMAIN rows /\ Len(rows) \in Nat
  OBVIOUS
<1>2. DOMAIN rows' = DOMAIN rows \cup {n}
  BY <1>1
<1>3. Answered' = Answered \cup {row.item}
  BY <1>1, <1>2 DEF Answered
<1>4. IsFiniteSet(S) /\ Cardinality(S) \in Nat /\ n \notin S
  <2>1. IsFiniteSet(DOMAIN rows)
    BY <1>1, FS_Interval
  <2>2. IsFiniteSet(S)
    BY <2>1, FS_Subset
  <2> QED
    BY <1>1, <2>2, FS_CardinalityType
<1>5. {k \in DOMAIN rows' : ~rows'[k].rapid} = IF row.rapid THEN S ELSE S \cup {n}
  BY <1>1, <1>2
<1>6. Cardinality(S \cup {n}) = Cardinality(S) + 1
  BY <1>4, FS_AddElement
<1>7. /\ Valid(rows) = Cardinality(S)
      /\ row.rapid => Valid(rows)' = Cardinality(S)
      /\ ~row.rapid => Valid(rows)' = Cardinality(S \cup {n})
  BY <1>5 DEF Valid
<1> HIDE DEF S, n
<1>8. CASE row.rapid
  BY <1>3, <1>4, <1>7, <1>8
<1>9. CASE ~row.rapid
  BY <1>3, <1>4, <1>6, <1>7, <1>9
<1> QED
  BY <1>8, <1>9

LEMMA RecordFresh ==
    ASSUME SessionInv, FreshInv, NEW c \in Caller, RecordResponse(c)
    PROVE  FreshInv'
<1> SUFFICES ASSUME Undisturbed
             PROVE  FreshInv'
  BY DEF FreshInv, Undisturbed, RecordResponse
<1> DEFINE row == request[c].row
           r == [request[c] EXCEPT !.op = "decide"]
<1>1. /\ request[c] \in [op : {"record", "decide"}, row : Row, valid : Nat, given : SUBSET Item]
      /\ Does(c, "record") /\ ResponseInProgress(c)
      /\ rows \in Seq(Row)
      /\ request \in [Caller -> Responding \cup Selection \cup {Idle}]
  <2>1. /\ rows \in Seq(Row)
        /\ request \in [Caller -> Responding \cup Selection \cup {Idle}]
    BY DEF SessionInv, TypeOK, SessionTypeOK
  <2>2. request[c] # Idle /\ request[c].op = "record"
    BY DEF RecordResponse, Does
  <2> QED
    BY <2>1, <2>2 DEF Responding, Selection, ResponseInProgress, Does
<1>2. /\ row \in Row /\ row.item \notin Answered
      /\ request[c].given = Answered \cup {row.item}
      /\ request[c].valid = Valid(rows) + (IF row.rapid THEN 0 ELSE 1)
      /\ request[c].valid <= MaxItems
  BY <1>1 DEF FreshInv, UpToDate
<1>3. /\ rows' = Append(rows, row) /\ request' = [request EXCEPT ![c] = r]
  BY DEF RecordResponse
<1>4. Answered' = Answered \cup {row.item} /\ Valid(rows)' = request[c].valid
  BY <1>1, <1>2, <1>3, RowAdded
<1>5. /\ r \in Responding /\ r.op = "decide" /\ r.given = request[c].given
      /\ r.valid = request[c].valid
  BY <1>1 DEF Responding
<1>6. /\ request'[c] = r /\ request'[c] # Idle
      /\ \A d \in Caller \ {c} : request'[d] = request[d]
  BY <1>1, <1>3, <1>5, RequestAssumption
<1>7. \A n, m \in DOMAIN rows' : rows'[n].item = rows'[m].item => n = m
  <2>1. /\ DOMAIN rows' = DOMAIN rows \cup {Len(rows) + 1}
        /\ \A n \in DOMAIN rows : rows'[n] = rows[n]
        /\ rows'[Len(rows) + 1] = row
    BY <1>1, <1>2, <1>3
  <2>2. \A n \in DOMAIN rows : rows[n].item # row.item
    BY <1>2 DEF Answered
  <2>3. \A n, m \in DOMAIN rows : rows[n].item = rows[m].item => n = m
    BY DEF FreshInv
  <2> HIDE DEF row
  <2> QED
    BY <2>1, <2>2, <2>3
<1> HIDE DEF r, row
<1>8. UpToDate(c)'
  BY <1>2, <1>4, <1>5, <1>6 DEF UpToDate, Does
<1>9. ASSUME NEW d \in Caller \ {c}
      PROVE  UpToDate(d)'
  <2>1. ~Does(d, "record") /\ ~Does(d, "decide") /\ ~Does(d, "next")
    BY <1>1, RespondsAlone
  <2> QED
    BY <1>6, <2>1 DEF UpToDate, Does
<1>10. ~Resting'
  BY <1>5, <1>6 DEF Resting, ResponseInProgress
<1> QED
  BY <1>2, <1>4, <1>7, <1>8, <1>9, <1>10 DEF FreshInv

(* Going on: the item to come is none of those answered.                   *)
LEMMA BeginFresh ==
    ASSUME SelectorTypeOK, NEW c \in Caller, BeginSelection(c, Answered), rows' = rows
    PROVE  NewSelection(c)' /\ \A d \in Caller \ {c} : selection'[d] = selection[d]
<1>1. Answered' = Answered
  BY DEF Answered
<1>2. PICK best \in NotGiven(Answered) :
        selection' = [selection EXCEPT ![c] =
            [step |-> IF exposureControl THEN "draw" ELSE "done",
             left |-> IF exposureControl THEN NotGiven(Answered) ELSE {},
             best |-> best, item |-> best]]
  BY DEF BeginSelection
<1>3. /\ selection'[c].best = best /\ selection'[c].item = best
      /\ selection'[c].left \subseteq NotGiven(Answered)
      /\ \A d \in Caller \ {c} : selection'[d] = selection[d]
  BY <1>2 DEF SelectorTypeOK
<1> QED
  BY <1>1, <1>3 DEF NewSelection, NotGiven

LEMMA GoOnFresh ==
    ASSUME SessionInv, FreshInv, NEW c \in Caller, DecideToGoOn(c)
    PROVE  FreshInv'
<1> SUFFICES ASSUME Undisturbed
             PROVE  FreshInv'
  BY DEF FreshInv, Undisturbed, DecideToGoOn
<1>1. /\ UNCHANGED <<status, current, rows, failures, overlapped>>
      /\ Does(c, "decide") /\ ResponseInProgress(c)
      /\ request' = [request EXCEPT ![c] = [op |-> "next"]]
      /\ request \in [Caller -> Responding \cup Selection \cup {Idle}]
      /\ rows \in Seq(Row)
  BY DEF DecideToGoOn, Does, ResponseInProgress, SessionInv, TypeOK, SessionTypeOK
<1>2. /\ request[c].given = Answered /\ request[c].valid = Valid(rows)
      /\ Valid(rows) \in Nat /\ MaxItems \in Nat
  BY <1>1, RowsRead, SessionAssumption DEF FreshInv, UpToDate
<1>3. Valid(rows) < MaxItems
  BY <1>2 DEF DecideToGoOn, Stops
<1>4. NewSelection(c)'
  BY <1>1, <1>2, BeginFresh DEF DecideToGoOn, SessionInv, TypeOK
<1>5. Answered' = Answered /\ Valid(rows)' = Valid(rows)
  BY <1>1 DEF Answered, Valid
<1>6. [op |-> "next"] \in Responding
  BY DEF Responding
<1>7. /\ request'[c] = [op |-> "next"] /\ request'[c] # Idle
      /\ \A d \in Caller \ {c} : request'[d] = request[d]
  BY <1>1, <1>6, RequestAssumption
<1>8. UpToDate(c)'
  BY <1>3, <1>4, <1>5, <1>7 DEF UpToDate, Does
<1>9. ASSUME NEW d \in Caller \ {c}
      PROVE  UpToDate(d)'
  <2>1. ~Does(d, "record") /\ ~Does(d, "decide") /\ ~Does(d, "next")
    BY <1>1, RespondsAlone
  <2> QED
    BY <1>7, <2>1 DEF UpToDate, Does
<1>10. ~Resting'
  BY <1>7 DEF Resting, ResponseInProgress
<1> QED
  BY <1>1, <1>5, <1>8, <1>9, <1>10 DEF FreshInv

\* The loop of the selector only ever takes what is left.
LEMMA SelectFresh ==
    ASSUME SelectorTypeOK, NEW c \in Caller, SelectorStep(c), rows' = rows
    PROVE  /\ NewSelection(c) => NewSelection(c)'
           /\ \A d \in Caller \ {c} : selection'[d] = selection[d]
<1>1. Answered' = Answered
  BY DEF Answered
<1>2. selection[c] # Idle /\ selection[c] \in Selecting
  BY DEF SelectorStep, Draw, CountAdministered, Fallback, At, SelectorTypeOK
<1>3. CASE Draw(c)
  <2> DEFINE s == selection[c]
  <2>1. PICK i \in IF s.best \in s.left THEN {s.best} ELSE s.left :
        \/ selection' = [selection EXCEPT ![c] =
             [s EXCEPT !.step = "administer", !.left = {}, !.best = i, !.item = i]]
        \/ selection' = [selection EXCEPT ![c].left = @ \ {i}]
    BY <1>3 DEF Draw
  <2>2. i \in s.left
    OBVIOUS
  <2>3. ASSUME selection' = [selection EXCEPT ![c] =
                 [s EXCEPT !.step = "administer", !.left = {}, !.best = i, !.item = i]]
        PROVE  /\ selection'[c].left = {} /\ selection'[c].best = i
               /\ selection'[c].item = i
               /\ \A d \in Caller \ {c} : selection'[d] = selection[d]
    BY <1>2, <2>3 DEF SelectorTypeOK, Selecting
  <2>4. ASSUME selection' = [selection EXCEPT ![c].left = @ \ {i}]
        PROVE  /\ selection'[c].left = s.left \ {i}
               /\ selection'[c].best = s.best /\ selection'[c].item = s.item
               /\ \A d \in Caller \ {c} : selection'[d] = selection[d]
    BY <1>2, <2>4 DEF SelectorTypeOK, Selecting
  <2> QED
    BY <1>1, <1>2, <2>1, <2>2, <2>3, <2>4 DEF NewSelection
<1>4. CASE CountAdministered(c) \/ Fallback(c)
  <2>1. selection' = [selection EXCEPT ![c].step = "done"]
    BY <1>4 DEF CountAdministered, Fallback
  <2>2. /\ selection'[c].left = selection[c].left
        /\ selection'[c].best = selection[c].best
        /\ selection'[c].item = selection[c].item
        /\ \A d \in Caller \ {c} : selection'[d] = selection[d]
    BY <1>2, <2>1 DEF SelectorTypeOK, Selecting
  <2> QED
    BY <1>1, <1>2, <2>2 DEF NewSelection
<1> QED
  BY <1>3, <1>4 DEF SelectorStep

LEMMA RestFresh ==
    ASSUME SessionInv, StartInv, FreshInv, NEW c \in Caller, MaxItems > 0,
           \/ RequestStart(c) \/ CreateSession(c) \/ RequestItem(c)
           \/ ReturnItem(c) \/ DecideToStop(c) \/ FinishSession(c)
           \/ NextItem(c) \/ Select(c)
    PROVE  FreshInv'
<1>1. /\ request \in [Caller -> Responding \cup Selection \cup {Idle}]
      /\ rows \in Seq(Row) /\ SelectorTypeOK
      /\ selection \in [Caller -> Selecting \cup {Idle}]
  BY DEF SessionInv, TypeOK, SessionTypeOK, SelectorTypeOK
<1>2. UNCHANGED <<rows, overlapped, failures>>
  BY DEF RequestStart, CreateSession, RequestItem, ReturnItem, DecideToStop,
         FinishSession, NextItem, Select, sessionVars
<1>3. CASE RequestStart(c) \/ RequestItem(c)
  <2>1. /\ UNCHANGED <<status, current>> /\ request[c] = Idle
        /\ request'[c] \in Selection
        /\ \A d \in Caller \ {c} : request'[d] = request[d]
        /\ \A d \in Caller \ {c} : selection'[d] = selection[d]
    BY <1>1, <1>3 DEF RequestStart, RequestItem, BeginSelection, Selection
  <2>2. /\ ~ResponseInProgress(c) /\ ~ResponseInProgress(c)'
        /\ \A d \in Caller \ {c} : ResponseInProgress(d)' <=> ResponseInProgress(d)
    BY <2>1 DEF ResponseInProgress, Selection
  <2>3. Resting' <=> Resting
    BY <2>2 DEF Resting
  <2> QED
    BY <1>2, <2>1, <2>2, <2>3, FreshApart
<1>4. CASE CreateSession(c) \/ ReturnItem(c)
  <2>1. /\ \A d \in Caller \ {c} : request'[d] = request[d]
        /\ \A d \in Caller \ {c} : selection'[d] = selection[d]
    BY <1>1, <1>4 DEF CreateSession, ReturnItem, TakeItem
  <2>2. /\ request'[c] = Idle
        /\ ~ResponseInProgress(c) /\ ~ResponseInProgress(c)'
        /\ \A d \in Caller \ {c} : ResponseInProgress(d)' <=> ResponseInProgress(d)
    BY <1>1, <1>4, <2>1 DEF CreateSession, ReturnItem, Does, ResponseInProgress
  <2>3. Resting' <=> Resting
    BY <2>2 DEF Resting
  <2>4. CASE ReturnItem(c)
    BY <1>2, <2>1, <2>2, <2>3, <2>4, FreshApart DEF ReturnItem
  <2>5. CASE CreateSession(c)
    <3>1. rows = <<>>
      BY <2>5 DEF CreateSession, StartInv
    <3>2. Answered = {} /\ Valid(rows) = 0
      BY <3>1, FS_EmptySet DEF Answered, Valid
    <3> QED
      BY <1>2, <2>1, <2>2, <3>2, FreshApart
  <2> QED
    BY <1>4, <2>4, <2>5
<1>5. CASE DecideToStop(c)
  <2>1. /\ UNCHANGED <<status, current, selection>> /\ Does(c, "decide")
        /\ request' = [request EXCEPT ![c] =
            [op |-> "finish", total |-> request[c].row.position,
             outcome |-> IF late THEN "TERMINATED_BY_TIME" ELSE "COMPLETED"]]
    BY <1>5 DEF DecideToStop, selectorVars
  <2>2. /\ request'[c].op = "finish"
        /\ \A d \in Caller \ {c} : request'[d] = request[d]
    BY <1>1, <2>1
  <2>3. SessionInv'
    BY <1>5, StopStep
  <2>4. request[c] \in Responding /\ request[c].row \in Row
    BY <1>1, <2>1 DEF Does, Responding, Selection
  <2>5. [op |-> "finish", total |-> request[c].row.position,
         outcome |-> IF late THEN "TERMINATED_BY_TIME" ELSE "COMPLETED"] \in Responding
    BY <2>4 DEF Responding, Row, Ended
  <2>6. request'[c] # Idle
    BY <1>1, <2>1, <2>5, RequestAssumption
  <2>7. ResponseInProgress(c)'
    BY <2>2, <2>6 DEF ResponseInProgress
  <2>8. SUFFICES ASSUME Undisturbed
                 PROVE  FreshInv'
    BY <1>2 DEF FreshInv, Undisturbed
  <2>9. Answered' = Answered /\ Valid(rows)' = Valid(rows)
    BY <1>2 DEF Answered, Valid
  <2>10. UpToDate(c)'
    BY <2>2 DEF UpToDate, Does
  <2>11. ASSUME NEW d \in Caller \ {c}
         PROVE  UpToDate(d)'
    <3>1. UpToDate(d)
      BY <2>8 DEF FreshInv
    <3> QED
      BY <2>1, <2>2, <2>9, <3>1 DEF UpToDate, Does, NewSelection
  <2> QED
    BY <1>2, <2>7, <2>8, <2>9, <2>10, <2>11 DEF FreshInv, Resting
<1>6. CASE FinishSession(c)
  <2>1. request[c].outcome \in Ended
    BY <1>1, <1>6 DEF FinishSession, Does, Responding, Selection
  <2>2. status' # "IN_PROGRESS" /\ selection' = selection
    BY <1>6, <2>1 DEF FinishSession, selectorVars, Ended
  <2>3. /\ request'[c] = Idle
        /\ \A d \in Caller \ {c} : request'[d] = request[d]
    BY <1>1, <1>6 DEF FinishSession
  <2> QED
    BY <1>2, <2>2, <2>3, FreshApart DEF ResponseInProgress
<1>7. CASE NextItem(c)
  <2>1. /\ request'[c] = Idle /\ status' = status
        /\ current' = selection[c].item /\ selection[c] # Idle
        /\ Does(c, "next") /\ ResponseInProgress(c)
        /\ \A d \in Caller \ {c} : request'[d] = request[d]
        /\ \A d \in Caller \ {c} : selection'[d] = selection[d]
    BY <1>1, <1>7 DEF NextItem, TakeItem, At, Does, ResponseInProgress
  <2>2. Undisturbed => current' \notin Answered /\ Valid(rows) < MaxItems
    BY <2>1 DEF FreshInv, UpToDate, NewSelection
  <2> QED
    BY <1>2, <2>1, <2>2, FreshApart DEF ResponseInProgress
<1>8. CASE Select(c)
  <2>1. UNCHANGED <<status, current, request>> /\ SelectorStep(c) /\ rows' = rows
    BY <1>8 DEF Select, sessionVars
  <2>2. /\ NewSelection(c) => NewSelection(c)'
        /\ \A d \in Caller \ {c} : selection'[d] = selection[d]
    BY <1>1, <2>1, SelectFresh
  <2> SUFFICES ASSUME Undisturbed
               PROVE  FreshInv'
    BY <1>2 DEF FreshInv, Undisturbed
  <2>3. Answered' = Answered /\ Valid(rows)' = Valid(rows) /\ (Resting' <=> Resting)
    BY <1>2, <2>1 DEF Answered, Valid, Resting, ResponseInProgress
  <2>4. ASSUME NEW d \in Caller
        PROVE  UpToDate(d)'
    <3>1. UpToDate(d)
      BY DEF FreshInv
    <3>2. NewSelection(d) => NewSelection(d)'
      BY <2>2, <2>3 DEF NewSelection
    <3> QED
      BY <2>1, <2>3, <3>1, <3>2 DEF UpToDate, Does
  <2> QED
    BY <1>2, <2>1, <2>3, <2>4 DEF FreshInv
<1> QED
  BY <1>3, <1>4, <1>5, <1>6, <1>7, <1>8

LEMMA FreshKept ==
    ASSUME MaxItems > 0
    PROVE  SessionInv /\ StartInv /\ FreshInv /\ [Next]_vars => FreshInv'
<1> SUFFICES ASSUME SessionInv, StartInv, FreshInv, [Next]_vars
             PROVE  FreshInv'
  OBVIOUS
<1>1. CASE UNCHANGED vars \/ TimeUp
  <2>1. UNCHANGED <<status, current, rows, request, selection, overlapped, failures>>
    BY <1>1 DEF vars, TimeUp, sessionVars, selectorVars
  <2>2. Resting' <=> Resting
    BY <2>1 DEF Resting, ResponseInProgress
  <2> QED
    BY <2>1, <2>2, FreshApart
<1>2. ASSUME NEW c \in Caller, Fail(c) \/ BankExhausted(c)
      PROVE  FreshInv'
  <2>1. failures \in Nat /\ failures' = failures + 1
    BY <1>2 DEF Fail, BankExhausted, SessionInv, TypeOK, SessionTypeOK
  <2> QED
    BY <2>1, DisturbedIsFresh
<1>3. ASSUME NEW c \in Caller, RequestStart(c) \/ RequestItem(c) \/ Respond(c)
      PROVE  FreshInv'
  BY <1>3, RestFresh, ReadFresh
<1>4. ASSUME NEW c \in Caller, Proceed(c)
      PROVE  FreshInv'
  BY <1>2, <1>4, RestFresh, RecordFresh, GoOnFresh DEF Proceed
<1> QED
  BY <1>1, <1>2, <1>3, <1>4 DEF Next

LEMMA FreshStart == Init => StartInv /\ FreshInv
<1> SUFFICES ASSUME Init
             PROVE  StartInv /\ FreshInv
  OBVIOUS
<1>1. /\ rows = <<>> /\ DOMAIN rows = {} /\ status = "NONE"
      /\ \A c \in Caller : request[c] = Idle
  BY DEF Init
<1>2. Valid(rows) = 0
  BY <1>1, FS_EmptySet DEF Valid
<1>3. MaxItems \in Nat
  BY SessionAssumption
<1> QED
  BY <1>1, <1>2, <1>3
     DEF StartInv, FreshInv, Resting, ResponseInProgress, Does, UpToDate

\* Responses that come one at a time and do not fail never meet an item
\* again, and stop at the configured number (processResponse,
\* cat.service.ts), for any bank, limits and order of the requests.
THEOREM ItemsAreNew ==
    ASSUME MaxItems > 0
    PROVE  Spec => []NoItemTwiceUndisturbed
<1>1. FreshInv => NoItemTwiceUndisturbed
  BY DEF FreshInv, Undisturbed, NoItemTwiceUndisturbed
<1>2. SessionInv /\ StartInv /\ FreshInv /\ [Next]_vars => FreshInv'
  BY FreshKept
<1> QED
  BY <1>1, <1>2, FreshStart, StartKept, SessionInvariance, PTL DEF Spec
=============================================================================
