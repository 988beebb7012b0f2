--------------------------- MODULE CampaignProofs ---------------------------
(***************************************************************************)
(* Proofs about ReplayCampaign, for every number of campaigns, dead        *)
(* letters and pumps.                                                      *)
(*                                                                         *)
(* ReplayedItemIsItsOwn is not inductive: an item becomes replayed when a  *)
(* pump settles what an earlier statement of it did.  SettlesItsOwn says   *)
(* what such a pump may rely on meanwhile, and rests on a claimed letter   *)
(* never changing hands.                                                   *)
(***************************************************************************)
EXTENDS ReplayCampaign, FiniteSetTheorems, TLAPS

(* A pump about to settle its item as replayed made the redrive itself.      *)
SettlesItsOwn ==
    \A p \in Pump :
        pump[p].phase = "settle" /\ pump[p].outcome = "replayed" =>
            letter[pump[p].letter].by = pump[p].campaign

OwnInv == TypeOK /\ SettlesItsOwn /\ ReplayedItemIsItsOwn

(* Whoever claimed a dead letter keeps it.                                   *)
ClaimsAreKept ==
    \A d \in Letter : letter[d].by # "nobody" => letter'[d].by = letter[d].by

LEMMA InitOwn == Init => OwnInv
  <1> SUFFICES ASSUME Init PROVE OwnInv
      OBVIOUS
  <1>1. TypeOK
      BY CampaignBounds
      DEF Init, TypeOK, LetterRow, CampaignRow, ItemRow, Held, NoCampaign, NoItem, Settled
  <1>2. SettlesItsOwn /\ ReplayedItemIsItsOwn
      BY DEF Init, SettlesItsOwn, ReplayedItemIsItsOwn, NoItem
  <1> QED
      BY <1>1, <1>2 DEF OwnInv

LEMMA NoItemType == NoItem \in ItemRow
  BY CampaignBounds DEF NoItem, ItemRow, Settled

LEMMA MovedType ==
    ASSUME NEW row \in ItemRow, NEW to \in {"none", "pending", "processing"} \cup Settled
    PROVE  Moved(row, to) \in ItemRow /\ Moved(row, to).status = to
  BY DEF Moved, ItemRow

LEMMA ItemUpdate ==
    ASSUME TypeOK, NEW c \in Campaign, NEW d \in Letter, NEW row \in ItemRow
    PROVE  [item EXCEPT ![c][d] = row] \in [Campaign -> [Letter -> ItemRow]]
  BY DEF TypeOK

LEMMA WithdrawnType ==
    ASSUME NEW row \in CampaignRow, NEW n \in Nat
    PROVE  Withdrawn(row, n) \in CampaignRow
  <1>1. row.cancelled + n \in Nat
      BY DEF CampaignRow
  <1>2. ASSUME NEW k \in Nat
        PROVE  [row EXCEPT !.status = "cancelled", !.cancelled = k] \in CampaignRow
      BY DEF CampaignRow
  <1> QED
      BY <1>1, <1>2 DEF Withdrawn

LEMMA CountedType ==
    ASSUME NEW row \in CampaignRow, NEW outcome \in {"replayed", "failed"}
    PROVE  Counted(row, outcome) \in CampaignRow
  BY DEF Counted, CampaignRow

LEMMA RedrivenType ==
    ASSUME TypeOK, NEW d \in Letter, NEW by \in Campaign \cup {"operator"}, Redrivable(d)
    PROVE  /\ Redriven(d, by) \in [Letter -> LetterRow]
           /\ \A e \in Letter : letter[e].by # "nobody" => Redriven(d, by)[e].by = letter[e].by
           /\ Redriven(d, by)[d].by = by
  BY DEF TypeOK, Redriven, Redrivable, Unclaimed, LetterRow

LEMMA HeldType ==
    ASSUME TypeOK, NEW p \in Pump
    PROVE  /\ pump[p] \in Held
           /\ pump[p].phase \in {"item", "complete"} => pump[p].campaign \in Campaign
           /\ pump[p].phase \in {"redrive", "settle"} =>
                /\ pump[p].campaign \in Campaign
                /\ pump[p].letter \in Letter
                /\ pump[p].token \in 1..MaxTokens
           /\ pump[p].phase = "settle" => pump[p].outcome \in {"replayed", "failed"}
  BY DEF TypeOK, Held

-----------------------------------------------------------------------------
(* One step. *)

LEMMA StepType ==
    ASSUME TypeOK, [Next]_vars
    PROVE  TypeOK'
  <1> USE DEF vars
  <1>1. CASE UNCHANGED vars
      BY <1>1 DEF TypeOK
  <1>2. ASSUME NEW c \in Campaign, NEW S \in SUBSET Letter, PreviewCohort(c, S)
        PROVE  TypeOK'
      BY <1>2 DEF TypeOK, PreviewCohort
  <1>3. ASSUME NEW c \in Campaign, CreateCampaign(c)
        PROVE  TypeOK'
    <2>1. Cardinality(draft[c]) \in Nat
        BY CampaignBounds, FS_Subset, FS_CardinalityType DEF TypeOK
    <2>2. campaign' \in [Campaign -> CampaignRow]
        BY <1>3, <2>1 DEF TypeOK, CreateCampaign, CampaignRow, NoCampaign
    <2>3. item' \in [Campaign -> [Letter -> ItemRow]]
        BY <1>3, NoItemType, MovedType DEF TypeOK, CreateCampaign
    <2> QED
        BY <1>3, <2>2, <2>3 DEF TypeOK, CreateCampaign
  <1>4. ASSUME NEW c \in Campaign, CancelCampaign(c)
        PROVE  TypeOK'
    <2>1. Cardinality(Items(c, {"pending"})) \in Nat
        BY CampaignBounds, FS_Subset, FS_CardinalityType DEF Items
    <2>2. campaign' \in [Campaign -> CampaignRow]
        BY <1>4, <2>1, WithdrawnType DEF TypeOK, CancelCampaign
    <2>3. item' \in [Campaign -> [Letter -> ItemRow]]
        BY <1>4, MovedType DEF TypeOK, CancelCampaign, Settled
    <2> QED
        BY <1>4, <2>2, <2>3 DEF TypeOK, CancelCampaign
  <1>5. ASSUME NEW c \in Campaign, Due(c)
        PROVE  TypeOK'
    <2>1. campaign[c] \in CampaignRow
        BY DEF TypeOK
    <2>2. [campaign[c] EXCEPT !.due = TRUE] \in CampaignRow
        BY <2>1 DEF CampaignRow
    <2> QED
        BY <1>5, <2>2 DEF TypeOK, Due
  <1>6. ASSUME NEW c \in Campaign, NEW d \in Letter, GoesStale(c, d)
        PROVE  TypeOK'
    <2>1. item[c][d] \in ItemRow
        BY DEF TypeOK
    <2>2. Aged(item[c][d]) \in ItemRow
        BY <2>1 DEF ItemRow, Aged
    <2>3. item' \in [Campaign -> [Letter -> ItemRow]]
        BY <1>6, <2>2, ItemUpdate DEF GoesStale
    <2> QED
        BY <1>6, <2>3 DEF TypeOK, GoesStale
  <1>7. ASSUME NEW p \in Pump, NEW c \in Campaign, ClaimCampaign(p, c)
        PROVE  TypeOK'
    <2>1. campaign[c] \in CampaignRow
        BY DEF TypeOK
    <2>2. [campaign[c] EXCEPT !.due = FALSE] \in CampaignRow
        BY <2>1 DEF CampaignRow
    <2>3. pump' \in [Pump -> Held]
        BY <1>7 DEF TypeOK, ClaimCampaign, Goes, Held
    <2> QED
        BY <1>7, <2>2, <2>3 DEF TypeOK, ClaimCampaign
  <1>8. ASSUME NEW p \in Pump, ClaimItem(p)
        PROVE  TypeOK'
    <2>1. pump[p].campaign \in Campaign /\ tokens + 1 \in 1..MaxTokens
        BY <1>8, HeldType, CampaignBounds DEF TypeOK, ClaimItem
    <2>2. PICK d \in Letter : /\ item' = [item EXCEPT ![pump[p].campaign][d] =
                                   [status |-> "processing", token |-> tokens + 1, stale |-> FALSE]]
                              /\ Goes(p, [phase |-> "redrive", campaign |-> pump[p].campaign,
                                          letter |-> d, token |-> tokens + 1])
        BY <1>8 DEF ClaimItem, Open, Items
    <2>3. item' \in [Campaign -> [Letter -> ItemRow]]
        BY <2>1, <2>2, CampaignBounds DEF TypeOK, ItemRow
    <2>4. pump' \in [Pump -> Held]
        BY <2>1, <2>2 DEF TypeOK, Goes, Held
    <2> QED
        BY <1>8, <2>1, <2>3, <2>4, CampaignBounds DEF TypeOK, ClaimItem
  <1>9. ASSUME NEW p \in Pump, NoItemLeft(p)
        PROVE  TypeOK'
      BY <1>9, HeldType DEF TypeOK, NoItemLeft, Goes, Held
  <1>10. ASSUME NEW p \in Pump, ReplayItem(p)
         PROVE  TypeOK'
    <2>1. pump[p].campaign \in Campaign /\ pump[p].letter \in Letter
          /\ pump[p].token \in 1..MaxTokens
        BY <1>10, HeldType DEF ReplayItem
    <2>2. letter' \in [Letter -> LetterRow]
        BY <1>10, <2>1, RedrivenType DEF TypeOK, ReplayItem
    <2>3. pump' \in [Pump -> Held]
        BY <1>10, <2>1 DEF TypeOK, ReplayItem, Goes, Held, Outcome
    <2> QED
        BY <1>10, <2>2, <2>3 DEF TypeOK, ReplayItem
  <1>11. ASSUME NEW p \in Pump, ReplayErrs(p)
         PROVE  TypeOK'
    <2>1. pump[p].campaign \in Campaign /\ pump[p].letter \in Letter
          /\ pump[p].token \in 1..MaxTokens
        BY <1>11, HeldType DEF ReplayErrs
    <2>2. letter' \in [Letter -> LetterRow]
        BY <1>11, <2>1, RedrivenType DEF TypeOK, ReplayErrs
    <2>3. pump' \in [Pump -> Held]
        BY <1>11, <2>1 DEF TypeOK, ReplayErrs, Goes, Held
    <2> QED
        BY <1>11, <2>2, <2>3, CampaignBounds DEF TypeOK, ReplayErrs, Fault
  <1>12. ASSUME NEW p \in Pump, SettleItem(p)
         PROVE  TypeOK'
    <2>1. pump[p].campaign \in Campaign /\ pump[p].letter \in Letter
          /\ pump[p].outcome \in {"replayed", "failed"}
        BY <1>12, HeldType DEF SettleItem
    <2>2. item' \in [Campaign -> [Letter -> ItemRow]]
      <3>1. item[pump[p].campaign][pump[p].letter] \in ItemRow
          BY <2>1 DEF TypeOK
      <3>2. Moved(item[pump[p].campaign][pump[p].letter], pump[p].outcome) \in ItemRow
          BY <2>1, <3>1, MovedType DEF Settled
      <3>3. CASE HoldsItem(pump[p])
        <4>1. item' = [item EXCEPT ![pump[p].campaign][pump[p].letter] =
                Moved(item[pump[p].campaign][pump[p].letter], pump[p].outcome)]
            BY <1>12, <3>3 DEF SettleItem
        <4>2. [item EXCEPT ![pump[p].campaign][pump[p].letter] =
                Moved(item[pump[p].campaign][pump[p].letter], pump[p].outcome)]
              \in [Campaign -> [Letter -> ItemRow]]
            BY <2>1, <3>2, ItemUpdate
        <4> QED
            BY <4>1, <4>2
      <3>4. CASE ~HoldsItem(pump[p])
          BY <1>12, <3>4 DEF SettleItem, TypeOK
      <3> QED
          BY <3>3, <3>4
    <2>3. campaign' \in [Campaign -> CampaignRow]
        BY <1>12, <2>1, CountedType DEF TypeOK, SettleItem
    <2>4. pump' \in [Pump -> Held]
        BY <1>12, <2>1 DEF TypeOK, SettleItem, Goes, Stops, Held
    <2> QED
        BY <1>12, <2>2, <2>3, <2>4 DEF TypeOK, SettleItem
  <1>13. ASSUME NEW p \in Pump, CompleteCampaign(p)
         PROVE  TypeOK'
      BY <1>13, HeldType DEF TypeOK, CompleteCampaign, CampaignRow, Goes, Stops, Held
  <1>14. ASSUME NEW p \in Pump, Crash(p)
         PROVE  TypeOK'
      BY <1>14, CampaignBounds DEF TypeOK, Crash, Fault, Goes, Stops, Held
  <1>15. ASSUME NEW d \in Letter, Interfere(d)
         PROVE  TypeOK'
    <2>1. letter' \in [Letter -> LetterRow]
      <3>1. CASE Redrivable(d) /\ letter' = Redriven(d, "operator")
          BY <3>1, RedrivenType
      <3>2. CASE \E n \in {"revived", "failed", "rerun"} : letter' = [letter EXCEPT ![d].node = n]
          BY <3>2 DEF TypeOK, LetterRow
      <3>3. CASE \E t \in {"resolved", "purged"} : letter' = [letter EXCEPT ![d].status = t]
          BY <3>3 DEF TypeOK, LetterRow
      <3> QED
          BY <1>15, <3>1, <3>2, <3>3 DEF Interfere, Interference
    <2> QED
        BY <1>15, <2>1, CampaignBounds DEF TypeOK, Interfere, Fault
  <1> QED
      BY <1>1, <1>2, <1>3, <1>4, <1>5, <1>6, <1>7, <1>8, <1>9, <1>10, <1>11, <1>12,
         <1>13, <1>14, <1>15 DEF Next, PumpStep


LEMMA StepKeepsClaims ==
    ASSUME TypeOK, [Next]_vars
    PROVE  ClaimsAreKept
  <1> USE DEF vars
  <1>1. CASE UNCHANGED letter
      BY <1>1 DEF ClaimsAreKept
  <1>2. ASSUME NEW d \in Letter, NEW by \in Campaign \cup {"operator"},
               Redrivable(d), letter' = Redriven(d, by)
        PROVE  ClaimsAreKept
      BY <1>2, RedrivenType DEF ClaimsAreKept
  <1>3. ASSUME NEW d \in Letter, Interfere(d)
        PROVE  ClaimsAreKept
    <2>1. CASE Redrivable(d) /\ letter' = Redriven(d, "operator")
        BY <2>1, <1>2
    <2>2. CASE \E n \in {"revived", "failed", "rerun"} : letter' = [letter EXCEPT ![d].node = n]
        BY <2>2 DEF TypeOK, LetterRow, ClaimsAreKept
    <2>3. CASE \E t \in {"resolved", "purged"} : letter' = [letter EXCEPT ![d].status = t]
        BY <2>3 DEF TypeOK, LetterRow, ClaimsAreKept
    <2> QED
        BY <1>3, <2>1, <2>2, <2>3 DEF Interfere, Interference
  <1>4. ASSUME NEW p \in Pump, ReplayItem(p) \/ ReplayErrs(p)
        PROVE  ClaimsAreKept
    <2>1. pump[p].campaign \in Campaign /\ pump[p].letter \in Letter
        BY <1>4, HeldType DEF ReplayItem, ReplayErrs
    <2>2. \/ UNCHANGED letter
          \/ Redrivable(pump[p].letter) /\ letter' = Redriven(pump[p].letter, pump[p].campaign)
        BY <1>4 DEF ReplayItem, ReplayErrs
    <2> QED
        BY <1>1, <1>2, <2>1, <2>2
  <1>5. UNCHANGED letter \/ (\E d \in Letter : Interfere(d))
        \/ (\E p \in Pump : ReplayItem(p) \/ ReplayErrs(p))
      BY DEF Next, PumpStep, PreviewCohort, CreateCampaign, CancelCampaign, Due, GoesStale,
             ClaimCampaign, ClaimItem, NoItemLeft, SettleItem, CompleteCampaign, Crash
  <1> QED
      BY <1>1, <1>3, <1>4, <1>5


(* Only a settling pump makes an item replayed, and it is its own item.      *)
LEMMA ReplayedBySettle ==
    ASSUME TypeOK, [Next]_vars, NEW c \in Campaign, NEW d \in Letter,
           item'[c][d].status = "replayed"
    PROVE  \/ item[c][d].status = "replayed"
           \/ \E p \in Pump : /\ pump[p].phase = "settle" /\ pump[p].outcome = "replayed"
                              /\ pump[p].campaign = c /\ pump[p].letter = d
                              /\ UNCHANGED letter
  <1> USE DEF vars
  <1> DEFINE Goal == \/ item[c][d].status = "replayed"
                     \/ \E p \in Pump : /\ pump[p].phase = "settle" /\ pump[p].outcome = "replayed"
                                        /\ pump[p].campaign = c /\ pump[p].letter = d
                                        /\ UNCHANGED letter
  <1> SUFFICES Goal
      OBVIOUS
  <1>0. item[c][d] \in ItemRow
      BY DEF TypeOK
  <1>1. CASE UNCHANGED item
      BY <1>1
  <1>2. ASSUME NEW k \in Campaign, CreateCampaign(k)
        PROVE  Goal
    <2>1. CASE k # c
        BY <1>2, <2>1 DEF CreateCampaign, TypeOK
    <2>2. CASE k = c
      <3>1. item'[c][d] \in {Moved(NoItem, "pending"), NoItem}
          BY <1>2, <2>2 DEF CreateCampaign, TypeOK
      <3>2. Moved(NoItem, "pending").status = "pending" /\ NoItem.status = "none"
          BY NoItemType, MovedType DEF NoItem
      <3> QED
          BY <3>1, <3>2
    <2> QED
        BY <2>1, <2>2
  <1>3. ASSUME NEW k \in Campaign, CancelCampaign(k)
        PROVE  Goal
    <2>1. CASE k # c
        BY <1>3, <2>1 DEF CancelCampaign, TypeOK
    <2>2. CASE k = c
      <3>1. item'[c][d] \in {Moved(item[c][d], "cancelled"), item[c][d]}
          BY <1>3, <2>2 DEF CancelCampaign, TypeOK
      <3>2. Moved(item[c][d], "cancelled").status = "cancelled"
          BY <1>0, MovedType DEF Settled
      <3> QED
          BY <3>1, <3>2
    <2> QED
        BY <2>1, <2>2
  <1>4. ASSUME NEW k \in Campaign, NEW e \in Letter, GoesStale(k, e)
        PROVE  Goal
    <2>1. item'[c][d] \in {Aged(item[c][d]), item[c][d]}
        BY <1>4 DEF GoesStale, TypeOK
    <2>2. Aged(item[c][d]).status = item[c][d].status
        BY <1>0 DEF Aged, ItemRow
    <2> QED
        BY <2>1, <2>2
  <1>5. ASSUME NEW p \in Pump, ClaimItem(p)
        PROVE  Goal
    <2>1. pump[p].campaign \in Campaign
        BY <1>5, HeldType DEF ClaimItem
    <2>2. PICK e \in Letter : item' = [item EXCEPT ![pump[p].campaign][e] =
                                  [status |-> "processing", token |-> tokens + 1, stale |-> FALSE]]
        BY <1>5 DEF ClaimItem, Open, Items
    <2>3. \/ item'[c][d] = item[c][d]
          \/ item'[c][d] = [status |-> "processing", token |-> tokens + 1, stale |-> FALSE]
        BY <2>1, <2>2 DEF TypeOK
    <2> QED
        BY <2>3
  <1>6. ASSUME NEW p \in Pump, SettleItem(p)
        PROVE  Goal
    <2>1. /\ pump[p].phase = "settle" /\ pump[p].campaign \in Campaign
          /\ pump[p].letter \in Letter /\ pump[p].outcome \in {"replayed", "failed"}
          /\ UNCHANGED letter
        BY <1>6, HeldType DEF SettleItem
    <2>2. \/ UNCHANGED item
          \/ item' = [item EXCEPT ![pump[p].campaign][pump[p].letter] =
                Moved(item[pump[p].campaign][pump[p].letter], pump[p].outcome)]
        BY <1>6 DEF SettleItem
    <2>3. CASE pump[p].campaign = c /\ pump[p].letter = d
      <3>1. item'[c][d] \in {Moved(item[c][d], pump[p].outcome), item[c][d]}
          BY <2>2, <2>3 DEF TypeOK
      <3>2. Moved(item[c][d], pump[p].outcome).status = pump[p].outcome
          BY <1>0, <2>1, MovedType DEF Settled
      <3> QED
          BY <2>1, <2>3, <3>1, <3>2
    <2>4. CASE ~(pump[p].campaign = c /\ pump[p].letter = d)
      <3>1. item'[c][d] = item[c][d]
          BY <2>1, <2>2, <2>4 DEF TypeOK
      <3> QED
          BY <3>1
    <2> QED
        BY <2>3, <2>4
  <1>7. \/ UNCHANGED item
        \/ \E k \in Campaign : \/ CreateCampaign(k) \/ CancelCampaign(k)
                              \/ \E e \in Letter : GoesStale(k, e)
        \/ \E p \in Pump : ClaimItem(p) \/ SettleItem(p)
      BY DEF Next, PumpStep, PreviewCohort, Due, ClaimCampaign, NoItemLeft, ReplayItem,
             ReplayErrs, CompleteCampaign, Crash, Interfere
  <1> HIDE DEF Goal
  <1> QED
      BY <1>1, <1>2, <1>3, <1>4, <1>5, <1>6, <1>7

(* A pump comes to settle an item as replayed only by its own redrive.       *)
LEMMA SettlesByRedrive ==
    ASSUME TypeOK, [Next]_vars, NEW p \in Pump,
           pump'[p].phase = "settle", pump'[p].outcome = "replayed"
    PROVE  \/ pump'[p] = pump[p]
           \/ letter'[pump'[p].letter].by = pump'[p].campaign
  <1> USE DEF vars
  <1> DEFINE Goal == \/ pump'[p] = pump[p]
                     \/ letter'[pump'[p].letter].by = pump'[p].campaign
  <1> SUFFICES Goal
      OBVIOUS
  <1>1. CASE UNCHANGED pump
      BY <1>1
  <1>2. ASSUME NEW q \in Pump, NEW row, Goes(q, row), row.phase # "settle"
        PROVE  Goal
      BY <1>2 DEF Goes, TypeOK
  <1>3. ASSUME NEW q \in Pump, ReplayItem(q)
        PROVE  Goal
    <2>1. pump[q].campaign \in Campaign /\ pump[q].letter \in Letter
        BY <1>3, HeldType DEF ReplayItem
    <2>2. CASE q # p
        BY <1>3, <2>2 DEF ReplayItem, Goes, TypeOK
    <2>3. CASE q = p
      <3>1. /\ pump'[p].letter = pump[p].letter /\ pump'[p].campaign = pump[p].campaign
            /\ pump'[p].outcome = Outcome(pump[p].letter)
          BY <1>3, <2>3 DEF ReplayItem, Goes, TypeOK
      <3>2. Redrivable(pump[p].letter)
          BY <3>1 DEF Outcome
      <3>3. letter' = Redriven(pump[p].letter, pump[p].campaign)
          BY <1>3, <2>3, <3>2 DEF ReplayItem
      <3> QED
          BY <2>1, <2>3, <3>1, <3>2, <3>3, RedrivenType
    <2> QED
        BY <2>2, <2>3
  <1>4. ASSUME NEW q \in Pump, ReplayErrs(q)
        PROVE  Goal
      BY <1>4 DEF ReplayErrs, Goes, TypeOK
  <1>5. ASSUME NEW q \in Pump, NEW c \in Campaign, ClaimCampaign(q, c)
        PROVE  Goal
      BY <1>5, <1>2 DEF ClaimCampaign
  <1>6. ASSUME NEW q \in Pump, \/ ClaimItem(q) \/ NoItemLeft(q) \/ SettleItem(q)
                              \/ CompleteCampaign(q) \/ Crash(q)
        PROVE  Goal
    <2>1. CASE ClaimItem(q)
        BY <1>2, <2>1 DEF ClaimItem
    <2>2. CASE NoItemLeft(q)
        BY <1>2, <2>2 DEF NoItemLeft
    <2>3. CASE SettleItem(q)
      <3>1. \/ Goes(q, [phase |-> "complete", campaign |-> pump[q].campaign])
            \/ Goes(q, [phase |-> "idle"])
          BY <2>3 DEF SettleItem, Stops
      <3> QED
          BY <1>2, <3>1
    <2>4. CASE CompleteCampaign(q) \/ Crash(q)
      <3>1. Goes(q, [phase |-> "idle"])
          BY <2>4 DEF CompleteCampaign, Crash, Stops
      <3> QED
          BY <1>2, <3>1
    <2> QED
        BY <1>6, <2>1, <2>2, <2>3, <2>4
  <1>7. \/ UNCHANGED pump
        \/ \E q \in Pump : \/ \E c \in Campaign : ClaimCampaign(q, c)
                          \/ ClaimItem(q) \/ NoItemLeft(q) \/ SettleItem(q)
                          \/ CompleteCampaign(q) \/ Crash(q) \/ ReplayItem(q) \/ ReplayErrs(q)
      BY DEF Next, PumpStep, PreviewCohort, CreateCampaign, CancelCampaign, Due, GoesStale, Interfere
  <1> HIDE DEF Goal
  <1> QED
      BY <1>1, <1>3, <1>4, <1>5, <1>6, <1>7

LEMMA StepOwn ==
    ASSUME OwnInv, [Next]_vars
    PROVE  OwnInv'
  <1>1. TypeOK /\ TypeOK' /\ ClaimsAreKept
      BY StepType, StepKeepsClaims DEF OwnInv
  <1>2. SettlesItsOwn'
    <2> SUFFICES ASSUME NEW p \in Pump, pump'[p].phase = "settle", pump'[p].outcome = "replayed",
                        pump'[p] = pump[p]
                 PROVE  letter'[pump'[p].letter].by = pump'[p].campaign
        BY <1>1, SettlesByRedrive DEF SettlesItsOwn
    <2>1. pump[p].campaign \in Campaign /\ pump[p].letter \in Letter
        BY <1>1, HeldType
    <2>2. letter[pump[p].letter].by = pump[p].campaign /\ pump[p].campaign # "nobody"
        BY <2>1, CampaignBounds DEF OwnInv, SettlesItsOwn
    <2> QED
        BY <1>1, <2>1, <2>2 DEF ClaimsAreKept
  <1>3. ReplayedItemIsItsOwn'
    <2> SUFFICES ASSUME NEW c \in Campaign, NEW d \in Letter, item'[c][d].status = "replayed"
                 PROVE  letter'[d].by = c
        BY DEF ReplayedItemIsItsOwn
    <2>1. letter[d].by = c
        BY <1>1, ReplayedBySettle DEF OwnInv, ReplayedItemIsItsOwn, SettlesItsOwn
    <2> QED
        BY <1>1, <2>1, CampaignBounds DEF ClaimsAreKept
  <1> QED
      BY <1>1, <1>2, <1>3 DEF OwnInv

(* Rows, leases and what pumps hold keep their types, tokens and faults      *)
(* their bounds.                                                             *)
THEOREM CampaignTypes == Spec => []TypeOK
  <1>1. Init => TypeOK
      BY InitOwn DEF OwnInv
  <1>2. TypeOK /\ [Next]_vars => TypeOK'
      BY StepType
  <1> QED
      BY <1>1, <1>2, PTL DEF Spec

(* A campaign never reports as replayed an item that another campaign or an  *)
(* operator redrove, whatever crashes, lost answers and stale leases happen  *)
(* between the redrive and the settle (ProcessDueReplayCampaignStep).        *)
THEOREM ReplayedItemsAreOwned == Spec => []ReplayedItemIsItsOwn
  <1>1. OwnInv /\ [Next]_vars => OwnInv'
      BY StepOwn
  <1>2. OwnInv => ReplayedItemIsItsOwn
      BY DEF OwnInv
  <1> QED
      BY InitOwn, <1>1, <1>2, PTL DEF Spec

-----------------------------------------------------------------------------
(***************************************************************************)
(* Counters.  That they match the items is not inductive either: what      *)
(* completes a campaign must also know that all its items were counted     *)
(* into its total when it was created, that a running campaign has no      *)
(* cancelled item, and that nothing is open under a completed one.         *)
(***************************************************************************)
In(it, S) == {d \in Letter : it[d].status \in S}
OpenItem == {"pending", "processing"}

Balanced(row, it, dr) ==
    /\ row.replayed = Cardinality(In(it, {"replayed"}))
    /\ row.failed = Cardinality(In(it, {"failed"}))
    /\ row.cancelled = Cardinality(In(it, {"cancelled"}))
    /\ row.status = "none" => In(it, OpenItem \cup Settled) = {}
    /\ row.status # "none" => dr = {} /\ row.total = Cardinality(In(it, OpenItem \cup Settled))
    /\ row.status = "running" => In(it, {"cancelled"}) = {}
    /\ row.status = "completed" => In(it, OpenItem \cup {"cancelled"}) = {}

CounterInv == \A c \in Campaign : Balanced(campaign[c], item[c], draft[c])

LEMMA InFinite ==
    ASSUME NEW it, NEW S
    PROVE  IsFiniteSet(In(it, S)) /\ Cardinality(In(it, S)) \in Nat
  <1>1. In(it, S) \in SUBSET Letter
      BY DEF In
  <1> QED
      BY <1>1, CampaignBounds, FS_Subset, FS_CardinalityType

(* A row and items whose settled items, and items at all, are the same.      *)
LEMMA BalanceKept ==
    ASSUME NEW row, NEW row2, NEW it, NEW it2, NEW dr, Balanced(row, it, dr),
           row2.status = row.status, row2.total = row.total, row2.replayed = row.replayed,
           row2.failed = row.failed, row2.cancelled = row.cancelled,
           \A d \in Letter : \/ it2[d].status = it[d].status
                             \/ it2[d].status \in OpenItem /\ it[d].status \in OpenItem
    PROVE  Balanced(row2, it2, dr)
  <1>1. /\ In(it2, {"replayed"}) = In(it, {"replayed"})
        /\ In(it2, {"failed"}) = In(it, {"failed"})
        /\ In(it2, {"cancelled"}) = In(it, {"cancelled"})
        /\ In(it2, OpenItem \cup Settled) = In(it, OpenItem \cup Settled)
        /\ In(it2, OpenItem \cup {"cancelled"}) = In(it, OpenItem \cup {"cancelled"})
      BY DEF In, OpenItem, Settled
  <1> QED
      BY <1>1 DEF Balanced

(* The settle of one open item. *)
LEMMA SettleBalances ==
    ASSUME NEW row \in CampaignRow, NEW it, NEW it2, NEW dr, Balanced(row, it, dr),
           NEW d \in Letter, it[d].status = "processing", NEW o \in {"replayed", "failed"},
           it2[d].status = o, \A e \in Letter \ {d} : it2[e] = it[e]
    PROVE  Balanced(Counted(row, o), it2, dr)
  <1> DEFINE row2 == Counted(row, o)
  <1>1. /\ row2.status = row.status /\ row2.total = row.total /\ row2.cancelled = row.cancelled
        /\ row2[o] = row[o] + 1
        /\ o = "replayed" => row2.failed = row.failed
        /\ o = "failed" => row2.replayed = row.replayed
      BY DEF Counted, CampaignRow
  <1>2. /\ In(it2, {o}) = In(it, {o}) \cup {d} /\ d \notin In(it, {o})
        /\ In(it2, {"cancelled"}) = In(it, {"cancelled"})
        /\ In(it2, OpenItem \cup Settled) = In(it, OpenItem \cup Settled)
        /\ d \in In(it, OpenItem \cup Settled) /\ d \in In(it, OpenItem \cup {"cancelled"})
        /\ o = "replayed" => In(it2, {"failed"}) = In(it, {"failed"})
        /\ o = "failed" => In(it2, {"replayed"}) = In(it, {"replayed"})
      BY DEF In, OpenItem, Settled
  <1>3. Cardinality(In(it2, {o})) = Cardinality(In(it, {o})) + 1
      BY <1>2, InFinite, FS_AddElement
  <1>4. row.status # "none" /\ row.status # "completed"
      BY <1>2 DEF Balanced
  <1>5. CASE o = "replayed"
      BY <1>1, <1>2, <1>3, <1>4, <1>5 DEF Balanced
  <1>6. CASE o = "failed"
      BY <1>1, <1>2, <1>3, <1>4, <1>6 DEF Balanced
  <1> QED
      BY <1>5, <1>6

(* Cancellation settles all that is pending. *)
LEMMA WithdrawnBalances ==
    ASSUME NEW row \in CampaignRow, NEW it, NEW it2, NEW dr, Balanced(row, it, dr),
           row.status = "running",
           \A d \in Letter : IF it[d].status = "pending" THEN it2[d].status = "cancelled"
                             ELSE it2[d] = it[d]
    PROVE  Balanced(Withdrawn(row, Cardinality(In(it, {"pending"}))), it2, dr)
  <1> DEFINE n == Cardinality(In(it, {"pending"}))
             row2 == Withdrawn(row, n)
  <1>0. n \in Nat
      BY InFinite
  <1>1. /\ row2.status = "cancelled" /\ row2.total = row.total /\ row2.replayed = row.replayed
        /\ row2.failed = row.failed /\ row2.cancelled = row.cancelled + n
    <2> HIDE DEF n
    <2> QED
        BY DEF Withdrawn, CampaignRow
  <1>2. /\ In(it2, {"replayed"}) = In(it, {"replayed"})
        /\ In(it2, {"failed"}) = In(it, {"failed"})
        /\ In(it2, OpenItem \cup Settled) = In(it, OpenItem \cup Settled)
        /\ In(it2, {"cancelled"}) = In(it, {"cancelled"}) \cup In(it, {"pending"})
      BY DEF In, OpenItem, Settled
  <1>3. In(it, {"cancelled"}) = {} /\ row.cancelled = Cardinality(In(it, {"cancelled"}))
      BY DEF Balanced
  <1>4. row.cancelled = 0 /\ In(it2, {"cancelled"}) = In(it, {"pending"})
      BY <1>2, <1>3, FS_EmptySet
  <1>5. row2.cancelled = Cardinality(In(it2, {"cancelled"}))
      BY <1>0, <1>1, <1>4
  <1> HIDE DEF n, row2
  <1> QED
      BY <1>1, <1>2, <1>5 DEF Balanced, row2, n

(* A created campaign has its whole cohort to do. *)
LEMMA CreatedBalances ==
    ASSUME NEW S \in SUBSET Letter, NEW row, NEW it2,
           row = [NoCampaign EXCEPT !.status = "running", !.due = TRUE, !.total = Cardinality(S)],
           \A d \in Letter : it2[d].status = IF d \in S THEN "pending" ELSE "none"
    PROVE  Balanced(row, it2, {})
  <1>1. /\ row.status = "running" /\ row.total = Cardinality(S) /\ row.replayed = 0
        /\ row.failed = 0 /\ row.cancelled = 0
      BY DEF NoCampaign
  <1>2. /\ In(it2, {"replayed"}) = {} /\ In(it2, {"failed"}) = {} /\ In(it2, {"cancelled"}) = {}
        /\ In(it2, OpenItem \cup Settled) = S
      BY DEF In, OpenItem, Settled
  <1> QED
      BY <1>1, <1>2, FS_EmptySet DEF Balanced

(* A campaign whose items are all settled accounts for all of them.          *)
LEMMA CompletedBalances ==
    ASSUME NEW row \in CampaignRow, NEW it, NEW dr, Balanced(row, it, dr),
           row.status = "running", In(it, OpenItem) = {}
    PROVE  Balanced([row EXCEPT !.status = "completed"], it, dr)
  <1> DEFINE row2 == [row EXCEPT !.status = "completed"]
  <1>1. /\ row2.status = "completed" /\ row2.total = row.total /\ row2.replayed = row.replayed
        /\ row2.failed = row.failed /\ row2.cancelled = row.cancelled
      BY DEF CampaignRow
  <1>2. In(it, OpenItem \cup {"cancelled"}) = {}
      BY DEF In, Balanced
  <1> HIDE DEF row2
  <1> QED
      BY <1>1, <1>2 DEF Balanced, row2

LEMMA StepBalanced ==
    ASSUME TypeOK, CounterInv, [Next]_vars
    PROVE  CounterInv'
  <1> SUFFICES ASSUME NEW c \in Campaign
               PROVE  Balanced(campaign'[c], item'[c], draft'[c])
      BY DEF CounterInv
  <1> DEFINE Kept == UNCHANGED <<campaign, item, draft>>
  <1>0. /\ Balanced(campaign[c], item[c], draft[c]) /\ campaign[c] \in CampaignRow
        /\ campaign \in [Campaign -> CampaignRow] /\ draft[c] \in SUBSET Letter
        /\ item \in [Campaign -> [Letter -> ItemRow]] /\ draft \in [Campaign -> SUBSET Letter]
      BY DEF CounterInv, TypeOK
  <1>1. CASE Kept
      BY <1>0, <1>1
  <1>2. ASSUME NEW b \in Campaign, NEW S \in SUBSET Letter, PreviewCohort(b, S)
        PROVE  Balanced(campaign'[c], item'[c], draft'[c])
    <2>1. /\ campaign'[c] = campaign[c] /\ item'[c] = item[c]
          /\ draft'[c] = draft[c] \/ campaign[c].status = "none"
        BY <1>0, <1>2 DEF PreviewCohort
    <2> QED
        BY <1>0, <2>1 DEF Balanced
  <1>3. ASSUME NEW b \in Campaign, CreateCampaign(b)
        PROVE  Balanced(campaign'[c], item'[c], draft'[c])
    <2>1. CASE b = c
      <3>1. /\ campaign'[c] = [NoCampaign EXCEPT !.status = "running", !.due = TRUE,
                               !.total = Cardinality(draft[c])]
            /\ draft'[c] = {}
          BY <1>0, <1>3, <2>1 DEF CreateCampaign
      <3>2. item'[c] = [d \in Letter |-> IF d \in draft[c] THEN Moved(NoItem, "pending") ELSE NoItem]
          BY <1>0, <1>3, <2>1 DEF CreateCampaign
      <3>3. \A d \in Letter : item'[c][d].status = IF d \in draft[c] THEN "pending" ELSE "none"
          BY <3>2, NoItemType, MovedType DEF NoItem
      <3> DEFINE S == draft[c]
                 row == campaign'[c]
                 it2 == item'[c]
      <3>4. /\ S \in SUBSET Letter
            /\ row = [NoCampaign EXCEPT !.status = "running", !.due = TRUE, !.total = Cardinality(S)]
            /\ \A d \in Letter : it2[d].status = IF d \in S THEN "pending" ELSE "none"
          BY <1>0, <3>1, <3>3
      <3> HIDE DEF S, row, it2
      <3>5. Balanced(row, it2, {})
          BY <3>4, CreatedBalances
      <3> QED
          BY <3>1, <3>5 DEF row, it2
    <2>2. CASE b # c
      <3>1. campaign'[c] = campaign[c] /\ item'[c] = item[c] /\ draft'[c] = draft[c]
          BY <1>0, <1>3, <2>2 DEF CreateCampaign
      <3> QED
          BY <1>0, <3>1
    <2> QED
        BY <2>1, <2>2
  <1>4. ASSUME NEW b \in Campaign, CancelCampaign(b)
        PROVE  Balanced(campaign'[c], item'[c], draft'[c])
    <2>1. CASE b = c
      <3>1. /\ campaign'[c] = Withdrawn(campaign[c], Cardinality(In(item[c], {"pending"})))
            /\ campaign[c].status = "running" /\ draft'[c] = draft[c]
          BY <1>0, <1>4, <2>1 DEF CancelCampaign, Items, In
      <3>2. item'[c] = [d \in Letter |-> IF item[c][d].status = "pending"
                                         THEN Moved(item[c][d], "cancelled") ELSE item[c][d]]
          BY <1>0, <1>4, <2>1 DEF CancelCampaign
      <3>3. \A d \in Letter : IF item[c][d].status = "pending" THEN item'[c][d].status = "cancelled"
                              ELSE item'[c][d] = item[c][d]
          BY <1>0, <3>2, MovedType DEF Settled
      <3> QED
          BY <1>0, <3>1, <3>3, WithdrawnBalances
    <2>2. CASE b # c
      <3>1. campaign'[c] = campaign[c] /\ item'[c] = item[c] /\ draft'[c] = draft[c]
          BY <1>0, <1>4, <2>2 DEF CancelCampaign
      <3> QED
          BY <1>0, <3>1
    <2> QED
        BY <2>1, <2>2
  <1>5. ASSUME NEW b \in Campaign, Due(b) \/ \E p \in Pump : ClaimCampaign(p, b)
        PROVE  Balanced(campaign'[c], item'[c], draft'[c])
    <2>1. item'[c] = item[c] /\ draft'[c] = draft[c]
        BY <1>5 DEF Due, ClaimCampaign
    <2>2. \E x \in BOOLEAN : campaign' = [campaign EXCEPT ![b] = [campaign[b] EXCEPT !.due = x]]
        BY <1>5 DEF Due, ClaimCampaign
    <2>3. /\ campaign'[c].status = campaign[c].status /\ campaign'[c].total = campaign[c].total
          /\ campaign'[c].replayed = campaign[c].replayed /\ campaign'[c].failed = campaign[c].failed
          /\ campaign'[c].cancelled = campaign[c].cancelled
      <3>1. PICK x \in BOOLEAN : campaign' = [campaign EXCEPT ![b] = [campaign[b] EXCEPT !.due = x]]
          BY <2>2
      <3>2. CASE b = c
        <4>1. campaign'[c] = [campaign[c] EXCEPT !.due = x]
            BY <1>0, <3>1, <3>2
        <4> QED
            BY <1>0, <4>1 DEF CampaignRow
      <3>3. CASE b # c
          BY <1>0, <3>1, <3>3
      <3> QED
          BY <3>2, <3>3
    <2> QED
        BY <1>0, <2>1, <2>3, BalanceKept
  <1>6. ASSUME NEW b \in Campaign, NEW d \in Letter, GoesStale(b, d)
        PROVE  Balanced(campaign'[c], item'[c], draft'[c])
    <2>1. campaign'[c] = campaign[c] /\ draft'[c] = draft[c]
        BY <1>6 DEF GoesStale
    <2>2. ASSUME NEW e \in Letter PROVE item'[c][e].status = item[c][e].status
      <3>1. item[b][d] \in ItemRow /\ item[c][e] \in ItemRow
          BY <1>0
      <3>2. Aged(item[b][d]).status = item[b][d].status
          BY <3>1 DEF Aged, ItemRow
      <3>3. item'[c][e] = IF b = c /\ d = e THEN Aged(item[b][d]) ELSE item[c][e]
          BY <1>0, <1>6 DEF GoesStale
      <3> QED
          BY <3>2, <3>3
    <2> QED
        BY <1>0, <2>1, <2>2, BalanceKept
  <1>7. ASSUME NEW p \in Pump, ClaimItem(p)
        PROVE  Balanced(campaign'[c], item'[c], draft'[c])
    <2> DEFINE b == pump[p].campaign
    <2>1. campaign'[c] = campaign[c] /\ draft'[c] = draft[c]
        BY <1>7 DEF ClaimItem
    <2>2. PICK d \in Open(b) : item' = [item EXCEPT ![b][d] =
              [status |-> "processing", token |-> tokens + 1, stale |-> FALSE]]
        BY <1>7 DEF ClaimItem
    <2>3. d \in Letter /\ item[b][d].status \in OpenItem
        BY <2>2 DEF Open, Items, OpenItem
    <2>4. b \in Campaign
        BY <1>7, HeldType DEF ClaimItem
    <2> HIDE DEF b
    <2>5. ASSUME NEW e \in Letter
          PROVE  \/ item'[c][e].status = item[c][e].status
                 \/ item'[c][e].status \in OpenItem /\ item[c][e].status \in OpenItem
      <3>1. item'[c][e] = IF b = c /\ d = e
                          THEN [status |-> "processing", token |-> tokens + 1, stale |-> FALSE]
                          ELSE item[c][e]
          BY <1>0, <2>2, <2>3, <2>4
      <3> QED
          BY <2>3, <3>1 DEF OpenItem
    <2> QED
        BY <1>0, <2>1, <2>5, BalanceKept
  <1>8. ASSUME NEW p \in Pump, SettleItem(p)
        PROVE  Balanced(campaign'[c], item'[c], draft'[c])
    <2> DEFINE b == pump[p].campaign
               d == pump[p].letter
               o == pump[p].outcome
    <2>0. b \in Campaign /\ d \in Letter /\ o \in {"replayed", "failed"} /\ draft'[c] = draft[c]
        BY <1>8, HeldType DEF SettleItem
    <2>1. CASE HoldsItem(pump[p])
      <3>1. /\ item' = [item EXCEPT ![b][d] = Moved(item[b][d], o)]
            /\ campaign' = [campaign EXCEPT ![b] = Counted(campaign[b], o)]
            /\ item[b][d].status = "processing"
          BY <1>8, <2>1 DEF SettleItem, HoldsItem
      <3>2. Moved(item[b][d], o).status = o
          BY <1>0, <2>0, MovedType DEF Settled
      <3> HIDE DEF b, d, o
      <3>3. CASE b = c
        <4>1. /\ campaign'[c] = Counted(campaign[c], o) /\ item'[c][d].status = o
              /\ item[c][d].status = "processing"
            BY <1>0, <2>0, <3>1, <3>2, <3>3
        <4>2. \A e \in Letter \ {d} : item'[c][e] = item[c][e]
            BY <1>0, <2>0, <3>1, <3>3
        <4> DEFINE row == campaign[c]
                   it == item[c]
                   it2 == item'[c]
                   dr == draft[c]
        <4>3. /\ Balanced(row, it, dr) /\ row \in CampaignRow /\ it[d].status = "processing"
              /\ it2[d].status = o /\ \A e \in Letter \ {d} : it2[e] = it[e]
            BY <1>0, <4>1, <4>2
        <4> HIDE DEF row, it, it2, dr
        <4>4. Balanced(Counted(row, o), it2, dr)
            BY <2>0, <4>3, SettleBalances
        <4> QED
            BY <2>0, <4>1, <4>4 DEF row, it, it2, dr
      <3>4. CASE b # c
        <4>1. campaign'[c] = campaign[c] /\ item'[c] = item[c]
            BY <1>0, <2>0, <3>1, <3>4
        <4> QED
            BY <1>0, <2>0, <4>1
      <3> QED
          BY <3>3, <3>4
    <2>2. CASE ~HoldsItem(pump[p])
        BY <1>0, <1>8, <2>2 DEF SettleItem
    <2> QED
        BY <2>1, <2>2
  <1>9. ASSUME NEW p \in Pump, CompleteCampaign(p)
        PROVE  Balanced(campaign'[c], item'[c], draft'[c])
    <2> DEFINE b == pump[p].campaign
    <2>0. item'[c] = item[c] /\ draft'[c] = draft[c] /\ b \in Campaign
        BY <1>9, HeldType DEF CompleteCampaign
    <2>1. CASE campaign[b].status = "running" /\ Exhausted(b) /\ b = c
      <3>1. campaign'[c] = [campaign[c] EXCEPT !.status = "completed"]
          BY <1>0, <1>9, <2>1 DEF CompleteCampaign
      <3>2. In(item[c], OpenItem) = {}
          BY <2>1 DEF In, OpenItem, Exhausted, Items
      <3> QED
          BY <1>0, <2>0, <2>1, <3>1, <3>2, CompletedBalances
    <2>2. CASE ~(campaign[b].status = "running" /\ Exhausted(b) /\ b = c)
      <3>1. campaign'[c] = campaign[c]
          BY <1>0, <1>9, <2>0, <2>2 DEF CompleteCampaign
      <3> QED
          BY <1>0, <2>0, <3>1
    <2> QED
        BY <2>1, <2>2
  <1>10. ASSUME NEW p \in Pump, NoItemLeft(p) \/ ReplayItem(p) \/ ReplayErrs(p) \/ Crash(p)
         PROVE  Kept
      BY <1>10 DEF NoItemLeft, ReplayItem, ReplayErrs, Crash
  <1>11. ASSUME NEW d \in Letter, Interfere(d) PROVE Kept
      BY <1>11 DEF Interfere
  <1>12. ASSUME UNCHANGED vars PROVE Kept
      BY <1>12 DEF vars
  <1> HIDE DEF Kept
  <1> QED
      BY <1>1, <1>2, <1>3, <1>4, <1>5, <1>6, <1>7, <1>8, <1>9, <1>10, <1>11, <1>12 DEF Next, PumpStep

LEMMA BalancedMatches ==
    ASSUME TypeOK, CounterInv
    PROVE  CountersMatchItems
  <1> SUFFICES ASSUME NEW c \in Campaign
               PROVE  /\ campaign[c].replayed = Cardinality(Items(c, {"replayed"}))
                      /\ campaign[c].failed = Cardinality(Items(c, {"failed"}))
                      /\ campaign[c].cancelled = Cardinality(Items(c, {"cancelled"}))
                      /\ campaign[c].status = "completed" =>
                           campaign[c].replayed + campaign[c].failed = campaign[c].total
      BY DEF CountersMatchItems
  <1> DEFINE it == item[c]
             R == In(it, {"replayed"})
             F == In(it, {"failed"})
  <1>1. Balanced(campaign[c], it, draft[c])
      BY DEF CounterInv
  <1>2. /\ campaign[c].replayed = Cardinality(R) /\ campaign[c].failed = Cardinality(F)
        /\ campaign[c].cancelled = Cardinality(In(it, {"cancelled"}))
      BY <1>1 DEF Balanced
  <1>3. \A S : Items(c, S) = In(it, S)
      BY DEF Items, In
  <1>4. ASSUME campaign[c].status = "completed"
        PROVE  campaign[c].replayed + campaign[c].failed = campaign[c].total
    <2>1. In(it, OpenItem \cup {"cancelled"}) = {}
        BY <1>1, <1>4 DEF Balanced
    <2>2. campaign[c].total = Cardinality(In(it, OpenItem \cup Settled))
        BY <1>1, <1>4 DEF Balanced
    <2>3. In(it, OpenItem \cup Settled) = R \cup F /\ R \cap F = {}
        BY <2>1 DEF In, OpenItem, Settled
    <2>4. IsFiniteSet(R) /\ IsFiniteSet(F) /\ Cardinality(R) \in Nat /\ Cardinality(F) \in Nat
        BY InFinite
    <2> HIDE DEF it, R, F
    <2>5. Cardinality(R \cup F) = Cardinality(R) + Cardinality(F) - Cardinality(R \cap F)
        BY <2>4, FS_Union
    <2>6. Cardinality(R \cap F) = 0
        BY <2>3, FS_EmptySet
    <2>7. \A x, y, z \in Nat : z = 0 => x + y - z = x + y
        OBVIOUS
    <2>8. Cardinality(R \cup F) = Cardinality(R) + Cardinality(F)
        BY <2>4, <2>5, <2>6, <2>7
    <2>9. campaign[c].total = Cardinality(R \cup F)
        BY <2>2, <2>3
    <2> QED
        BY <1>2, <2>8, <2>9
  <1> HIDE DEF it, R, F
  <1> QED
      BY <1>2, <1>3, <1>4 DEF R, F

(* Every item is counted once, by the settle of its own lease or by the      *)
(* cancellation, and a completed campaign accounts for all of them, for      *)
(* every cohort and every number of pumps (playbooks.sql                     *)
(* SettleReplayCampaignItem, CompleteReplayCampaignIfExhausted).             *)
THEOREM CountersAreItems == Spec => []CountersMatchItems
  <1>1. Init => CounterInv
    <2> SUFFICES ASSUME Init, NEW c \in Campaign PROVE Balanced(campaign[c], item[c], draft[c])
        BY DEF CounterInv
    <2>1. /\ campaign[c] = NoCampaign /\ draft[c] = {}
          /\ \A d \in Letter : item[c][d].status = "none"
        BY DEF Init, NoItem
    <2>2. /\ In(item[c], {"replayed"}) = {} /\ In(item[c], {"failed"}) = {}
          /\ In(item[c], {"cancelled"}) = {} /\ In(item[c], OpenItem \cup Settled) = {}
        BY <2>1 DEF In, OpenItem, Settled
    <2> QED
        BY <2>1, <2>2, FS_EmptySet DEF Balanced, NoCampaign
  <1>2. TypeOK /\ CounterInv /\ [Next]_vars => CounterInv'
      BY StepBalanced
  <1>3. TypeOK /\ CounterInv => CountersMatchItems
      BY BalancedMatches
  <1> QED
      BY <1>1, <1>2, <1>3, CampaignTypes, PTL DEF Spec

=============================================================================
