--------------------------- MODULE QuotingProofs ---------------------------
(***************************************************************************)
(* What Quoting promises, for every quantity and every limit.              *)
(***************************************************************************)
EXTENDS Quoting, TLAPS

(* The constants of the code: a positive quantity and limit, and the       *)
(* INT_MAX that stands for no position.                                    *)
Constants ==
  /\ Quantity \in Nat \ {0}
  /\ PositionSizeMax \in Nat \ {0}
  /\ WholeFills \in BOOLEAN
  /\ None \notin Int

(* A side has an order only once the position is known, and the market     *)
(* counts as known only with it.                                           *)
PositionKnown ==
  /\ ready => position \in Int
  /\ \A d \in Side : slot[d].stage # "none" => position \in Int

QInv == TypeOK /\ PositionKnown /\ OutstandingBelow

Fair(d, s, p) == s.stage # "none" => p \in Int /\ (WholeFills => Below(d, p))

(* QInv, slot by slot.                                                     *)
LEMMA QInvBySlot ==
  QInv <=> /\ ready \in BOOLEAN /\ position \in Int \cup {None}
           /\ slot \in [Side -> Slot]
           /\ ready => position \in Int
           /\ \A d \in Side : Fair(d, slot[d], position)
<1>1. OutstandingBelow /\ PositionKnown
        <=> /\ ready => position \in Int
            /\ \A d \in Side : Fair(d, slot[d], position)
  BY DEF OutstandingBelow, PositionKnown, Fair
<1> QED
  BY <1>1 DEF QInv, TypeOK

(* The end of a message leaves every slot within its limit.                *)
LEMMA RequoteAllKeeps ==
  ASSUME NEW slots \in [Side -> Slot],
         RequoteAll(slots),
         ready' => position' \in Int,
         \A d \in Side : Fair(d, slots[d], position')
  PROVE  \A d \in Side : Fair(d, slot'[d], position')
<1> SUFFICES ASSUME NEW d \in Side
             PROVE  Fair(d, slot'[d], position')
  OBVIOUS
<1>1. slot'[d] \in Requoted(d, slots[d]) /\ slots[d] \in Slot
  BY DEF RequoteAll
<1>2. CASE slots[d].stage = "none"
  <2>1. slot'[d] = IF ready' /\ Below(d, position') THEN Asked ELSE Empty
    BY <1>1, <1>2 DEF Requoted
  <2> QED
    BY <2>1 DEF Fair, Empty
<1>3. CASE slots[d].stage = "quoted"
  <2>1. Fair(d, slots[d], position') /\ slots[d].stage # "none"
    BY <1>3
  <2> QED
    BY <2>1 DEF Fair
<1>4. CASE slots[d].stage \notin {"none", "quoted"}
  BY <1>1, <1>4 DEF Requoted
<1> QED
  BY <1>2, <1>3, <1>4

(* A step that leaves fair slots to the end of a message preserves QInv.   *)
LEMMA StepKeeps ==
  ASSUME NEW slots \in [Side -> Slot],
         RequoteAll(slots),
         ready' \in BOOLEAN, position' \in Int \cup {None},
         ready' => position' \in Int,
         \A d \in Side : Fair(d, slots[d], position')
  PROVE  QInv'
<1>1. \A d \in Side : Fair(d, slot'[d], position')
  BY RequoteAllKeeps
<1>2. slot' \in [Side -> Slot]
  BY DEF RequoteAll
<1> QED
  BY <1>1, <1>2 DEF QInv, TypeOK, PositionKnown, OutstandingBelow, Fair

-----------------------------------------------------------------------------
LEMMA InitQ ==
  ASSUME Constants, Init
  PROVE  QInv
  BY DEF Init, QInv, TypeOK, PositionKnown, OutstandingBelow, Slot, Empty

LEMMA LearnQ ==
  ASSUME Constants, QInv, Learn
  PROVE  QInv'
<1>1. ready' => position' \in Int
  BY DEF Learn
<1>2. \A d \in Side : Fair(d, slot[d], position')
  BY QInvBySlot DEF Learn, Fair, Constants
<1>3. slot \in [Side -> Slot] /\ RequoteAll(slot)
  BY DEF Learn, QInv, TypeOK
<1>4. ready' \in BOOLEAN /\ position' \in Int \cup {None}
  BY DEF Learn
<1> QED
  BY <1>1, <1>2, <1>3, <1>4, StepKeeps

LEMMA AnsweredQ ==
  ASSUME Constants, QInv, NEW d \in Side, Answered(d)
  PROVE  QInv'
<1> PICK s \in {Empty, [slot[d] EXCEPT !.stage = "quoted"]} :
           RequoteAll([slot EXCEPT ![d] = s])
  BY DEF Answered
<1> DEFINE slots == [slot EXCEPT ![d] = s]
<1>1. slot[d] = Asked
  BY DEF Answered, QInv, TypeOK, Slot, Empty, Standing
<1>2. s = Empty \/ (s \in Standing /\ s.stage = "quoted")
  BY <1>1 DEF Asked, Standing, Constants
<1>3. slots \in [Side -> Slot]
  BY <1>2 DEF QInv, TypeOK, Slot
<1>4. Fair(d, slot[d], position) /\ slot[d].stage # "none"
  BY <1>1, QInvBySlot DEF Asked
<1>5. Fair(d, s, position)
  BY <1>2, <1>4 DEF Fair, Empty
<1>6. \A e \in Side : Fair(e, slots[e], position)
  BY <1>5, QInvBySlot DEF QInv, TypeOK
<1>7. UNCHANGED <<ready, position>>
  BY DEF Answered
<1>8. RequoteAll(slots)
  OBVIOUS
<1> HIDE DEF slots
<1> QED
  BY <1>3, <1>6, <1>7, <1>8, StepKeeps, QInvBySlot

(* Executed whole, an order leaves its side empty and takes the position   *)
(* away from the other side's limit.                                       *)
LEMMA ExecutedQ ==
  ASSUME Constants, QInv, NEW d \in Side, NEW k \in 1..Quantity, Executed(d, k)
  PROVE  QInv'
<1> DEFINE s == IF k = slot[d].left THEN Empty
                ELSE [slot[d] EXCEPT !.left = @ - k]
           slots == [slot EXCEPT ![d] = s]
<1>1. slot[d] \in Standing /\ k <= slot[d].left
  BY DEF Executed, QInv, TypeOK, Slot, Empty, Asked
<1>2. s \in Slot
  BY <1>1 DEF Slot, Standing, Constants
<1>3. position \in Int /\ position' = Moved(d, position, k) /\ position' \in Int
  BY DEF Executed, QInv, PositionKnown, Moved
<1>4. ready' = ready /\ RequoteAll(slots)
  BY DEF Executed
<1>5. Fair(d, s, position')
  <2>1. CASE k = slot[d].left
    BY <2>1 DEF Fair, Empty
  <2>2. CASE k # slot[d].left
    BY <1>3, <2>2 DEF Executed, Fair
  <2> QED
    BY <2>1, <2>2
<1>6. ASSUME NEW e \in Side \ {d}
      PROVE  Fair(e, slot[e], position')
  <2>1. Fair(e, slot[e], position)
    BY QInvBySlot
  <2>2. Below(e, position) => Below(e, position')
    BY <1>3 DEF Below, Moved, Side, Constants
  <2> QED
    BY <1>3, <2>1, <2>2 DEF Fair
<1>7. slots \in [Side -> Slot]
  BY <1>2 DEF QInv, TypeOK
<1>8. \A e \in Side : Fair(e, slots[e], position')
  BY <1>5, <1>6 DEF QInv, TypeOK
<1>9. ready' \in BOOLEAN
  BY <1>4 DEF QInv, TypeOK
<1> HIDE DEF slots
<1> QED
  BY <1>3, <1>4, <1>7, <1>8, <1>9, StepKeeps

LEMMA WithdrawnQ ==
  ASSUME Constants, QInv, NEW d \in Side, Withdrawn(d)
  PROVE  QInv'
<1> DEFINE s == IF slot[d].stage = "replacing" THEN Asked ELSE Empty
           slots == [slot EXCEPT ![d] = s]
<1>1. slot[d].stage # "none"
  BY DEF Withdrawn
<1>2. Fair(d, slot[d], position)
  BY QInvBySlot
<1>3. Fair(d, s, position)
  BY <1>1, <1>2 DEF Fair, Empty, Asked
<1>4. slots \in [Side -> Slot]
  BY DEF QInv, TypeOK, Slot
<1>5. \A e \in Side : Fair(e, slots[e], position)
  BY <1>3, QInvBySlot DEF QInv, TypeOK
<1>6. UNCHANGED <<ready, position>> /\ RequoteAll(slots)
  BY DEF Withdrawn
<1> HIDE DEF slots
<1> QED
  BY <1>4, <1>5, <1>6, StepKeeps, QInvBySlot

(* OutstandingBelow holds whatever the quantity and the limit: with whole  *)
(* executions a side that has an order is below its limit, the successor   *)
(* that orderUpdateHandler places without looking at the limit included.   *)
THEOREM OutstandingBelowCorrect ==
  ASSUME Constants
  PROVE  Spec => []OutstandingBelow
<1>1. Init => QInv
  BY InitQ
<1>2. QInv /\ [Next]_vars => QInv'
  <2> SUFFICES ASSUME QInv, [Next]_vars
               PROVE  QInv'
    OBVIOUS
  <2>1. CASE Learn
    BY <2>1, LearnQ
  <2>2. ASSUME NEW d \in Side, Answered(d)
        PROVE  QInv'
    BY <2>2, AnsweredQ
  <2>3. ASSUME NEW d \in Side, Withdrawn(d)
        PROVE  QInv'
    BY <2>3, WithdrawnQ
  <2>4. ASSUME NEW d \in Side, NEW k \in 1..Quantity, Executed(d, k)
        PROVE  QInv'
    BY <2>4, ExecutedQ
  <2>5. CASE UNCHANGED vars
    BY <2>5 DEF vars, QInv, TypeOK, PositionKnown, OutstandingBelow
  <2> QED
    BY <2>1, <2>2, <2>3, <2>4, <2>5 DEF Next
<1>3. QInv => OutstandingBelow
  BY DEF QInv
<1> QED
  BY <1>1, <1>2, <1>3, PTL DEF Spec

=============================================================================
