------------------------------- MODULE Quoting -------------------------------
(***************************************************************************)
(* What the robot promises, without its maps, ids and prices: each side is *)
(* one slot that is empty, asked for, quoted, or to be replaced, and the   *)
(* position moves by what a quoted order loses and by nothing else.        *)
(* Trading implements this specification: see Implemented there.           *)
(***************************************************************************)
EXTENDS Integers

CONSTANTS
  Quantity,         (* the size of a new order                             *)
  PositionSizeMax,  (* no order is added to a side at its limit            *)
  WholeFills,       (* every execution takes the whole order               *)
  None              (* the position before it is known                     *)

VARIABLES
  ready,            (* the market and the position are known               *)
  position,         (* the position the robot trades by                    *)
  slot              (* each side's order: its stage and what is left of it *)

vars == <<ready, position, slot>>

Side == {"Buy", "Sell"}

Empty == [stage |-> "none", left |-> 0]
Asked == [stage |-> "asked", left |-> Quantity]

Standing == [stage : {"quoted", "replacing"}, left : 1..Quantity]

Slot == {Empty, Asked} \cup Standing

TypeOK ==
  /\ ready \in BOOLEAN
  /\ position \in Int \cup {None}
  /\ slot \in [Side -> Slot]

Init ==
  /\ ready = FALSE
  /\ position \in Int \cup {None}
  /\ slot = [d \in Side |-> Empty]

-----------------------------------------------------------------------------
Below(d, p) == IF d = "Buy" THEN p < PositionSizeMax ELSE p > -PositionSizeMax

Moved(d, p, k) == IF d = "Buy" THEN p + k ELSE p - k

(* What the end of every message may make of a slot: an empty one is asked *)
(* for if the limit allows, a quoted one may turn out to be stale.         *)
Requoted(d, s) ==
  CASE s.stage = "none"   -> {IF ready' /\ Below(d, position')
                              THEN Asked ELSE Empty}
    [] s.stage = "quoted" -> {s, [s EXCEPT !.stage = "replacing"]}
    [] OTHER              -> {s}

RequoteAll(slots) ==
  /\ slot' \in [Side -> Slot]
  /\ \A d \in Side : slot'[d] \in Requoted(d, slots[d])

(* The order asked for is quoted, or refused.                              *)
Answered(d) ==
  /\ slot[d].stage = "asked"
  /\ \E s \in {Empty, [slot[d] EXCEPT !.stage = "quoted"]} :
       RequoteAll([slot EXCEPT ![d] = s])
  /\ UNCHANGED <<ready, position>>

(* The order loses k, and the position moves by as much.                   *)
Executed(d, k) ==
  /\ slot[d].stage \in {"quoted", "replacing"}
  /\ k <= slot[d].left
  /\ WholeFills => k = slot[d].left
  /\ position' = Moved(d, position, k)
  /\ ready' = ready
  /\ RequoteAll([slot EXCEPT ![d] =
       IF k = slot[d].left THEN Empty
       ELSE [slot[d] EXCEPT !.left = @ - k]])

(* The order is gone: the one to be replaced is asked for again, in full   *)
(* and whatever the position.                                              *)
Withdrawn(d) ==
  /\ slot[d].stage \in {"quoted", "replacing"}
  /\ RequoteAll([slot EXCEPT ![d] =
       IF slot[d].stage = "replacing" THEN Asked ELSE Empty])
  /\ UNCHANGED <<ready, position>>

(* News that are about no order; only the first position counts.           *)
Learn ==
  /\ position' \in Int \cup {None}
  /\ position # None => position' = position
  /\ ready' \in BOOLEAN
  /\ ready => ready'
  /\ ready' => position' # None
  /\ RequoteAll(slot)

Next ==
  \/ Learn
  \/ \E d \in Side : \/ Answered(d) \/ Withdrawn(d)
                     \/ \E k \in 1..Quantity : Executed(d, k)

Spec == Init /\ [][Next]_vars

-----------------------------------------------------------------------------
(* OutstandingBelow: if every order is executed whole, a side that has an  *)
(* order is below its limit, the successor of a replaced order included,   *)
(* although nobody compares the position with the limit when it is placed: *)
(* only the order itself could have moved the position towards the limit.  *)
OutstandingBelow ==
  WholeFills => \A d \in Side :
    slot[d].stage # "none" => position \in Int /\ Below(d, position)

=============================================================================
