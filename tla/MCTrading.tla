----------------------------- MODULE MCTrading -----------------------------
(***************************************************************************)
(* Small instances of Trading for TLC.  The market of the instance: one    *)
(* level that comes and goes on the bid side, two on the ask side, so that *)
(* the middle moves by whole increments and the asks can empty.            *)
(***************************************************************************)
EXTENDS Trading

Item(price, quantity) == [price |-> price, quantity |-> quantity]

MCBookUpdates ==
  { [bid |-> <<Item(2, 1)>>, ask |-> <<Item(6, 1)>>],
    [bid |-> <<>>, ask |-> <<Item(4, 1)>>],
    [bid |-> <<Item(2, 0)>>, ask |-> <<Item(4, 0)>>] }

(* The account is flat, or short by one, when the robot connects.          *)
MCStartPositions == {0, -1}

(* Nothing distinguishes two order ids: the only CHOOSE over them orders   *)
(* the cancellations of one side, and a side has one order (SlotInv).      *)
OrderIdSymmetry == Permutations(OrderIds)

=============================================================================
