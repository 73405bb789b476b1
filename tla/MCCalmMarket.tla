----------------------------- MODULE MCCalmMarket -----------------------------
(***************************************************************************)
(* A small instance of CalmMarket.      The market of the instance: one    *)
(* level that comes and goes on the bid side, two on the ask side, so that *)
(* the middle moves by whole increments and the asks can empty.            *)
(***************************************************************************)
EXTENDS CalmMarket

Item(price, quantity) == [price |-> price, quantity |-> quantity]

MCBookUpdates ==
  { [bid |-> <<Item(2, 1)>>, ask |-> <<Item(6, 1)>>],
    [bid |-> <<>>, ask |-> <<Item(4, 1)>>],
    [bid |-> <<Item(2, 0)>>, ask |-> <<Item(4, 0)>>] }

(* The account is flat, or short by one, when the robot connects.          *)
MCStartPositions == {0, -1}

=============================================================================
