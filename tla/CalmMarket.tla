----------------------------- MODULE CalmMarket -----------------------------
(***************************************************************************)
(* Trading in a market that may fall silent for good: from then on no      *)
(* order is executed, refused or withdrawn and no market data arrives, and *)
(* what is under way must come to rest.  What must happen even while the   *)
(* market moves is stated here too, under the same fairness.               *)
(***************************************************************************)
EXTENDS Trading

VARIABLE silent

calmVars == <<vars, silent>>

CalmInit == Init /\ silent = FALSE

FallSilent == ~silent /\ silent' = TRUE /\ UNCHANGED vars

(* Requests are served and messages delivered whether the market moves or  *)
(* not.                                                                    *)
System == (Serve \/ Deliver \/ Connect) /\ UNCHANGED silent

Environment == ~silent /\ (Trade \/ Refuse \/ Withdrawn \/ Market)
                       /\ UNCHANGED silent

CalmNext == FallSilent \/ System \/ Environment

(* What Deliver does to its queue: with ResponsesKnown some handler takes  *)
(* every message, so Deliver is enabled whenever this is.                  *)
Receive == session = "ready" /\ toBot # <<>> /\ toBot' = Tail(toBot)

(* The exchange works through its queue and the client thread reads the    *)
(* socket; nothing obliges the market to move or to stand still.           *)
CalmSpec ==
  /\ CalmInit /\ [][CalmNext]_calmVars
  /\ WF_calmVars((Serve \/ (~silent /\ Refuse)) /\ UNCHANGED silent)
  /\ WF_toBot(Receive)

-----------------------------------------------------------------------------
(* SettlesWhenCalm: once the market has fallen silent, the robot and the   *)
(* exchange run out of messages for each other: a cancellation, its        *)
(* update, the order placed instead and its answer do not start another    *)
(* round.                                                                  *)
SettlesWhenCalm == (silent /\ session = "ready") ~> []Quiet

(* ReplacementCompletes: a side with an order the robot decided to replace *)
(* comes to a point where it has none, however the market moves meanwhile: *)
(* the update that ends the old order is neither lost nor mistaken.        *)
Replacing(d) == \E o \in Known(d) : bot.ordersMap[d][o].isReplaceOrder

ReplacementCompletes == \A d \in Side : Replacing(d) ~> ~Replacing(d)

=============================================================================
