----------------------------- MODULE RequestIds -----------------------------
(***************************************************************************)
(* The ids of requests: ConnectorWs::Send counts them in 64 bits and       *)
(* remembers the request under its id in m_reqMap; the request itself      *)
(* keeps its id in an int, and that is the id the exchange answers with;   *)
(* OnWsMessage looks the id of an answer up to learn its type.  What it    *)
(* then does with the answer is in module Responses.                       *)
(***************************************************************************)
EXTENDS Integers, Sequences

CONSTANTS
  LongMax,          (* std::numeric_limits<t_req_id>::max()                *)
  IntMax,           (* INT_MAX: RequestWs::m_id is an int                  *)
  MaxUnanswered     (* bound: requests the exchange has not answered       *)

ASSUME WidthAssumption ==
  /\ IntMax \in Nat \ {0}
  /\ LongMax \in Nat
  /\ IntMax <= LongMax
  /\ MaxUnanswered \in 1..LongMax - 1

Method == {"auth", "placeOrder", "other"}

VARIABLES
  reqId,        (* m_reqId                                                 *)
  reqMap,       (* m_reqMap: the method of a request, by id                *)
  unanswered    (* requests sent: their method, the id they carry and the  *)
                (* id Send returned to its caller                          *)

vars == <<reqId, reqMap, unanswered>>

NoRequest == "none"

(* A 64-bit id stored in an int: two's complement.                         *)
ToInt(n) ==
  LET low == n % (2 * IntMax + 2)
  IN  IF low > IntMax THEN low - (2 * IntMax + 2) ELSE low

Sent == [method : Method, id : -IntMax - 1 .. IntMax, returned : 0..LongMax]

TypeOK ==
  /\ reqId \in 0..LongMax - 1
  /\ reqMap \in [0..LongMax -> Method \cup {NoRequest}]
  /\ unanswered \in Seq(Sent)

Init ==
  /\ reqId = 0
  /\ reqMap = [i \in 0..LongMax |-> NoRequest]
  /\ unanswered = <<>>

(* Mutant: the counter does not wrap.                                      *)
SendNeverWraps(method) ==
  LET result == reqId + 1
  IN  /\ Len(unanswered) < MaxUnanswered
      /\ reqMap' = [reqMap EXCEPT ![result] = method]
      /\ reqId' = result
      /\ unanswered' = Append(unanswered,
           [method |-> method, id |-> ToInt(result), returned |-> result])

(* Mutant: the counter stops at its maximum instead of coming round.       *)
SendSaturates(method) ==
  LET result == IF reqId + 1 < LongMax THEN reqId + 1 ELSE reqId
  IN  /\ Len(unanswered) < MaxUnanswered
      /\ reqMap' = [reqMap EXCEPT ![result] = method]
      /\ reqId' = result
      /\ unanswered' = Append(unanswered,
           [method |-> method, id |-> ToInt(result), returned |-> result])

(* ConnectorWs::Send.                                                      *)
Send(method) ==
  LET result == reqId + 1
  IN  /\ Len(unanswered) < MaxUnanswered
      /\ reqMap' = [reqMap EXCEPT ![result] = method]
      /\ reqId' = IF result = LongMax THEN 0 ELSE result
      /\ unanswered' = Append(unanswered,
           [method |-> method, id |-> ToInt(result), returned |-> result])

-----------------------------------------------------------------------------
(* The lambda in OnWsMessage that finds the type of an answer.             *)
TypeOf(id) == IF id \in 0..LongMax THEN reqMap[id] ELSE NoRequest

Resolve(id) == IF TypeOf(id) \in {"auth", "placeOrder"} THEN TypeOf(id)
                                                        ELSE "_undef"

-----------------------------------------------------------------------------
(* AnswersResolved: the answer to any unanswered request will be taken for *)
(* an answer to a request of that method, although entries of answered     *)
(* requests stay in the map, the counter comes round to their ids, and a   *)
(* channel's message may carry the id of a request before it is answered.  *)
AnswersResolved == \A i \in DOMAIN unanswered :
  LET r == unanswered[i]
  IN  Resolve(r.id) = IF r.method = "other" THEN "_undef" ELSE r.method

(* AnsweredForgotten: the map holds a subscription or a cancellation only  *)
(* while it is unanswered.                                                 *)
AnsweredForgotten == \A id \in 0..LongMax :
  reqMap[id] = "other" => \E i \in DOMAIN unanswered : unanswered[i].id = id

(* IdsDistinct: no two unanswered requests carry the same id, so that what *)
(* the robot holds under an id in m_orderReqMap is never overwritten by    *)
(* its next order before the answer is there.                              *)
IdsDistinct == \A i, j \in DOMAIN unanswered :
  unanswered[i].id = unanswered[j].id => i = j

(* IdsAgree: the id Send returns, under which the caller remembers its     *)
(* request, is the id the request carries and the answer will name.        *)
IdsAgree == \A i \in DOMAIN unanswered :
  unanswered[i].id = unanswered[i].returned

=============================================================================
