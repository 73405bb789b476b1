----------------------------- MODULE Responses -----------------------------
(***************************************************************************)
(* What a message of the exchange is taken for: ResponseWs::Deserialize    *)
(* chooses the class of a response by its channel or, if it has none, by   *)
(* the request m_reqMap holds under its id, and reads from it what is      *)
(* there.  A JSON object is a function from the names of its members.      *)
(***************************************************************************)
EXTENDS RequestIds

CONSTANT Null       (* the JSON value null, and the missing object         *)

VARIABLE last       (* the last message: what it was, what it was taken    *)
                    (* for                                                 *)

(* JsonSerializer::GetObject and Deserialize into a string.                *)
GetObject(o, name) == IF name \in DOMAIN o THEN o[name] ELSE Null

GetString(o, name) == IF name \in DOMAIN o THEN o[name] ELSE ""

(* The id defaults to -1.                                                  *)
IdOf(msg) == IF "id" \in DOMAIN msg THEN msg.id ELSE -1

(* The channels ChannelEnumHelper::FromChannelName knows.                  *)
KnownChannel == {"instruments", "orderbook", "orders", "positions"}

(* Mutant: the request map is asked first.                                 *)
ClassByIdFirst(msg) ==
  IF Resolve(IdOf(msg)) # "_undef" THEN Resolve(IdOf(msg))
  ELSE IF GetString(msg.result, "channel") \in KnownChannel
       THEN msg.result.channel ELSE "_undef"

(* ResponseWs::Deserialize, the static one.                                *)
ClassOf(msg) ==
  IF GetString(msg.result, "channel") \in KnownChannel
  THEN msg.result.channel ELSE Resolve(IdOf(msg))

(* The Deserialize of the response's class: what the handlers find in it.  *)
Content(type, value) ==
  CASE type = "placeOrder" -> {value}
    [] type \in {"orderbook", "instruments"} -> value
    [] type \in {"orders", "positions"} /\ GetString(value, "type") = "update" ->
         {value.payload}
    [] type = "positions" /\ GetString(value, "type") = "snapshot" ->
         value.payload
    [] OTHER -> {}

(* What a response holds that nothing was read into: an order id nobody    *)
(* initialised, and else nothing.                                          *)
Unread(type) == IF type = "placeOrder" THEN {"garbage"} ELSE {}

(* ResponseWs::Deserialize on the result: tag, then value, both inside     *)
(* data if there is one.                                                   *)
Received(msg) ==
  LET type  == ClassOf(msg)
      data  == GetObject(msg.result, "data")
      body  == IF data # Null THEN data ELSE msg.result
      isOk  == GetString(body, "tag") = "ok"
      value == GetObject(body, "value")
  IN  [type |-> type, isOk |-> isOk,
       content |-> IF isOk /\ value # Null THEN Content(type, value)
                                           ELSE Unread(type)]

(* Mutant: nothing is ever forgotten.                                      *)
ForgetNever(msg) == reqMap

(* Mutant: the resolver erases what it finds, whatever it is asked for.    *)
ForgetAlways(msg) ==
  IF IdOf(msg) \in 0..LongMax
  THEN [reqMap EXCEPT ![IdOf(msg)] = NoRequest] ELSE reqMap

(* The resolver erases an entry without a type, if it is asked at all.     *)
Forget(msg) ==
  IF ClassOf(msg) = "_undef" /\ IdOf(msg) \in 0..LongMax
  THEN [reqMap EXCEPT ![IdOf(msg)] = NoRequest] ELSE reqMap

(* OnWsMessage.                                                            *)
Handle(msg, meaning) ==
  /\ reqMap' = Forget(msg)
  /\ last' = [meant |-> meaning, taken |-> Received(msg)]
  /\ UNCHANGED reqId

-----------------------------------------------------------------------------
(* What the exchange sends.  The tag and the value come with or without a  *)
(* data object around them.                                                *)

Ok(value) == [tag |-> "ok", value |-> value]

Err == [tag |-> "err", value |-> [code |-> "some code"]]

Results(body) == { [data |-> body], body }

OnChannel(channel, result) ==
  [name \in {"channel"} \cup DOMAIN result |->
     IF name = "channel" THEN channel ELSE result[name]]

ChannelResults(channel, body) ==
  { OnChannel(channel, result) : result \in Results(body) }

Meaning(type, isOk, content) ==
  [type |-> type, isOk |-> isOk, content |-> content]

(* The value of an accepted request, and what the handlers should see.     *)
AnswerValue(method) ==
  CASE method = "auth"       -> [userId |-> 1]
    [] method = "placeOrder" -> "order id"
    [] method = "other"      -> Null

AnswerContent(method) == IF method = "placeOrder" THEN {"order id"} ELSE {}

AnswerType(method) == IF method = "other" THEN "_undef" ELSE method

HandleAnswer ==
  /\ unanswered # <<>>
  /\ unanswered' = Tail(unanswered)
  /\ LET r    == Head(unanswered)
         type == AnswerType(r.method)
     IN  \/ \E result \in Results(Ok(AnswerValue(r.method))) :
              Handle([id |-> r.id, result |-> result],
                     Meaning(type, TRUE, AnswerContent(r.method)))
         \/ \E result \in Results(Err) :
              Handle([id |-> r.id, result |-> result],
                     Meaning(type, FALSE, Unread(type)))

(* What a channel publishes.  The robot has no use for a snapshot of the   *)
(* orders: it had none when it subscribed.                                 *)
Publication ==
  { [channel |-> "instruments", value |-> {"entry"}, content |-> {"entry"}],
    [channel |-> "orderbook",   value |-> {"entry"}, content |-> {"entry"}],
    [channel |-> "orders",    content |-> {"entry"},
     value |-> [type |-> "update", payload |-> "entry"]],
    [channel |-> "orders",    content |-> {},
     value |-> [type |-> "snapshot", payload |-> {"entry"}]],
    [channel |-> "positions", content |-> {"entry"},
     value |-> [type |-> "update", payload |-> "entry"]],
    [channel |-> "positions", content |-> {"entry", "another"},
     value |-> [type |-> "snapshot", payload |-> {"entry", "another"}]] }

(* A channel's message carries any id, that of a request the exchange has  *)
(* not answered yet included, or none.                                     *)
WithAnyId(result) ==
  {[result |-> result]} \cup {[id |-> i, result |-> result] : i \in 0..LongMax}

HandlePublication ==
  /\ \E p \in Publication :
       \/ \E result \in ChannelResults(p.channel, Ok(p.value)) :
            \E msg \in WithAnyId(result) :
              Handle(msg, Meaning(p.channel, TRUE, p.content))
       \/ \E result \in ChannelResults(p.channel, Err) :
            \E msg \in WithAnyId(result) :
              Handle(msg, Meaning(p.channel, FALSE, {}))
  /\ UNCHANGED unanswered

(* Null is no object, and nothing that is ever published.                  *)
ASSUME NullAssumption ==
  /\ Null # Err /\ Null # "order id"
  /\ Null # AnswerValue("auth")
  /\ \A method \in Method : Null # Ok(AnswerValue(method))
  /\ \A p \in Publication : Null # p.value /\ Null # Ok(p.value)

ResponsesInit == Init /\ last = Null

ResponsesNext ==
  \/ HandleAnswer
  \/ HandlePublication
  \/ \E method \in Method : Send(method) /\ UNCHANGED last

ResponsesSpec == ResponsesInit /\ [][ResponsesNext]_<<vars, last>>

-----------------------------------------------------------------------------
(* Understood: every message is taken for what it is, and what it says is  *)
(* all there is to read in it, whatever id a channel's message carries and *)
(* whatever the request map has kept or lost by then: a publication never  *)
(* looks like the answer to an authentication or to a placement.           *)
Understood == last # Null => last.taken = last.meant

=============================================================================
