-------------------------- MODULE ResponsesProofs --------------------------
(***************************************************************************)
(* The ids of requests and what the messages of the exchange are taken     *)
(* for.  WindowInv holds for integers of any width: the requests not       *)
(* answered are the last the counter was used for, so what Send returned   *)
(* for them is distinct.  It is the ids they carry that need care: they    *)
(* are distinct for good, since an int divides the counter, but they are   *)
(* what was returned only while that fits an int (IdsFit), and what is     *)
(* said of the request map is proved for that long.                        *)
(***************************************************************************)
EXTENDS Responses, TLAPS

-----------------------------------------------------------------------------
(* Integers and sequences.                                                 *)

LEMMA Division ==
  ASSUME NEW a \in Int, NEW m \in Nat \ {0}
  PROVE  \E q \in Int, x \in 0..m - 1 : x = a % m /\ a = m * q + x
<1>1. a \div m \in Int /\ a % m \in 0..m - 1 /\ a = m * (a \div m) + (a % m)
  OBVIOUS
<1> QED
  BY <1>1

LEMMA Multiple ==
  ASSUME NEW n \in Nat \ {0}, NEW s \in Int, 0 < n * s
  PROVE  n <= n * s
  OBVIOUS

LEMMA AppendTo ==
  ASSUME NEW S, NEW s \in Seq(S), NEW x \in S
  PROVE  /\ Append(s, x) \in Seq(S)
         /\ Len(Append(s, x)) = Len(s) + 1
         /\ Append(s, x)[Len(s) + 1] = x
         /\ \A i \in 1..Len(s) : Append(s, x)[i] = s[i]
  OBVIOUS

LEMMA TailOf ==
  ASSUME NEW S, NEW s \in Seq(S), s # <<>>
  PROVE  /\ Tail(s) \in Seq(S) /\ Head(s) \in S /\ Head(s) = s[1]
         /\ Len(Tail(s)) = Len(s) - 1 /\ Len(s) \in Nat \ {0}
         /\ \A i \in 1..Len(s) - 1 : Tail(s)[i] = s[i + 1]
  OBVIOUS

-----------------------------------------------------------------------------
(* What is read of a message.                                              *)

(* The object the tag and the value are looked for in.                     *)
BodyOf(result) ==
  IF GetObject(result, "data") # Null THEN GetObject(result, "data")
                                      ELSE result

(* The tag decides whether the value is read.                              *)
LEMMA ReceivedErr ==
  ASSUME NEW msg, GetString(BodyOf(msg.result), "tag") = "err"
  PROVE  Received(msg) = Meaning(ClassOf(msg), FALSE, Unread(ClassOf(msg)))
  BY DEF Received, BodyOf, Meaning

LEMMA ReceivedOk ==
  ASSUME NEW msg, GetString(BodyOf(msg.result), "tag") = "ok"
  PROVE  LET value == GetObject(BodyOf(msg.result), "value")
         IN  Received(msg) = Meaning(ClassOf(msg), TRUE,
               IF value # Null THEN Content(ClassOf(msg), value)
                               ELSE Unread(ClassOf(msg)))
  BY DEF Received, BodyOf, Meaning

(* With or without a data object around it, the body is found.             *)
LEMMA Enclosed ==
  ASSUME NEW body, body # Null, "data" \notin DOMAIN body,
         NEW result \in Results(body)
  PROVE  BodyOf(result) = body
<1>1. CASE result = body
  BY <1>1 DEF BodyOf, GetObject
<1>2. CASE result = [data |-> body]
  BY <1>2 DEF BodyOf, GetObject
<1> QED
  BY <1>1, <1>2 DEF Results

(* A channel's message has one member more, which nobody takes for another. *)
LEMMA EnclosedOnChannel ==
  ASSUME NEW c, NEW body, body # Null,
         "data" \notin DOMAIN body, "channel" \notin DOMAIN body,
         NEW result \in ChannelResults(c, body)
  PROVE  /\ GetString(result, "channel") = c /\ result.channel = c
         /\ GetString(BodyOf(result), "tag") = GetString(body, "tag")
         /\ GetObject(BodyOf(result), "value") = GetObject(body, "value")
<1>1. PICK inner \in Results(body) : result = OnChannel(c, inner)
  BY DEF ChannelResults
<1>2. /\ DOMAIN result = {"channel"} \cup DOMAIN inner
      /\ result["channel"] = c
      /\ \A x \in DOMAIN inner : x # "channel" => result[x] = inner[x]
  BY <1>1 DEF OnChannel
<1>3. GetString(result, "channel") = c /\ result.channel = c
  BY <1>2 DEF GetString
<1>4. CASE inner = body
  <2>1. BodyOf(result) = result
    BY <1>2, <1>4 DEF BodyOf, GetObject
  <2> QED
    BY <2>1, <1>2, <1>3, <1>4 DEF GetString, GetObject
<1>5. CASE inner = [data |-> body]
  <2>1. BodyOf(result) = body
    BY <1>2, <1>5 DEF BodyOf, GetObject
  <2> QED
    BY <2>1, <1>3
<1> QED
  BY <1>1, <1>4, <1>5 DEF Results

(* The members of what is sent in a result.                                *)
LEMMA BodyIs ==
  /\ "data" \notin DOMAIN Err /\ "channel" \notin DOMAIN Err
  /\ GetString(Err, "tag") = "err"
  /\ \A value : /\ "data" \notin DOMAIN Ok(value)
                /\ "channel" \notin DOMAIN Ok(value)
                /\ GetString(Ok(value), "tag") = "ok"
                /\ GetObject(Ok(value), "value") = value
  BY DEF Err, Ok, GetString, GetObject

(* A publication's class reads from its value what it has to say.          *)
LEMMA PublicationIs ==
  ASSUME NEW p \in Publication
  PROVE  /\ p.channel \in KnownChannel
         /\ Content(p.channel, p.value) = p.content
<1>1. p.channel \in KnownChannel
  BY DEF Publication, KnownChannel
<1>2. CASE p.channel \in {"instruments", "orderbook"}
  <2>1. Content(p.channel, p.value) = p.value
    BY <1>2 DEF Content
  <2>2. p.value = p.content
    BY <1>2 DEF Publication
  <2> QED
    BY <1>1, <2>1, <2>2
<1>3. CASE p.channel = "orders"
  <2>1. CASE /\ p.value = [type |-> "update", payload |-> "entry"]
             /\ p.content = {"entry"}
    BY <2>1, <1>3, <1>1 DEF Content, GetString
  <2>2. CASE /\ p.value = [type |-> "snapshot", payload |-> {"entry"}]
             /\ p.content = {}
    BY <2>2, <1>3, <1>1 DEF Content, GetString
  <2> QED
    BY <1>3, <2>1, <2>2 DEF Publication
<1>4. CASE p.channel = "positions"
  <2>1. CASE /\ p.value = [type |-> "update", payload |-> "entry"]
             /\ p.content = {"entry"}
    BY <2>1, <1>4, <1>1 DEF Content, GetString
  <2>2. CASE /\ p.value = [type |-> "snapshot",
                            payload |-> {"entry", "another"}]
             /\ p.content = {"entry", "another"}
    BY <2>2, <1>4, <1>1 DEF Content, GetString
  <2> QED
    BY <1>4, <2>1, <2>2 DEF Publication
<1> QED
  BY <1>1, <1>2, <1>3, <1>4 DEF KnownChannel

(* Whatever id it carries, a publication is taken for what it is and takes *)
(* nothing from the request map.                                           *)
LEMMA PublicationStep ==
  ASSUME HandlePublication
  PROVE  /\ UNCHANGED <<reqId, reqMap, unanswered>>
         /\ last'.taken = last'.meant
<1>1. UNCHANGED unanswered
  BY DEF HandlePublication
<1>2. ASSUME NEW p \in Publication, NEW result, NEW msg \in WithAnyId(result),
             GetString(result, "channel") = p.channel,
             result.channel = p.channel
      PROVE  /\ msg.result = result
             /\ ClassOf(msg) = p.channel
             /\ Forget(msg) = reqMap
  <2>1. msg.result = result
    BY <1>2 DEF WithAnyId
  <2>2. p.channel \in KnownChannel /\ p.channel # "_undef"
    BY PublicationIs DEF KnownChannel
  <2> QED
    BY <2>1, <2>2, <1>2 DEF ClassOf, Forget
<1>3. ASSUME NEW p \in Publication,
             NEW result \in ChannelResults(p.channel, Ok(p.value)),
             NEW msg \in WithAnyId(result),
             Handle(msg, Meaning(p.channel, TRUE, p.content))
      PROVE  UNCHANGED <<reqId, reqMap>> /\ last'.taken = last'.meant
  <2>1. Ok(p.value) # Null /\ p.value # Null
    BY NullAssumption
  <2>2. /\ GetString(result, "channel") = p.channel
        /\ result.channel = p.channel
        /\ GetString(BodyOf(result), "tag") = "ok"
        /\ GetObject(BodyOf(result), "value") = p.value
    <3> DEFINE body == Ok(p.value)
    <3>1. /\ "data" \notin DOMAIN body /\ "channel" \notin DOMAIN body
          /\ GetString(body, "tag") = "ok"
          /\ GetObject(body, "value") = p.value
      BY BodyIs
    <3> HIDE DEF body
    <3>2. body # Null /\ result \in ChannelResults(p.channel, body)
      BY <2>1 DEF body
    <3> QED
      BY <3>1, <3>2, EnclosedOnChannel
  <2>3. msg.result = result /\ ClassOf(msg) = p.channel /\ Forget(msg) = reqMap
    BY <1>2, <2>2, Zenon
  <2>4. Received(msg) = Meaning(p.channel, TRUE, p.content)
    BY <2>1, <2>2, <2>3, ReceivedOk, PublicationIs, Zenon
  <2> QED
    BY <1>3, <2>3, <2>4 DEF Handle
<1>4. ASSUME NEW p \in Publication,
             NEW result \in ChannelResults(p.channel, Err),
             NEW msg \in WithAnyId(result),
             Handle(msg, Meaning(p.channel, FALSE, {}))
      PROVE  UNCHANGED <<reqId, reqMap>> /\ last'.taken = last'.meant
  <2>1. Err # Null
    BY NullAssumption
  <2>2. /\ GetString(result, "channel") = p.channel
        /\ result.channel = p.channel
        /\ GetString(BodyOf(result), "tag") = "err"
    BY <2>1, BodyIs, EnclosedOnChannel
  <2>3. msg.result = result /\ ClassOf(msg) = p.channel /\ Forget(msg) = reqMap
    BY <1>2, <2>2, Zenon
  <2>4. Unread(p.channel) = {}
    BY PublicationIs DEF KnownChannel, Unread
  <2>5. Received(msg) = Meaning(p.channel, FALSE, {})
    BY <2>2, <2>3, <2>4, ReceivedErr, Zenon
  <2> QED
    BY <1>4, <2>3, <2>5 DEF Handle
<1> QED
  BY <1>1, <1>3, <1>4, Zenon DEF HandlePublication

(* An answer is resolved by its id, and taken for what it is if the        *)
(* request map is right about that id.                                     *)
LEMMA AnswerStep ==
  ASSUME HandleAnswer, Head(unanswered).method \in Method
  PROVE  LET r == Head(unanswered)
         IN  /\ UNCHANGED reqId
             /\ unanswered # <<>> /\ unanswered' = Tail(unanswered)
             /\ reqMap' = IF Resolve(r.id) = "_undef" /\ r.id \in 0..LongMax
                          THEN [reqMap EXCEPT ![r.id] = NoRequest] ELSE reqMap
             /\ Resolve(r.id) = AnswerType(r.method)
                  => last'.taken = last'.meant
<1> DEFINE r    == Head(unanswered)
           type == AnswerType(r.method)
<1>1. unanswered # <<>> /\ unanswered' = Tail(unanswered)
  BY DEF HandleAnswer
<1>2. ASSUME NEW body, NEW result \in Results(body), "channel" \notin DOMAIN body
      PROVE  LET msg == [id |-> r.id, result |-> result]
             IN  /\ ClassOf(msg) = Resolve(r.id)
                 /\ Forget(msg) =
                      IF Resolve(r.id) = "_undef" /\ r.id \in 0..LongMax
                      THEN [reqMap EXCEPT ![r.id] = NoRequest] ELSE reqMap
  <2> DEFINE msg == [id |-> r.id, result |-> result]
  <2>1. msg.result = result /\ IdOf(msg) = r.id
    BY DEF IdOf
  <2>2. "channel" \notin DOMAIN result
    BY <1>2 DEF Results
  <2>3. GetString(msg.result, "channel") = ""
    BY <2>1, <2>2 DEF GetString
  <2> HIDE DEF msg
  <2>4. ClassOf(msg) = Resolve(r.id)
    BY <2>1, <2>3 DEF ClassOf, KnownChannel
  <2>5. Forget(msg) =
          IF Resolve(r.id) = "_undef" /\ r.id \in 0..LongMax
          THEN [reqMap EXCEPT ![r.id] = NoRequest] ELSE reqMap
    BY <2>1, <2>4, Zenon DEF Forget
  <2> QED
    BY <2>4, <2>5 DEF msg
<1>3. ASSUME NEW result \in Results(Ok(AnswerValue(r.method))),
             Handle([id |-> r.id, result |-> result],
                    Meaning(type, TRUE, AnswerContent(r.method))),
             Resolve(r.id) = type
      PROVE  last'.taken = last'.meant
  <2> DEFINE msg == [id |-> r.id, result |-> result]
             value == AnswerValue(r.method)
  <2>1. Ok(value) # Null
    BY NullAssumption
  <2>2. BodyOf(result) = Ok(value) /\ ClassOf(msg) = type
    BY <1>2, <1>3, <2>1, BodyIs, Enclosed, Zenon
  <2>3. /\ GetString(BodyOf(msg.result), "tag") = "ok"
        /\ GetObject(BodyOf(msg.result), "value") = value
    BY <2>2, BodyIs
  <2>4. (IF value # Null THEN Content(type, value) ELSE Unread(type))
          = AnswerContent(r.method)
    BY NullAssumption DEF AnswerType, AnswerValue, AnswerContent, Content,
                          Unread, Method
  <2>5. Received(msg) = Meaning(type, TRUE, AnswerContent(r.method))
    <3> HIDE DEF msg, value, type
    <3> QED
      BY <2>2, <2>3, <2>4, ReceivedOk
  <2> QED
    BY <1>3, <2>5 DEF Handle
<1>4. ASSUME NEW result \in Results(Err),
             Handle([id |-> r.id, result |-> result],
                    Meaning(type, FALSE, Unread(type))),
             Resolve(r.id) = type
      PROVE  last'.taken = last'.meant
  <2> DEFINE msg == [id |-> r.id, result |-> result]
  <2>1. Err # Null
    BY NullAssumption
  <2>2. BodyOf(result) = Err /\ ClassOf(msg) = type
    BY <1>2, <1>4, <2>1, BodyIs, Enclosed, Zenon
  <2>3. GetString(BodyOf(msg.result), "tag") = "err"
    BY <2>2, BodyIs
  <2>4. Received(msg) = Meaning(type, FALSE, Unread(type))
    BY <2>2, <2>3, ReceivedErr
  <2> QED
    BY <1>4, <2>4 DEF Handle
<1>5. /\ UNCHANGED reqId
      /\ reqMap' = IF Resolve(r.id) = "_undef" /\ r.id \in 0..LongMax
                   THEN [reqMap EXCEPT ![r.id] = NoRequest] ELSE reqMap
  <2>1. /\ "channel" \notin DOMAIN Err
        /\ "channel" \notin DOMAIN Ok(AnswerValue(r.method))
    BY BodyIs
  <2> HIDE DEF r, type
  <2>2. ASSUME NEW body, "channel" \notin DOMAIN body, NEW meaning,
               NEW result \in Results(body),
               Handle([id |-> r.id, result |-> result], meaning)
        PROVE  <1>5!1 /\ <1>5!2
    BY <1>2, <2>2, Zenon DEF Handle
  <2> QED
    BY <2>1, <2>2, Zenon DEF HandleAnswer, r, type
<1> QED
  BY <1>1, <1>3, <1>4, <1>5, Zenon DEF HandleAnswer

-----------------------------------------------------------------------------
(* The types.                                                              *)

(* A 64-bit id stored in an int is an int.                                 *)
LEMMA ToIntType ==
  ASSUME NEW n \in Nat
  PROVE  ToInt(n) \in -IntMax - 1 .. IntMax
<1> DEFINE m == 2 * IntMax + 2
<1>1. m \in Nat \ {0} /\ IntMax \in Nat
  BY WidthAssumption
<1>2. n % m \in 0..m - 1
  BY <1>1, Division
<1> HIDE DEF m
<1>3. ToInt(n) = IF n % m > IntMax THEN (n % m) - m ELSE n % m
  BY DEF ToInt, m
<1> QED
  BY <1>1, <1>2, <1>3 DEF m

(* Every variable keeps its type: the counter comes round before it does   *)
(* not fit, and an id is an int.                                           *)
THEOREM ResponsesTypeCorrect == ResponsesSpec => []TypeOK
<1>1. ResponsesInit => TypeOK
  BY WidthAssumption DEF ResponsesInit, Init, TypeOK
<1>2. TypeOK /\ [ResponsesNext]_<<vars, last>> => TypeOK'
  <2> SUFFICES ASSUME TypeOK, [ResponsesNext]_<<vars, last>> PROVE TypeOK'
    OBVIOUS
  <2> USE DEF TypeOK
  <2>1. CASE HandleAnswer
    <3>1. unanswered # <<>>
      BY <2>1 DEF HandleAnswer
    <3>2. Tail(unanswered) \in Seq(Sent) /\ Head(unanswered) \in Sent
      BY <3>1, TailOf
    <3>3. Head(unanswered).method \in Method
      BY <3>2 DEF Sent
    <3>4. /\ UNCHANGED reqId /\ unanswered' = Tail(unanswered)
          /\ \/ reqMap' = reqMap
             \/ \E i : reqMap' = [reqMap EXCEPT ![i] = NoRequest]
      BY <2>1, <3>3, AnswerStep
    <3> QED
      BY <3>2, <3>4
  <2>2. CASE HandlePublication
    BY <2>2, PublicationStep
  <2>3. ASSUME NEW method \in Method, Send(method)
        PROVE  TypeOK'
    <3> DEFINE result == reqId + 1
               r      == [method |-> method, id |-> ToInt(result),
                          returned |-> result]
    <3>1. result \in 0..LongMax /\ result \in Nat
      BY WidthAssumption
    <3>2. r \in Sent
      BY <3>1, ToIntType DEF Sent
    <3>3. unanswered' \in Seq(Sent)
      BY <3>2, <2>3, AppendTo DEF Send
    <3>4. reqMap' \in [0..LongMax -> Method \cup {NoRequest}]
      BY <2>3 DEF Send
    <3>5. reqId' \in 0..LongMax - 1
      BY <2>3, WidthAssumption DEF Send
    <3> QED
      BY <3>3, <3>4, <3>5
  <2>4. CASE UNCHANGED <<vars, last>>
    BY <2>4 DEF vars
  <2> QED
    BY <2>1, <2>2, <2>3, <2>4 DEF ResponsesNext
<1> QED
  BY <1>1, <1>2, PTL DEF ResponsesSpec

-----------------------------------------------------------------------------
(* The ids.  The requests not answered are the last the counter was used   *)
(* for: Back(i) is how far the one at i is behind the last of them.        *)
Back(i) == Len(unanswered) - i

WindowInv ==
  /\ Len(unanswered) <= MaxUnanswered
  /\ \A i \in 1..Len(unanswered) :
       /\ unanswered[i].returned =
            IF Back(i) < reqId THEN reqId - Back(i)
                               ELSE reqId - Back(i) + LongMax
       /\ unanswered[i].id = ToInt(unanswered[i].returned)

LEMMA OneFurtherBehind ==
  ASSUME NEW b \in Int, NEW before \in Int, NEW after \in Int,
         0 <= b, b <= LongMax - 2, before < LongMax, LongMax \in Int,
         after = IF before + 1 = LongMax THEN 0 ELSE before + 1
  PROVE  (IF b < before THEN before - b ELSE before - b + LongMax) =
           IF b + 1 < after THEN after - (b + 1) ELSE after - (b + 1) + LongMax
  OBVIOUS

(* An answer is for the oldest request, and the counter comes round one    *)
(* step early.                                                             *)
LEMMA WindowInvariant == ResponsesSpec => []WindowInv
<1>1. ResponsesInit => WindowInv
  BY WidthAssumption DEF ResponsesInit, Init, WindowInv
<1>2. TypeOK /\ WindowInv /\ [ResponsesNext]_<<vars, last>> => WindowInv'
  <2> SUFFICES ASSUME TypeOK, WindowInv, [ResponsesNext]_<<vars, last>>
               PROVE  WindowInv'
    OBVIOUS
  <2> USE DEF WindowInv, Back
  <2>0. /\ unanswered \in Seq(Sent) /\ Len(unanswered) \in Nat
        /\ reqId \in 0..LongMax - 1
    BY DEF TypeOK
  <2>1. CASE HandleAnswer
    <3>1. unanswered # <<>>
      BY <2>1 DEF HandleAnswer
    <3>2. Head(unanswered) \in Sent
      BY <2>0, <3>1, TailOf
    <3>3. UNCHANGED reqId /\ unanswered' = Tail(unanswered)
      BY <2>1, <3>2, AnswerStep DEF Sent
    <3>4. /\ Len(unanswered') = Len(unanswered) - 1
          /\ \A i \in 1..Len(unanswered) - 1 :
               unanswered'[i] = unanswered[i + 1]
      BY <2>0, <3>1, <3>3, TailOf
    <3>5. ASSUME NEW i \in 1..Len(unanswered')
          PROVE  /\ i + 1 \in 1..Len(unanswered)
                 /\ unanswered'[i] = unanswered[i + 1]
                 /\ Len(unanswered') - i = Len(unanswered) - (i + 1)
      BY <2>0, <3>4
    <3>6. Len(unanswered') <= MaxUnanswered
      BY <2>0, <3>4, WidthAssumption
    <3> QED
      BY <3>3, <3>5, <3>6
  <2>2. CASE HandlePublication
    BY <2>2, PublicationStep
  <2>3. ASSUME NEW method \in Method, Send(method)
        PROVE  WindowInv'
    <3> DEFINE result == reqId + 1
               r      == [method |-> method, id |-> ToInt(result),
                          returned |-> result]
    <3>1. r \in Sent
      BY <2>0, ToIntType, WidthAssumption DEF Sent
    <3>2. /\ Len(unanswered') = Len(unanswered) + 1
          /\ unanswered'[Len(unanswered) + 1] = r
          /\ \A i \in 1..Len(unanswered) : unanswered'[i] = unanswered[i]
      BY <2>0, <2>3, <3>1, AppendTo DEF Send
    <3>3. /\ Len(unanswered) < MaxUnanswered
          /\ reqId' = IF result = LongMax THEN 0 ELSE result
      BY <2>3 DEF Send
    <3>4. ASSUME NEW i \in 1..Len(unanswered)
          PROVE  unanswered'[i].returned =
                   IF Len(unanswered') - i < reqId'
                   THEN reqId' - (Len(unanswered') - i)
                   ELSE reqId' - (Len(unanswered') - i) + LongMax
      <4> DEFINE b == Len(unanswered) - i
                 Behind(before, back) == IF back < before THEN before - back
                                         ELSE before - back + LongMax
      <4>1. unanswered'[i].returned = Behind(reqId, b)
        BY <3>2
      <4>2. Len(unanswered') - i = b + 1
        BY <2>0, <3>2
      <4>3. /\ b \in Int /\ 0 <= b /\ b <= LongMax - 2 /\ LongMax \in Int
            /\ reqId \in Int /\ reqId' \in Int /\ reqId < LongMax
        BY <2>0, <3>3, WidthAssumption
      <4>4. reqId' = IF reqId + 1 = LongMax THEN 0 ELSE reqId + 1
        BY <3>3
      <4> HIDE DEF b
      <4>5. Behind(reqId, b) = Behind(reqId', b + 1)
        BY <4>3, <4>4, OneFurtherBehind
      <4> QED
        BY <4>1, <4>2, <4>5
    <3>5. r.returned = result /\ r.id = ToInt(result)
      OBVIOUS
    <3> HIDE DEF r
    <3>6. ASSUME NEW i \in 1..Len(unanswered')
          PROVE  /\ unanswered'[i].returned =
                      IF Len(unanswered') - i < reqId'
                      THEN reqId' - (Len(unanswered') - i)
                      ELSE reqId' - (Len(unanswered') - i) + LongMax
                 /\ unanswered'[i].id = ToInt(unanswered'[i].returned)
      <4>1. CASE i \in 1..Len(unanswered)
        BY <3>2, <3>4, <4>1
      <4>2. CASE i = Len(unanswered')
        BY <2>0, <3>2, <3>3, <3>5, <4>2, WidthAssumption
      <4> QED
        BY <2>0, <3>2, <4>1, <4>2
    <3> QED
      BY <2>0, <3>2, <3>3, <3>6, WidthAssumption
  <2>4. CASE UNCHANGED <<vars, last>>
    BY <2>4 DEF vars
  <2> QED
    BY <2>1, <2>2, <2>3, <2>4 DEF ResponsesNext
<1> QED
  BY <1>1, <1>2, ResponsesTypeCorrect, PTL DEF ResponsesSpec

(* Two ids are the same only if what was returned differs by a multiple of *)
(* the width of an int.                                                    *)
LEMMA ToIntEqual ==
  ASSUME NEW a \in Nat, NEW b \in Nat, ToInt(a) = ToInt(b)
  PROVE  \E s \in Int : a - b = (IntMax + 1) * s
<1> DEFINE n == IntMax + 1
           m == 2 * IntMax + 2
<1>1. m \in Nat \ {0} /\ n \in Nat \ {0} /\ m = 2 * n /\ IntMax = n - 1
  BY WidthAssumption
<1> HIDE DEF n, m
<1>8. a \in Int /\ b \in Int
  OBVIOUS
<1>2. PICK p \in Int, x \in 0..m - 1 : x = a % m /\ a = m * p + x
  BY <1>1, <1>8, Division, Zenon
<1>3. PICK q \in Int, y \in 0..m - 1 : y = b % m /\ b = m * q + y
  BY <1>1, <1>8, Division, Zenon
<1>4. /\ ToInt(a) = IF x > IntMax THEN x - m ELSE x
      /\ ToInt(b) = IF y > IntMax THEN y - m ELSE y
  BY <1>2, <1>3 DEF ToInt, m
<1>5. x = y
  <2> DEFINE low(z) == IF z > IntMax THEN z - m ELSE z
  <2>1. low(x) = low(y)
    BY <1>4
  <2> QED
    BY <1>1, <2>1
<1>6. a - b = m * p - m * q
  BY <1>1, <1>2, <1>3, <1>5
<1>7. 2 * (p - q) \in Int /\ m * p - m * q = n * (2 * (p - q))
  BY <1>1
<1> QED
  BY <1>6, <1>7 DEF n

(* IdsDistinct holds for good, also when the ids have come round in the    *)
(* int, the counter, or both: if a request's int divides the counter, as   *)
(* two's complement integers do, and fewer requests than an int has        *)
(* positive values are not answered.                                       *)
THEOREM IdsDistinctCorrect ==
  ASSUME (LongMax + 1) % (IntMax + 1) = 0, MaxUnanswered <= IntMax
  PROVE  ResponsesSpec => []IdsDistinct
<1>1. TypeOK /\ WindowInv => IdsDistinct
  <2>11. SUFFICES ASSUME TypeOK, WindowInv,
                        \E i, j \in 1..Len(unanswered) :
                          i < j /\ unanswered[i].id = unanswered[j].id
                 PROVE  FALSE
    <3> SUFFICES ASSUME TypeOK, WindowInv, ~IdsDistinct
                 PROVE  \E i, j \in 1..Len(unanswered) :
                          i < j /\ unanswered[i].id = unanswered[j].id
      OBVIOUS
    <3>1. DOMAIN unanswered = 1..Len(unanswered) /\ Len(unanswered) \in Nat
      BY DEF TypeOK
    <3>2. PICK i, j \in 1..Len(unanswered) :
            unanswered[i].id = unanswered[j].id /\ i # j
      BY <3>1 DEF IdsDistinct
    <3> QED
      BY <3>1, <3>2
  <2>12. PICK i, j \in 1..Len(unanswered) :
          i < j /\ unanswered[i].id = unanswered[j].id
    BY <2>11
  <2> DEFINE n == IntMax + 1
             a == unanswered[j].returned
             b == unanswered[i].returned
  <2>1. /\ unanswered \in Seq(Sent) /\ reqId \in 0..LongMax - 1
        /\ i \in 1..Len(unanswered) /\ j \in 1..Len(unanswered)
        /\ Len(unanswered) \in Nat /\ Len(unanswered) <= MaxUnanswered
    BY <2>11 DEF TypeOK, WindowInv
  <2>2. n \in Nat \ {0} /\ LongMax \in Nat /\ MaxUnanswered \in 1..n - 1
    BY WidthAssumption
  <2>3. unanswered[i] \in Sent /\ unanswered[j] \in Sent
    BY <2>1
  <2>4. a \in Nat /\ b \in Nat
    BY <2>2, <2>3 DEF Sent
  <2>5. PICK s \in Int : a - b = n * s
    <3>1. unanswered[j].id = ToInt(a) /\ unanswered[i].id = ToInt(b)
      BY <2>11 DEF WindowInv
    <3> HIDE DEF a, b
    <3> QED
      BY <2>12, <2>4, <3>1, ToIntEqual
  <2>6. PICK q \in Int : LongMax + 1 = n * q
    <3>1. (LongMax + 1) % n = 0
      OBVIOUS
    <3> HIDE DEF n
    <3>2. LongMax + 1 \in Int
      BY <2>2
    <3>3. PICK q \in Int, x \in 0..n - 1 :
            x = (LongMax + 1) % n /\ LongMax + 1 = n * q + x
      BY <2>2, <3>2, Division, Zenon
    <3>4. x = 0
      BY <3>1, <3>3, Zenon
    <3>5. LongMax + 1 = n * q
      BY <2>2, <3>3, <3>4
    <3> QED
      BY <3>5, Zenon
  <2>7. \/ a - b = j - i
        \/ a - b = j - i - LongMax
    <3>1. /\ a = IF Len(unanswered) - j < reqId
                 THEN reqId - (Len(unanswered) - j)
                 ELSE reqId - (Len(unanswered) - j) + LongMax
          /\ b = IF Len(unanswered) - i < reqId
                 THEN reqId - (Len(unanswered) - i)
                 ELSE reqId - (Len(unanswered) - i) + LongMax
      BY <2>11, <2>1 DEF WindowInv, Back
    <3>2. reqId \in Int /\ LongMax \in Int /\ Len(unanswered) \in Int
          /\ i \in Int /\ j \in Int
          /\ i < j /\ Len(unanswered) - i < LongMax
      BY <2>12, <2>1, <2>2
    <3> HIDE DEF a, b, n
    <3> QED
      BY <3>1, <3>2
  <2>8. j - i \in 1..n - 2
    BY <2>12, <2>1, <2>2
  <2> HIDE DEF n, a, b
  <2>9. CASE a - b = j - i
    BY <2>2, <2>4, <2>5, <2>8, <2>9, Multiple
  <2>10. CASE a - b = j - i - LongMax
    <3>1. j - i + 1 = n * (s + q)
      BY <2>1, <2>2, <2>4, <2>5, <2>6, <2>10
    <3>2. s + q \in Int /\ 0 < n * (s + q)
      BY <2>8, <3>1
    <3> QED
      BY <2>2, <2>8, <3>1, <3>2, Multiple
  <2> QED
    BY <2>7, <2>9, <2>10
<1> QED
  BY <1>1, ResponsesTypeCorrect, WindowInvariant, PTL

-----------------------------------------------------------------------------
(* The request map, while the counter fits an int: in the first INT_MAX    *)
(* requests of a session, or for good if the two have the same width.      *)
IdsFit == reqId < IntMax

(* What was returned is positive and fits.                                 *)
ReturnedInv ==
  \A i \in 1..Len(unanswered) : unanswered[i].returned \in 1..IntMax

(* The map is right about the requests not answered.                       *)
MapInv ==
  \A i \in 1..Len(unanswered) :
    reqMap[unanswered[i].returned] = unanswered[i].method

(* An entry of another method is about a request not answered.             *)
KnownInv ==
  \A id \in 0..LongMax : reqMap[id] = "other" =>
    \E i \in 1..Len(unanswered) : unanswered[i].returned = id

FitInv == ReturnedInv /\ MapInv /\ KnownInv /\ Understood

LEMMA ToIntFits ==
  ASSUME NEW n \in 0..IntMax
  PROVE  ToInt(n) = n
<1> DEFINE m == 2 * IntMax + 2
<1>1. m \in Nat /\ n \in Nat /\ n < m
  BY WidthAssumption
<1>2. n % m = n
  <2> HIDE DEF m
  <2> QED
    BY <1>1
<1>3. ToInt(n) = IF n % m > IntMax THEN (n % m) - m ELSE n % m
  BY DEF ToInt
<1> HIDE DEF m
<1> QED
  BY <1>2, <1>3, WidthAssumption

LEMMA FitAgrees ==
  ASSUME WindowInv, ReturnedInv, NEW i \in 1..Len(unanswered)
  PROVE  unanswered[i].id = unanswered[i].returned
<1>1. unanswered[i].returned \in 0..IntMax
  BY WidthAssumption DEF ReturnedInv
<1> QED
  BY <1>1, ToIntFits DEF WindowInv

(* Nothing is returned twice for requests not answered, nor is the next    *)
(* id one of theirs: the window is shorter than the counter's round.       *)
LEMMA ReturnedDistinct ==
  ASSUME TypeOK, WindowInv, NEW i \in 1..Len(unanswered),
         NEW j \in 1..Len(unanswered), i # j
  PROVE  unanswered[i].returned # unanswered[j].returned
<1>1. /\ reqId \in Int /\ Len(unanswered) \in Int /\ i \in Int /\ j \in Int
      /\ LongMax \in Int /\ Len(unanswered) < LongMax
      /\ i \in 1..Len(unanswered) /\ j \in 1..Len(unanswered)
  BY WidthAssumption DEF TypeOK, WindowInv
<1>2. /\ unanswered[i].returned = IF Len(unanswered) - i < reqId
                                  THEN reqId - (Len(unanswered) - i)
                                  ELSE reqId - (Len(unanswered) - i) + LongMax
      /\ unanswered[j].returned = IF Len(unanswered) - j < reqId
                                  THEN reqId - (Len(unanswered) - j)
                                  ELSE reqId - (Len(unanswered) - j) + LongMax
  BY DEF WindowInv, Back
<1> QED
  BY <1>1, <1>2

LEMMA ReturnedFresh ==
  ASSUME TypeOK, WindowInv, Len(unanswered) < MaxUnanswered,
         NEW i \in 1..Len(unanswered)
  PROVE  unanswered[i].returned # reqId + 1
<1>1. /\ reqId \in Int /\ Len(unanswered) \in Int /\ i \in Int
      /\ LongMax \in Int /\ Len(unanswered) < LongMax - 1
      /\ i \in 1..Len(unanswered)
  BY WidthAssumption DEF TypeOK, WindowInv
<1>2. unanswered[i].returned = IF Len(unanswered) - i < reqId
                               THEN reqId - (Len(unanswered) - i)
                               ELSE reqId - (Len(unanswered) - i) + LongMax
  BY DEF WindowInv, Back
<1> QED
  BY <1>1, <1>2

LEMMA FitInvariant == ResponsesSpec /\ []IdsFit => []FitInv
<1>1. ResponsesInit => FitInv
  <2> SUFFICES ASSUME ResponsesInit PROVE FitInv
    OBVIOUS
  <2>1. unanswered = <<>> /\ last = Null /\ Len(<<>>) = 0
    BY DEF ResponsesInit, Init
  <2>2. \A id \in 0..LongMax : reqMap[id] # "other"
    BY DEF ResponsesInit, Init, NoRequest
  <2> QED
    BY <2>1, <2>2 DEF FitInv, ReturnedInv, MapInv, KnownInv, Understood
<1>2. /\ TypeOK /\ WindowInv /\ FitInv /\ IdsFit
      /\ [ResponsesNext]_<<vars, last>>
      => FitInv'
  <2> SUFFICES ASSUME TypeOK, WindowInv, FitInv, IdsFit,
                      [ResponsesNext]_<<vars, last>>
               PROVE  FitInv'
    OBVIOUS
  <2> DEFINE n == Len(unanswered)
  <2>0. /\ unanswered \in Seq(Sent) /\ n \in Nat /\ n <= MaxUnanswered
        /\ reqId \in 0..LongMax - 1 /\ reqId < IntMax
        /\ reqMap \in [0..LongMax -> Method \cup {NoRequest}]
        /\ IntMax \in Nat /\ LongMax \in Nat /\ IntMax <= LongMax
        /\ \A i \in 1..n : unanswered[i] \in Sent
    BY WidthAssumption DEF TypeOK, WindowInv, IdsFit
  <2>1. CASE HandleAnswer
    <3> DEFINE r == unanswered[1]
    <3>1. unanswered # <<>>
      BY <2>1 DEF HandleAnswer
    <3>2. /\ Head(unanswered) = r /\ r \in Sent /\ n \in Nat \ {0}
          /\ Len(Tail(unanswered)) = n - 1
          /\ \A i \in 1..n - 1 : Tail(unanswered)[i] = unanswered[i + 1]
      BY <2>0, <3>1, TailOf
    <3>3. /\ r.id = r.returned /\ r.returned \in 1..IntMax
          /\ reqMap[r.returned] = r.method /\ r.method \in Method
      BY <3>2, FitAgrees DEF FitInv, ReturnedInv, MapInv, Sent
    <3>4. Resolve(r.id) = AnswerType(r.method) /\ r.id \in 0..LongMax
      BY <2>0, <3>3 DEF Resolve, TypeOf, AnswerType, Method
    <3>5. /\ unanswered' = Tail(unanswered)
          /\ reqMap' = IF r.method = "other"
                       THEN [reqMap EXCEPT ![r.returned] = NoRequest] ELSE reqMap
          /\ last'.taken = last'.meant
      BY <2>1, <3>2, <3>3, <3>4, AnswerStep DEF AnswerType, Method
    <3>6. Len(unanswered') = n - 1
      BY <3>2, <3>5
    <3>7. ASSUME NEW i \in 1..n - 1
          PROVE  /\ unanswered'[i] = unanswered[i + 1]
                 /\ i + 1 \in 1..n
                 /\ unanswered[i + 1].returned # r.returned
                 /\ unanswered[i + 1].returned \in 0..LongMax
                 /\ unanswered[i + 1].method # NoRequest
      <4>1. i + 1 \in 1..n /\ 1 \in 1..n /\ i + 1 # 1
        BY <3>2
      <4>2. unanswered[i + 1].returned # r.returned
        BY <4>1, ReturnedDistinct
      <4> QED
        BY <2>0, <3>2, <3>5, <4>1, <4>2 DEF Sent, Method, NoRequest
    <3>8. ReturnedInv'
      BY <3>6, <3>7 DEF FitInv, ReturnedInv
    <3>9. MapInv'
      <4> SUFFICES ASSUME NEW i \in 1..n - 1
                   PROVE  reqMap'[unanswered'[i].returned]
                            = unanswered'[i].method
        BY <3>6 DEF MapInv
      <4>1. reqMap'[unanswered[i + 1].returned]
              = reqMap[unanswered[i + 1].returned]
        BY <2>0, <3>5, <3>7
      <4> QED
        BY <3>7, <4>1 DEF FitInv, MapInv
    <3>10. KnownInv'
      <4> SUFFICES ASSUME NEW id \in 0..LongMax, reqMap'[id] = "other"
                   PROVE  \E i \in 1..n - 1 : unanswered'[i].returned = id
        BY <3>6 DEF KnownInv
      <4>1. reqMap[id] = "other" /\ id # r.returned
        BY <2>0, <3>3, <3>5 DEF NoRequest
      <4>2. PICK i \in 1..n : unanswered[i].returned = id
        BY <4>1 DEF FitInv, KnownInv
      <4>3. i - 1 \in 1..n - 1 /\ (i - 1) + 1 = i
        BY <3>2, <4>1, <4>2
      <4>4. unanswered'[i - 1] = unanswered[(i - 1) + 1]
        BY <3>7, <4>3
      <4>5. unanswered'[i - 1].returned = id
        BY <4>2, <4>3, <4>4
      <4> QED
        BY <4>3, <4>5
    <3> QED
      BY <3>5, <3>8, <3>9, <3>10 DEF FitInv, Understood
  <2>2. CASE HandlePublication
    BY <2>2, PublicationStep DEF FitInv, ReturnedInv, MapInv, KnownInv, Understood
  <2>3. ASSUME NEW method \in Method, Send(method), UNCHANGED last
        PROVE  FitInv'
    <3> DEFINE result == reqId + 1
               r      == [method |-> method, id |-> ToInt(result),
                          returned |-> result]
    <3>1. result \in 1..IntMax /\ result \in 0..LongMax
      BY <2>0
    <3>2. r \in Sent /\ r.returned = result /\ r.method = method
      BY <2>0, ToIntType DEF Sent
    <3>3. /\ Len(unanswered') = n + 1
          /\ unanswered'[n + 1] = r
          /\ \A i \in 1..n : unanswered'[i] = unanswered[i]
      BY <2>0, <2>3, <3>2, AppendTo DEF Send
    <3>4. reqMap' = [reqMap EXCEPT ![result] = method] /\ n < MaxUnanswered
      BY <2>3 DEF Send
    <3> HIDE DEF r, result
    <3>5. ASSUME NEW i \in 1..n + 1
          PROVE  i \in 1..n \/ i = n + 1
      BY <2>0
    <3>6. ReturnedInv'
      BY <3>1, <3>2, <3>3, <3>5 DEF FitInv, ReturnedInv
    <3>7. MapInv'
      <4> SUFFICES ASSUME NEW i \in 1..n + 1
                   PROVE  reqMap'[unanswered'[i].returned]
                            = unanswered'[i].method
        BY <3>3 DEF MapInv
      <4>1. CASE i \in 1..n
        <5>1. /\ unanswered[i].returned # result
              /\ unanswered[i].returned \in 0..LongMax
          BY <2>0, <3>4, <4>1, ReturnedFresh DEF Sent, result
        <5>2. reqMap[unanswered[i].returned] = unanswered[i].method
          BY <4>1 DEF FitInv, MapInv
        <5> QED
          BY <2>0, <3>3, <3>4, <4>1, <5>1, <5>2
      <4>2. CASE i = n + 1
        BY <2>0, <3>1, <3>2, <3>3, <3>4, <4>2
      <4> QED
        BY <3>5, <4>1, <4>2
    <3>8. KnownInv'
      <4> SUFFICES ASSUME NEW id \in 0..LongMax, reqMap'[id] = "other"
                   PROVE  \E i \in 1..n + 1 : unanswered'[i].returned = id
        BY <3>3 DEF KnownInv
      <4>1. CASE id = result
        BY <2>0, <3>2, <3>3, <4>1
      <4>2. CASE id # result
        <5>1. reqMap[id] = "other"
          BY <2>0, <3>4, <4>2
        <5>2. PICK i \in 1..n : unanswered[i].returned = id
          BY <5>1 DEF FitInv, KnownInv
        <5>3. i \in 1..n + 1
          BY <2>0
        <5> QED
          BY <3>3, <5>2, <5>3
      <4> QED
        BY <4>1, <4>2
    <3> QED
      BY <2>3, <3>6, <3>7, <3>8 DEF FitInv, Understood
  <2>4. CASE UNCHANGED <<vars, last>>
    BY <2>4 DEF vars, FitInv, ReturnedInv, MapInv, KnownInv, Understood
  <2> QED
    BY <2>1, <2>2, <2>3, <2>4 DEF ResponsesNext
<1> QED
  BY <1>1, <1>2, ResponsesTypeCorrect, WindowInvariant, PTL DEF ResponsesSpec

(* The run's instance: an int as wide as the counter always fits it.       *)
LEMMA FitsForGood ==
  ASSUME IntMax = LongMax
  PROVE  ResponsesSpec => []IdsFit
<1>1. TypeOK => IdsFit
  BY WidthAssumption DEF TypeOK, IdsFit
<1> QED
  BY <1>1, ResponsesTypeCorrect, PTL

(* While the ids fit, IdsAgree: the caller of Send remembers its request   *)
(* under the id the answer will name.                                      *)
THEOREM IdsAgreeCorrect == ResponsesSpec /\ []IdsFit => []IdsAgree
<1>1. TypeOK /\ WindowInv /\ FitInv => IdsAgree
  BY FitAgrees DEF TypeOK, FitInv, IdsAgree
<1> QED
  BY <1>1, ResponsesTypeCorrect, WindowInvariant, FitInvariant, PTL

(* While the ids fit, the answer to any unanswered request is taken for an *)
(* answer to a request of that method, whatever OnWsMessage has forgotten. *)
THEOREM AnswersResolvedCorrect ==
  ResponsesSpec /\ []IdsFit => []AnswersResolved
<1>1. TypeOK /\ WindowInv /\ FitInv => AnswersResolved
  <2> SUFFICES ASSUME TypeOK, WindowInv, FitInv,
                      NEW i \in DOMAIN unanswered
               PROVE  LET r == unanswered[i]
                      IN  Resolve(r.id) = IF r.method = "other" THEN "_undef"
                                                                ELSE r.method
    BY DEF AnswersResolved
  <2> DEFINE r == unanswered[i]
  <2>1. i \in 1..Len(unanswered) /\ r \in Sent
    BY DEF TypeOK
  <2>2. r.id = r.returned /\ r.returned \in 0..LongMax
    BY <2>1, FitAgrees DEF FitInv, Sent
  <2>3. reqMap[r.returned] = r.method /\ r.method \in Method
    BY <2>1 DEF FitInv, MapInv, Sent
  <2> HIDE DEF r
  <2>4. Resolve(r.id) = IF r.method = "other" THEN "_undef" ELSE r.method
    BY <2>2, <2>3 DEF Resolve, TypeOf, Method
  <2> QED
    BY <2>4 DEF r
<1> QED
  BY <1>1, ResponsesTypeCorrect, WindowInvariant, FitInvariant, PTL

(* While the ids fit, the request map keeps a subscription or a            *)
(* cancellation no longer than its answer is due.                          *)
THEOREM AnsweredForgottenCorrect ==
  ResponsesSpec /\ []IdsFit => []AnsweredForgotten
<1>1. TypeOK /\ WindowInv /\ FitInv => AnsweredForgotten
  <2> SUFFICES ASSUME TypeOK, WindowInv, FitInv,
                      NEW id \in 0..LongMax, reqMap[id] = "other"
               PROVE  \E i \in DOMAIN unanswered : unanswered[i].id = id
    BY DEF AnsweredForgotten
  <2>1. PICK i \in 1..Len(unanswered) : unanswered[i].returned = id
    BY DEF FitInv, KnownInv
  <2>2. unanswered[i].id = id /\ i \in DOMAIN unanswered
    BY <2>1, FitAgrees DEF FitInv, TypeOK
  <2> QED
    BY <2>2
<1> QED
  BY <1>1, ResponsesTypeCorrect, WindowInvariant, FitInvariant, PTL

(* While the ids fit, every message is taken for what it is: an answer by  *)
(* its id, which no other request has, a publication by its channel,       *)
(* whatever id it carries.                                                 *)
THEOREM UnderstoodCorrect == ResponsesSpec /\ []IdsFit => []Understood
<1>1. FitInv => Understood
  BY DEF FitInv
<1> QED
  BY <1>1, FitInvariant, PTL

=============================================================================
