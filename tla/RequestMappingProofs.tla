-------------------------- MODULE RequestMappingProofs --------------------------
(***************************************************************************)
(* What is proved of RequestMapping, for every set of message types,       *)
(* services, optional members and values.                                  *)
(*                                                                         *)
(* MappingInv says what has been sent, answered, told and is held; lemma   *)
(* CCRIsRead what the OCS reads of a CCR: it is made as sendCCR makes it,  *)
(* setter by setter and child by child, stays Sound all the way, and a     *)
(* sound message is read as it was written (module MessagesProofs).        *)
(***************************************************************************)
EXTENDS MessagesProofs, RequestMapping

----------------------------------------------------------------------------
(* What becomes of a request: the holding map, the CCRs and the responses. *)

(* The i-th CCR is made of a message that was not refused.                 *)
SentAs(json, incoming, i) ==
  /\ sent[i].json = json
  /\ sent[i].read = Received(CCR(parseJsonMessage(json, incoming)))

Quoted(json) == msgTypetoRequestType(json.msg_type_id) = "QUOTE"

(* What has been sent: an opening, and after the response to a quote the   *)
(* charge of it.                                                           *)
SentInv ==
  /\ \E X : sent \in Seq(X)
  /\ Len(sent) <= 2
  /\ \A i \in 1..Len(sent) : \E incoming \in BOOLEAN : SentAs(sent[i].json, incoming, i)
  /\ \A i \in 1..Len(sent) : ~Refused(sent[i].json)
  /\ Len(sent) >= 1 => sent[1].json \in Openings \cup Incomplete
  /\ Len(sent) = 2 => Quoted(sent[1].json) /\ sent[2].json \in Charges(sent[1].json)

(* What the OCS has answered.                                              *)
AnswersInv ==
  /\ \E X : answers \in Seq(X)
  /\ Len(answers) <= Len(sent)
  /\ \A i \in 1..Len(answers) :
       answers[i].SessionId = sent[i].read.vals["SessionId"] /\ answers[i].ResultCode \in {2001, 4012}

(* What requesters have been told.                                         *)
ResponseTo(json, read, cca, response) ==
  /\ \A n \in {"id", "tube_resp", "operation", "msg_type_id"} : response[n] = json[n]
  /\ response.session_id = Get(json, "session_id", 0)
  /\ cca.SessionId = read.vals["SessionId"]
  /\ (response.result = 0) <=> (cca.ResultCode = 2001)

ResponsesInv ==
  /\ \E X : responses \in Seq(X)
  /\ Len(responses) <= Len(answers)
  /\ Len(sent) = 2 => Len(responses) >= 1
  /\ \A i \in 1..Len(responses) : ResponseTo(sent[i].json, sent[i].read, answers[i], responses[i])

(* The holding map has the request of the CCR that is not answered, under  *)
(* the Session-Id made of its message, and nothing else.                   *)
HoldingInv ==
  IF Len(responses) = Len(sent) THEN DOMAIN holding = {}
  ELSE LET json == sent[Len(sent)].json
       IN  \E incoming \in BOOLEAN :
             /\ DOMAIN holding = {sessionIdStr(json)}
             /\ holding[sessionIdStr(json)] = parseJsonMessage(json, incoming)

MappingInv == SentInv /\ AnswersInv /\ ResponsesInv /\ HoldingInv

(* Nothing is sent, answered or held in the beginning. *)
LEMMA MappingInvInit == MappingInit => MappingInv
<1> SUFFICES ASSUME MappingInit PROVE MappingInv
  OBVIOUS
<1>1. holding = << >> /\ sent = << >> /\ answers = << >> /\ responses = << >>
  BY DEF MappingInit
<1>2. << >> \in Seq({}) /\ Len(<< >>) = 0 /\ DOMAIN << >> = {}
  OBVIOUS
<1>3. SentInv
  BY <1>1, <1>2 DEF SentInv
<1>4. AnswersInv
  BY <1>1, <1>2 DEF AnswersInv
<1>5. ResponsesInv
  BY <1>1, <1>2 DEF ResponsesInv
<1>6. HoldingInv
  BY <1>1, <1>2 DEF HoldingInv
<1> QED  BY <1>3, <1>4, <1>5, <1>6 DEF MappingInv

(* One more at the end. *)
Extended(s, e, new) ==
  /\ \E X : new \in Seq(X)
  /\ Len(s) \in Nat /\ Len(new) = Len(s) + 1 /\ new[Len(s) + 1] = e
  /\ \A i \in 1..Len(s) : new[i] = s[i]

(* Append puts one more at the end. *)
LEMMA AppendIs ==
  ASSUME NEW s, \E X : s \in Seq(X), NEW e
  PROVE  Extended(s, e, Append(s, e))
<1>1. PICK X : s \in Seq(X)
  OBVIOUS
<1>2. PICK Y : Y = X \cup {e}
  OBVIOUS
<1>3. s \in Seq(Y) /\ e \in Y
  BY <1>1, <1>2
<1>4. Append(s, e) \in Seq(Y)
  BY <1>3
<1>5. Len(s) \in Nat /\ Len(Append(s, e)) = Len(s) + 1 /\ Append(s, e)[Len(s) + 1] = e
      /\ \A i \in 1..Len(s) : Append(s, e)[i] = s[i]
  BY <1>3
<1> QED  BY <1>4, <1>5 DEF Extended

(* An opening or a charge as it is due. *)
LEMMA DueIs ==
  ASSUME NEW json \in Due, \E X : sent \in Seq(X)
  PROVE  \/ sent = << >> /\ Len(sent) = 0 /\ json \in Openings \cup Incomplete
         \/ /\ Len(sent) = 1 /\ Len(responses) = 1 /\ Quoted(sent[1].json)
            /\ json \in Charges(sent[1].json)
<1>1. CASE sent = << >>
  BY <1>1 DEF Due
<1>2. CASE sent # << >> /\ Len(sent) = 1 /\ Len(responses) = 1 /\ responses[1].result = 0
            /\ msgTypetoRequestType(sent[1].json.msg_type_id) = "QUOTE"
  BY <1>2 DEF Due, Quoted
<1>3. CASE sent # << >> /\ ~(Len(sent) = 1 /\ Len(responses) = 1 /\ responses[1].result = 0
            /\ msgTypetoRequestType(sent[1].json.msg_type_id) = "QUOTE")
  BY <1>3 DEF Due
<1> QED  BY <1>1, <1>2, <1>3

(* What a message says of itself stays with its request. *)
LEMMA ParsedIs ==
  ASSUME NEW json, NEW incoming
  PROVE  LET request == parseJsonMessage(json, incoming)
         IN  /\ request.sessionIdStr = sessionIdStr(json) /\ request.id = json.id
             /\ request.sessionId = Get(json, "session_id", 0) /\ request.responseTube = json.tube_resp
             /\ request.operation = json.operation /\ request.msgTypeId = json.msg_type_id
BY DEF parseJsonMessage

(* A message that is due is sent and held. *)
LEMMA RequestKeeps ==
  ASSUME MappingInv, Request
  PROVE  MappingInv'
<1>0. PICK json \in Due : ~Refused(json) /\ handleMQMessage(json)
  BY DEF Request, handleMQMessage
<1>1. PICK incoming \in Incoming(json) :
        /\ ~Refused(json)
        /\ LET request == parseJsonMessage(json, incoming)
           IN  /\ holding' = [s \in DOMAIN holding \cup {request.sessionIdStr} |->
                               IF s = request.sessionIdStr THEN request ELSE holding[s]]
               /\ sent' = Append(sent, [json |-> json, read |-> Received(CCR(request))])
        /\ answers' = answers /\ responses' = responses
  BY <1>0 DEF handleMQMessage
<1>2. PICK request : request = parseJsonMessage(json, incoming)
  OBVIOUS
<1>3. PICK e : e = [json |-> json, read |-> Received(CCR(request))]
  OBVIOUS
<1>4. e.json = json /\ e.read = Received(CCR(parseJsonMessage(json, incoming)))
  BY <1>2, <1>3
<1>5. incoming \in BOOLEAN
  BY DEF Incoming
<1>6. \E X : sent \in Seq(X)
  BY DEF MappingInv, SentInv
<1>7. sent' = Append(sent, e)
  BY <1>1, <1>2, <1>3
<1>8. PICK n \in Nat : n = Len(sent)
  BY <1>6
<1>9. /\ \E X : sent' \in Seq(X)
      /\ Len(sent') = n + 1 /\ sent'[n + 1] = e
      /\ \A i \in 1..n : sent'[i] = sent[i]
  <2>1. Extended(sent, e, sent')
    BY <1>6, <1>7, AppendIs
  <2> QED  BY <1>8, <2>1 DEF Extended
<1>10. \/ n = 0 /\ json \in Openings \cup Incomplete
       \/ n = 1 /\ Len(responses) = 1 /\ Quoted(sent[1].json) /\ json \in Charges(sent[1].json)
  BY <1>6, <1>8, DueIs
<1>11. SentInv'
  <2>1. \A i \in 1 .. n + 1 : \E b \in BOOLEAN : SentAs(sent[i].json, b, i)'
    <3> SUFFICES ASSUME NEW i \in 1 .. n + 1 PROVE \E b \in BOOLEAN : SentAs(sent[i].json, b, i)'
      OBVIOUS
    <3>1. CASE i = n + 1
      BY <1>4, <1>5, <1>9, <3>1 DEF SentAs
    <3>2. CASE i # n + 1
      <4>1. i \in 1..n
        BY <3>2
      <4>2. PICK b \in BOOLEAN : SentAs(sent[i].json, b, i)
        BY <1>8, <4>1 DEF MappingInv, SentInv
      <4> QED  BY <1>9, <4>1, <4>2 DEF SentAs
    <3> QED  BY <3>1, <3>2
  <2>2. \A i \in 1 .. n + 1 : ~Refused(sent'[i].json)
    <3>1. \A i \in 1..n : ~Refused(sent[i].json)
      BY <1>8 DEF MappingInv, SentInv
    <3>2. \A i \in 1 .. n + 1 : i \in 1..n \/ i = n + 1
      OBVIOUS
    <3> QED  BY <1>1, <1>4, <1>9, <3>1, <3>2
  <2>3. sent'[1].json \in Openings \cup Incomplete
    <3>1. n = 1 => sent[1].json \in Openings \cup Incomplete
      BY <1>8 DEF MappingInv, SentInv
    <3> QED  BY <1>4, <1>9, <1>10, <3>1
  <2>4. n + 1 = 2 => Quoted(sent'[1].json) /\ sent'[2].json \in Charges(sent'[1].json)
    BY <1>4, <1>9, <1>10
  <2>5. (Openings \cup Incomplete)' = Openings \cup Incomplete
    BY DEF Openings, Incomplete
  <2> QED  BY <1>9, <1>10, <2>1, <2>2, <2>3, <2>4, <2>5 DEF SentInv
<1>12. AnswersInv'
  BY <1>1, <1>8, <1>9 DEF MappingInv, AnswersInv
<1>13. ResponsesInv'
  <2>1. \A i \in 1..Len(responses) : i \in 1..n
    BY <1>6, <1>8 DEF MappingInv, AnswersInv, ResponsesInv
  <2>2. ASSUME NEW i \in 1..Len(responses) PROVE ResponseTo(sent'[i].json, sent'[i].read, answers'[i], responses'[i])
    <3>1. ResponseTo(sent[i].json, sent[i].read, answers[i], responses[i])
      BY DEF MappingInv, ResponsesInv
    <3>2. sent'[i] = sent[i]
      BY <1>9, <2>1
    <3> QED  BY <1>1, <3>1, <3>2
  <2>3. n + 1 = 2 => Len(responses) >= 1
    <3>1. n = 1 => Len(responses) = 1
      <4>1. ~(n = 0 /\ n = 1)
        OBVIOUS
      <4> QED  BY <1>10, <4>1, Zenon
    <3>2. PICK r : r = Len(responses)
      OBVIOUS
    <3>3. r = 1 => r >= 1
      OBVIOUS
    <3>4. n + 1 = 2 => n = 1
      OBVIOUS
    <3> QED  BY <3>1, <3>2, <3>3, <3>4, Zenon
  <2> QED  BY <1>1, <1>9, <2>2, <2>3 DEF MappingInv, ResponsesInv
<1>14. HoldingInv'
  <2>1. Len(responses) = n
    <3>1. PICK r \in Nat : r = Len(responses)
      BY DEF MappingInv, ResponsesInv
    <3>2. PICK a \in Nat : a = Len(answers)
      BY DEF MappingInv, AnswersInv
    <3>3. r <= a /\ a <= n
      BY <1>8, <3>1, <3>2 DEF MappingInv, AnswersInv, ResponsesInv
    <3>4. n = 0 \/ (n = 1 /\ r = 1)
      BY <1>10, <3>1
    <3>5. r = n
      BY <3>3, <3>4
    <3> QED  BY <3>1, <3>5
  <2>2. DOMAIN holding = {}
    BY <1>8, <2>1 DEF MappingInv, HoldingInv
  <2>3. request.sessionIdStr = sessionIdStr(json)
    BY <1>2, ParsedIs
  <2>4. DOMAIN holding' = {sessionIdStr(json)} /\ holding'[sessionIdStr(json)] = request
    BY <1>1, <1>2, <2>2, <2>3
  <2>5. responses' = responses /\ n + 1 # n /\ sent'[Len(sent')].json = json /\ Len(sent') = n + 1
    BY <1>1, <1>4, <1>9
  <2> QED  BY <1>2, <1>5, <2>1, <2>4, <2>5 DEF HoldingInv
<1> QED  BY <1>11, <1>12, <1>13, <1>14 DEF MappingInv

(* The OCS answers. *)
LEMMA AnswerKeeps ==
  ASSUME MappingInv, Answer
  PROVE  MappingInv'
<1>1. PICK cca : /\ Len(answers) < Len(sent) /\ cca.SessionId = sent[Len(sent)].read.vals["SessionId"]
                 /\ cca.ResultCode \in {2001, 4012}
                 /\ answers' = Append(answers, cca)
                 /\ holding' = holding /\ sent' = sent /\ responses' = responses
  BY DEF Answer
<1>2. PICK n \in Nat : n = Len(answers)
  BY DEF MappingInv, AnswersInv
<1>3. /\ \E X : answers' \in Seq(X)
      /\ Len(answers') = n + 1 /\ answers'[n + 1] = cca /\ \A i \in 1..n : answers'[i] = answers[i]
  <2>1. Extended(answers, cca, answers')
    BY <1>1, AppendIs DEF MappingInv, AnswersInv
  <2> QED  BY <1>2, <2>1 DEF Extended
<1>4. Len(sent) = n + 1
  <2>1. PICK r \in Nat : r = Len(responses)
    BY DEF MappingInv, ResponsesInv
  <2>2. PICK k \in Nat : k = Len(sent)
    BY DEF MappingInv, SentInv
  <2>3. k <= 2 /\ r <= n /\ (k = 2 => r >= 1) /\ n < k
    BY <1>1, <1>2, <2>1, <2>2 DEF MappingInv, SentInv, ResponsesInv
  <2>4. k = n + 1
    BY <2>3
  <2> QED  BY <2>2, <2>4
<1>5. SentInv'
  <2>1. \A i \in 1..Len(sent) : \E b \in BOOLEAN : SentAs(sent[i].json, b, i)'
    BY <1>1 DEF MappingInv, SentInv, SentAs
  <2>2. (Openings \cup Incomplete)' = Openings \cup Incomplete
    BY DEF Openings, Incomplete
  <2> QED  BY <1>1, <2>1, <2>2 DEF MappingInv, SentInv
<1>6. AnswersInv'
  <2>1. \A i \in 1 .. n + 1 :
          answers'[i].SessionId = sent[i].read.vals["SessionId"] /\ answers'[i].ResultCode \in {2001, 4012}
    <3>1. \A i \in 1 .. n + 1 : i \in 1..n \/ i = n + 1
      OBVIOUS
    <3>2. \A i \in 1..n :
            answers[i].SessionId = sent[i].read.vals["SessionId"] /\ answers[i].ResultCode \in {2001, 4012}
      BY <1>2 DEF MappingInv, AnswersInv
    <3> QED  BY <1>1, <1>3, <1>4, <3>1, <3>2
  <2> QED  BY <1>1, <1>3, <1>4, <2>1 DEF AnswersInv
<1>7. ResponsesInv'
  <2>1. \A i \in 1..Len(responses) : i \in 1..n
    BY <1>2 DEF MappingInv, ResponsesInv
  <2>2. ASSUME NEW i \in 1..Len(responses) PROVE ResponseTo(sent'[i].json, sent'[i].read, answers'[i], responses'[i])
    <3>1. ResponseTo(sent[i].json, sent[i].read, answers[i], responses[i])
      BY DEF MappingInv, ResponsesInv
    <3> QED  BY <1>1, <1>3, <2>1, <3>1
  <2> QED  BY <1>1, <1>2, <1>3, <2>2 DEF MappingInv, ResponsesInv
<1>8. HoldingInv'
  <2>1. holding' = holding /\ sent' = sent /\ responses' = responses
    BY <1>1
  <2> QED  BY <2>1, Zenon DEF MappingInv, HoldingInv
<1> QED  BY <1>5, <1>6, <1>7, <1>8 DEF MappingInv

(* The members of a response that say which request it answers. *)
LEMMA ResponseIs ==
  ASSUME NEW request, NEW cca, cca.ResultCode \in {2001, 4012}
  PROVE  LET response == createJsonResponseMessage(request, cca)
         IN  /\ response.id = request.id /\ response.session_id = request.sessionId
             /\ response.tube_resp = request.responseTube /\ response.operation = request.operation
             /\ response.msg_type_id = request.msgTypeId
             /\ response.result = 0 <=> cca.ResultCode = 2001
<1>1. PICK result : result = IF cca.ResultCode = 2001 THEN 0 ELSE cca.ResultCode
  OBVIOUS
<1>2. result = 0 <=> cca.ResultCode = 2001
  BY <1>1
<1>3. PICK reply : reply = Reply(request, cca, result)
  OBVIOUS
<1> DEFINE names == {"id", "session_id", "tube_resp", "operation", "msg_type_id", "result"}
           extended == IF cca.ResultCodeExt > 0 THEN [result_code_extended |-> cca.ResultCodeExt] ELSE << >>
           error == IF cca.ErrorMessage = Unset THEN << >> ELSE [error_msg |-> cca.ErrorMessage]
<1>4. names \subseteq DOMAIN reply
  BY <1>3 DEF Reply
<1>5. \A n : n \in names <=> n \in {"id", "session_id", "tube_resp", "operation", "msg_type_id", "result"}
  OBVIOUS
<1>6. createJsonResponseMessage(request, cca) = Beside(Beside(reply, extended), error)
  BY <1>1, <1>3 DEF createJsonResponseMessage
<1> HIDE DEF names, extended, error
<1>7. \A f, g : names \subseteq DOMAIN f => names \subseteq DOMAIN Beside(f, g) /\ \A n \in names : Beside(f, g)[n] = f[n]
  BY DEF Beside
<1>8. PICK response : response = Beside(Beside(reply, extended), error)
  OBVIOUS
<1>9. createJsonResponseMessage(request, cca) = response
  BY <1>6, <1>8
<1>10. \A n \in names : response[n] = reply[n]
  BY <1>4, <1>7, <1>8
<1>11. /\ reply.id = request.id /\ reply.session_id = request.sessionId
       /\ reply.tube_resp = request.responseTube /\ reply.operation = request.operation
       /\ reply.msg_type_id = request.msgTypeId /\ reply.result = result
  BY <1>3 DEF Reply
<1> QED  BY <1>2, <1>5, <1>9, <1>10, <1>11

(* The answer to the request that waits is told to its requester. *)
LEMMA ReplyKeeps ==
  ASSUME MappingInv, OnReceiveCCA
  PROVE  MappingInv'
<1>1. PICK r \in Nat : r = Len(responses)
  BY DEF MappingInv, ResponsesInv
<1>2. PICK n \in Nat : n = Len(answers)
  BY DEF MappingInv, AnswersInv
<1>3. PICK k \in Nat : k = Len(sent)
  BY DEF MappingInv, SentInv
<1>4. n = k /\ r + 1 = k /\ k # 0
  <2>1. r < n /\ n <= k /\ k <= 2 /\ (k = 2 => r >= 1)
    BY <1>1, <1>2, <1>3 DEF OnReceiveCCA, MappingInv, SentInv, AnswersInv, ResponsesInv
  <2> QED  BY <2>1
<1>5. PICK cca : cca = answers[n]
  OBVIOUS
<1>6. /\ cca.SessionId \in DOMAIN holding
      /\ responses' = Append(responses, createJsonResponseMessage(holding[cca.SessionId], cca))
      /\ holding' = Restrict(holding, DOMAIN holding \ {cca.SessionId})
      /\ sent' = sent /\ answers' = answers
  BY <1>2, <1>5 DEF OnReceiveCCA
<1>7. PICK json : json = sent[k].json
  OBVIOUS
<1>8. PICK incoming \in BOOLEAN : /\ DOMAIN holding = {sessionIdStr(json)}
                                  /\ holding[sessionIdStr(json)] = parseJsonMessage(json, incoming)
  <2>1. Len(responses) # Len(sent)
    BY <1>1, <1>3, <1>4
  <2> QED  BY <1>3, <1>7, <2>1 DEF MappingInv, HoldingInv
<1>9. PICK request : request = parseJsonMessage(json, incoming)
  OBVIOUS
<1>10. holding[cca.SessionId] = request /\ DOMAIN holding' = {}
  BY <1>6, <1>8, <1>9 DEF Restrict
<1>11. PICK response : response = createJsonResponseMessage(request, cca)
  OBVIOUS
<1>12. /\ \E X : responses' \in Seq(X)
       /\ Len(responses') = k /\ responses'[k] = response /\ \A i \in 1..r : responses'[i] = responses[i]
  <2>1. Extended(responses, response, responses')
    BY <1>6, <1>10, <1>11, AppendIs DEF MappingInv, ResponsesInv
  <2> QED  BY <1>1, <1>4, <2>1 DEF Extended
<1>13. cca.SessionId = sent[k].read.vals["SessionId"] /\ cca.ResultCode \in {2001, 4012}
  BY <1>2, <1>4, <1>5 DEF MappingInv, AnswersInv
<1>14. ResponseTo(json, sent[k].read, cca, response)
  BY <1>9, <1>11, <1>13, ParsedIs, ResponseIs DEF ResponseTo
<1>15. SentInv'
  <2>1. \A i \in 1..Len(sent) : \E b \in BOOLEAN : SentAs(sent[i].json, b, i)'
    BY <1>6 DEF MappingInv, SentInv, SentAs
  <2>2. (Openings \cup Incomplete)' = Openings \cup Incomplete
    BY DEF Openings, Incomplete
  <2> QED  BY <1>6, <2>1, <2>2 DEF MappingInv, SentInv
<1>16. AnswersInv'
  BY <1>6 DEF MappingInv, AnswersInv
<1>17. ResponsesInv'
  <2>1. \A i \in 1..k : i \in 1..r \/ i = k
    BY <1>4
  <2>2. \A i \in 1..r : ResponseTo(sent[i].json, sent[i].read, answers[i], responses[i])
    BY <1>1 DEF MappingInv, ResponsesInv
  <2>3. \A i \in 1..k : ResponseTo(sent'[i].json, sent'[i].read, answers'[i], responses'[i])
    BY <1>4, <1>5, <1>6, <1>7, <1>12, <1>14, <2>1, <2>2
  <2>4. k >= 1
    BY <1>4
  <2>5. Len(answers') = k /\ Len(sent') = k
    BY <1>2, <1>3, <1>4, <1>6
  <2> QED  BY <1>12, <2>3, <2>4, <2>5 DEF ResponsesInv
<1>18. HoldingInv'
  BY <1>3, <1>6, <1>10, <1>12 DEF HoldingInv
<1> QED  BY <1>15, <1>16, <1>17, <1>18 DEF MappingInv

(* Every step of the mapping keeps MappingInv. *)
LEMMA MappingInvNext == MappingInv /\ [MappingNext]_mappingVars => MappingInv'
<1> SUFFICES ASSUME MappingInv, [MappingNext]_mappingVars PROVE MappingInv'
  OBVIOUS
<1>1. CASE Request
  BY <1>1, RequestKeeps
<1>2. CASE Answer
  BY <1>2, AnswerKeeps
<1>3. CASE OnReceiveCCA
  BY <1>3, ReplyKeeps
<1>4. CASE UNCHANGED mappingVars
  <2>1. holding' = holding /\ sent' = sent /\ answers' = answers /\ responses' = responses
    BY <1>4 DEF mappingVars
  <2>2. \A i \in 1..Len(sent) : \E b \in BOOLEAN : SentAs(sent[i].json, b, i)'
    BY <2>1 DEF MappingInv, SentInv, SentAs
  <2>3. (Openings \cup Incomplete)' = Openings \cup Incomplete
    BY DEF Openings, Incomplete
  <2>4. SentInv'
    BY <2>1, <2>2, <2>3 DEF MappingInv, SentInv
  <2>5. AnswersInv' /\ ResponsesInv'
    BY <2>1 DEF MappingInv, AnswersInv, ResponsesInv
  <2>6. HoldingInv'
    BY <2>1, Zenon DEF MappingInv, HoldingInv
  <2> QED  BY <2>4, <2>5, <2>6 DEF MappingInv
<1> QED  BY <1>1, <1>2, <1>3, <1>4 DEF MappingNext

(* Whatever requesters send and the OCS answers, a response goes to the    *)
(* request it answers and is a success when and only when that was granted. *)
THEOREM MappingResponseFits == MappingSpec => []ResponseFits
<1>1. MappingInv => ResponseFits
  <2> SUFFICES ASSUME MappingInv PROVE ResponseFits
    OBVIOUS
  <2>1. DOMAIN responses = 1..Len(responses)
    BY DEF MappingInv, ResponsesInv
  <2>2. \A i \in 1..Len(responses) : ResponseTo(sent[i].json, sent[i].read, answers[i], responses[i])
    BY DEF MappingInv, ResponsesInv
  <2> QED  BY <2>1, <2>2 DEF ResponseFits, ResponseTo
<1> QED  BY <1>1, MappingInvInit, MappingInvNext, PTL DEF MappingSpec

(* The holding map is keyed by the Session-Ids of its requests, and        *)
(* nothing is answered twice.                                              *)
THEOREM MappingTypeCorrect == MappingSpec => []MappingTypeOK
<1>1. MappingInv => MappingTypeOK
  <2> SUFFICES ASSUME MappingInv PROVE MappingTypeOK
    OBVIOUS
  <2>1. \A s \in DOMAIN holding : holding[s].sessionIdStr = s
    BY ParsedIs DEF MappingInv, HoldingInv
  <2> QED  BY <2>1 DEF MappingTypeOK, MappingInv, SentInv, AnswersInv, ResponsesInv
<1> QED  BY <1>1, MappingInvInit, MappingInvNext, PTL DEF MappingSpec

----------------------------------------------------------------------------
(* The setters a CCR is built with, in several parts.                      *)

(* The setters that sendCCR calls.                                         *)
SetterNames ==
  {"SessionId", "ServiceIdentifier", "AuthApplicationId", "Timezone", "RequestedAction", "RequestType",
   "RequestNumber", "TrafficCase", "SubscriptionIdLocation", "SubscriptionIdType", "SubscriptionIdData",
   "OtherPartyIdType", "OtherPartyIdNature", "OtherPartyIdData", "Time", "TotalOctets", "ServiceSpecificUnits"}

(* Setters of different names out of a set.                                *)
Calls(names, with) ==
  /\ with \in Seq(SetterNames \X Int)
  /\ \A i \in 1..Len(with) : with[i][1] \in names
  /\ \A i, j \in 1..Len(with) : with[i][1] = with[j][1] => i = j

Gives(with, name, v) == \E j \in 1..Len(with) : with[j][1] = name /\ with[j][2] = v

Join(u, v) == u \o v

(* Names that are set as they are given. *)
Named(k, names) ==
  \A name \in names : name # "ResultCodeExt" /\ \E row \in Writes[k] : IsValue(row) /\ row.name = name

(* Setters of different names, called one after the other. *)
LEMMA CallsJoin ==
  ASSUME NEW N1, NEW N2, N1 \cap N2 = {}, NEW u, Calls(N1, u), NEW v, Calls(N2, v)
  PROVE  /\ Calls(N1 \cup N2, Join(u, v))
         /\ \A name, x : Gives(u, name, x) \/ Gives(v, name, x) => Gives(Join(u, v), name, x)
<1>1. u \in Seq(SetterNames \X Int) /\ v \in Seq(SetterNames \X Int)
  BY DEF Calls
<1>2. PICK w : w = Join(u, v)
  OBVIOUS
<1>3. PICK a \in Nat, b \in Nat : a = Len(u) /\ b = Len(v)
  BY <1>1
<1>4. /\ w \in Seq(SetterNames \X Int) /\ Len(w) = a + b
      /\ \A i \in 1..a : w[i] = u[i]
      /\ \A i \in 1..b : w[a + i] = v[i]
  BY <1>1, <1>2, <1>3 DEF Join
<1>5. \A i \in 1 .. a + b : i \in 1..a \/ \E j \in 1..b : i = a + j
  <2> SUFFICES ASSUME NEW i \in 1 .. a + b, i \notin 1..a PROVE \E j \in 1..b : i = a + j
    OBVIOUS
  <2>1. i - a \in 1..b /\ i = a + (i - a)
    OBVIOUS
  <2> QED  BY <2>1
<1>6. /\ \A i \in 1..a : u[i][1] \in N1
      /\ \A i, j \in 1..a : u[i][1] = u[j][1] => i = j
      /\ \A i \in 1..b : v[i][1] \in N2
      /\ \A i, j \in 1..b : v[i][1] = v[j][1] => i = j
  BY <1>3 DEF Calls
<1>7. ASSUME NEW i \in 1 .. a + b
      PROVE  \/ i \in 1..a /\ w[i][1] = u[i][1] /\ w[i][1] \in N1
             \/ \E j \in 1..b : i = a + j /\ w[i][1] = v[j][1] /\ w[i][1] \in N2
  <2>1. CASE i \in 1..a
    BY <1>4, <1>6, <2>1
  <2>2. CASE i \notin 1..a
    <3>1. PICK j \in 1..b : i = a + j
      BY <1>5, <2>2
    <3>2. w[i] = v[j]
      BY <1>4, <3>1
    <3> QED  BY <1>6, <3>1, <3>2
  <2> QED  BY <2>1, <2>2
<1>8. ASSUME NEW i \in 1 .. a + b, NEW j \in 1 .. a + b, w[i][1] = w[j][1] PROVE i = j
  <2>1. CASE w[i][1] \in N1
    <3>1. i \in 1..a /\ w[i][1] = u[i][1] /\ j \in 1..a /\ w[j][1] = u[j][1]
      BY <1>7, <1>8, <2>1
    <3> QED  BY <1>6, <1>8, <3>1
  <2>2. CASE w[i][1] \notin N1
    <3>1. PICK c \in 1..b : i = a + c /\ w[i][1] = v[c][1]
      BY <1>7, <2>2
    <3>2. PICK d \in 1..b : j = a + d /\ w[j][1] = v[d][1]
      BY <1>7, <1>8, <2>2
    <3>3. c = d
      BY <1>6, <1>8, <3>1, <3>2
    <3> QED  BY <3>1, <3>2, <3>3
  <2> QED  BY <2>1, <2>2
<1>9. Calls(N1 \cup N2, w)
  <2>1. \A i \in 1 .. a + b : w[i][1] \in N1 \cup N2
    BY <1>7
  <2> QED  BY <1>4, <1>8, <2>1 DEF Calls
<1>10. ASSUME NEW name, NEW x, Gives(u, name, x) PROVE Gives(w, name, x)
  <2>1. PICK i \in 1..a : u[i][1] = name /\ u[i][2] = x
    BY <1>3, <1>10 DEF Gives
  <2>2. i \in 1 .. a + b
    OBVIOUS
  <2> QED  BY <1>4, <2>1, <2>2 DEF Gives
<1>11. ASSUME NEW name, NEW x, Gives(v, name, x) PROVE Gives(w, name, x)
  <2>1. PICK i \in 1..b : v[i][1] = name /\ v[i][2] = x
    BY <1>3, <1>11 DEF Gives
  <2>2. PICK j \in 1 .. a + b : j = a + i
    OBVIOUS
  <2> QED  BY <1>4, <2>1, <2>2 DEF Gives
<1> QED  BY <1>2, <1>9, <1>10, <1>11

(* Setters of different names are setters of the class when the class has them. *)
LEMMA CallsSet ==
  ASSUME NEW k, NEW names, Named(k, names), NEW with, Calls(names, with)
  PROVE  Setters(k, with)
<1>1. with \in Seq(SetterNames \X Int)
  BY DEF Calls
<1>2. Len(with) \in Nat /\ \A i \in 1..Len(with) : with[i] \in SetterNames \X Int
  BY <1>1
<1>3. \A p \in SetterNames \X Int : p[2] \in Int
  OBVIOUS
<1>4. \A i \in 1..Len(with) : with[i][2] \in Int
  BY <1>2, <1>3
<1> QED  BY <1>2, <1>4 DEF Calls, Named, Setters

(* The shortest lists. *)
LEMMA FourCalls ==
  ASSUME NEW p1 \in SetterNames \X Int, NEW p2 \in SetterNames \X Int, NEW p3 \in SetterNames \X Int, NEW p4 \in SetterNames \X Int,
         p1[1] # p2[1], p1[1] # p3[1], p1[1] # p4[1], p2[1] # p3[1], p2[1] # p4[1], p3[1] # p4[1]
  PROVE  /\ Calls({p1[1], p2[1], p3[1], p4[1]}, <<p1, p2, p3, p4>>)
         /\ \A p \in {p1, p2, p3, p4} : Gives(<<p1, p2, p3, p4>>, p[1], p[2])
<1>1. PICK with : with = <<p1, p2, p3, p4>>
  OBVIOUS
<1>2. /\ with \in Seq(SetterNames \X Int) /\ Len(with) = 4
      /\ with[1] = p1 /\ with[2] = p2 /\ with[3] = p3 /\ with[4] = p4
  BY <1>1
<1>3. 1..4 = {1, 2, 3, 4}
  OBVIOUS
<1>4. \A i \in 1..4 : with[i][1] \in {p1[1], p2[1], p3[1], p4[1]}
  BY <1>2, <1>3
<1>5. \A i, j \in 1..4 : with[i][1] = with[j][1] => i = j
  BY <1>2, <1>3
<1>6. Calls({p1[1], p2[1], p3[1], p4[1]}, with)
  BY <1>2, <1>4, <1>5 DEF Calls
<1>7. \A p \in {p1, p2, p3, p4} : \E i \in 1..4 : with[i] = p
  BY <1>2, <1>3
<1>8. \A p \in {p1, p2, p3, p4} : Gives(with, p[1], p[2])
  BY <1>2, <1>7 DEF Gives
<1> QED  BY <1>1, <1>6, <1>8

(* Three of them. *)
LEMMA ThreeCalls ==
  ASSUME NEW p1 \in SetterNames \X Int, NEW p2 \in SetterNames \X Int, NEW p3 \in SetterNames \X Int,
         p1[1] # p2[1], p1[1] # p3[1], p2[1] # p3[1]
  PROVE  /\ Calls({p1[1], p2[1], p3[1]}, <<p1, p2, p3>>)
         /\ \A p \in {p1, p2, p3} : Gives(<<p1, p2, p3>>, p[1], p[2])
<1>1. PICK with : with = <<p1, p2, p3>>
  OBVIOUS
<1>2. with \in Seq(SetterNames \X Int) /\ Len(with) = 3 /\ with[1] = p1 /\ with[2] = p2 /\ with[3] = p3
  BY <1>1
<1>3. 1..3 = {1, 2, 3}
  OBVIOUS
<1>4. \A i \in 1..3 : with[i][1] \in {p1[1], p2[1], p3[1]}
  BY <1>2, <1>3
<1>5. \A i, j \in 1..3 : with[i][1] = with[j][1] => i = j
  BY <1>2, <1>3
<1>6. Calls({p1[1], p2[1], p3[1]}, with)
  BY <1>2, <1>4, <1>5 DEF Calls
<1>7. \A p \in {p1, p2, p3} : \E i \in 1..3 : with[i] = p
  BY <1>2, <1>3
<1>8. \A p \in {p1, p2, p3} : Gives(with, p[1], p[2])
  BY <1>2, <1>7 DEF Gives
<1> QED  BY <1>1, <1>6, <1>8

(* Two of them. *)
LEMMA TwoCalls ==
  ASSUME NEW p1 \in SetterNames \X Int, NEW p2 \in SetterNames \X Int, p1[1] # p2[1]
  PROVE  /\ Calls({p1[1], p2[1]}, <<p1, p2>>)
         /\ \A p \in {p1, p2} : Gives(<<p1, p2>>, p[1], p[2])
<1>1. PICK with : with = <<p1, p2>>
  OBVIOUS
<1>2. with \in Seq(SetterNames \X Int) /\ Len(with) = 2 /\ with[1] = p1 /\ with[2] = p2
  BY <1>1
<1>3. 1..2 = {1, 2}
  OBVIOUS
<1>4. Calls({p1[1], p2[1]}, with)
  BY <1>2, <1>3 DEF Calls
<1>5. \A p \in {p1, p2} : \E i \in 1..2 : with[i] = p
  BY <1>2, <1>3
<1>6. \A p \in {p1, p2} : Gives(with, p[1], p[2])
  BY <1>2, <1>5 DEF Gives
<1> QED  BY <1>1, <1>4, <1>6

(* One of them. *)
LEMMA OneCall ==
  ASSUME NEW p \in SetterNames \X Int
  PROVE  Calls({p[1]}, <<p>>) /\ Gives(<<p>>, p[1], p[2])
<1>1. PICK with : with = <<p>>
  OBVIOUS
<1>2. with \in Seq(SetterNames \X Int) /\ Len(with) = 1 /\ with[1] = p
  BY <1>1
<1>3. \A i \in 1..1 : i = 1
  OBVIOUS
<1>4. 1 \in 1..1
  OBVIOUS
<1>5. Calls({p[1]}, with)
  BY <1>2, <1>3 DEF Calls
<1>6. Gives(with, p[1], p[2])
  BY <1>2, <1>4 DEF Gives
<1> QED  BY <1>1, <1>5, <1>6

(* A setter's name with the number it is called with. *)
LEMMA ANumberNamed ==
  ASSUME NEW name \in SetterNames, NEW v \in Int
  PROVE  \E p \in SetterNames \X Int : p = <<name, v>> /\ p[1] = name /\ p[2] = v
<1> DEFINE p == <<name, v>>
<1>1. p \in SetterNames \X Int /\ p[1] = name /\ p[2] = v
  OBVIOUS
<1> HIDE DEF p
<1>2. p \in SetterNames \X Int /\ p = p /\ p[1] = name /\ p[2] = v
  BY <1>1
<1>3. \E q \in SetterNames \X Int : q = p /\ q[1] = name /\ q[2] = v
  BY <1>2
<1> QED  BY <1>3 DEF p

(* A request as parseJsonMessage makes it. *)
IsRequest(request) ==
  /\ request.requestType \in {"DIRECT_DEBIT", "QUOTE", "CHARGE"}
  /\ request.sessionIdStr \in Int /\ request.serviceType \in Int /\ request.units \in Int
  /\ request.location \in Int /\ request.otherNum \in Int /\ request.msisdn \in Int
  /\ DOMAIN request.spi \subseteq Nat /\ IsFiniteSet(DOMAIN request.spi)
  /\ \A number \in DOMAIN request.spi : request.spi[number] \in Int \ {Unset}

(* The setters of the CCR itself. *)
OwnNames ==
  {"SessionId", "ServiceIdentifier", "AuthApplicationId", "Timezone", "RequestedAction", "RequestType",
   "RequestNumber", "TrafficCase", "SubscriptionIdLocation"}

(* A CCR has the members that sendCCR sets. *)
LEMMA OwnNamed == Named("CCR", OwnNames)
<1>1. \A name, code, vendor, form : Value(name, code, vendor, form).name = name /\ IsValue(Value(name, code, vendor, form))
  BY DEF Value, IsValue
<1>2. /\ Value("SessionId", 263, Plain, "text") \in Writes["CCR"]
      /\ Value("SubscriptionIdLocation", 1074, Vendor, "text") \in Writes["CCR"]
      /\ Value("AuthApplicationId", 258, Plain, "int") \in Writes["CCR"]
      /\ Value("RequestNumber", 415, Plain, "int") \in Writes["CCR"]
      /\ Value("ServiceIdentifier", 439, Plain, "int") \in Writes["CCR"]
      /\ Value("RequestType", 416, Plain, "int") \in Writes["CCR"]
      /\ Value("TrafficCase", 1082, Vendor, "int") \in Writes["CCR"]
      /\ Value("Timezone", 23, Vendor, "zone") \in Writes["CCR"]
      /\ Value("RequestedAction", 436, Plain, "int") \in Writes["CCR"]
  <2>1. Writes["CCR"] = CCRWrites
    BY DEF Writes
  <2> QED  BY <2>1, SMTT(30), ZenonT(30) DEF CCRWrites
<1>3. \A name \in OwnNames : \E row \in Writes["CCR"] : IsValue(row) /\ row.name = name
  BY <1>1, <1>2 DEF OwnNames
<1> QED  BY <1>3 DEF Named, OwnNames

(* What the request type stands for. *)
TypeNames(request) ==
  {"RequestType", "RequestNumber"} \cup (IF request.requestType = "DIRECT_DEBIT" THEN {"RequestedAction"} ELSE {})

Kind(request) ==
  CASE request.requestType = "DIRECT_DEBIT" -> 4 [] request.requestType = "QUOTE" -> 1
    [] request.requestType = "CHARGE" -> 3

(* The setters that tell the kind of a request. *)
LEMMA TypeCalls ==
  ASSUME NEW request, IsRequest(request)
  PROVE  /\ Calls(TypeNames(request), TypeAVPs(request))
         /\ Gives(TypeAVPs(request), "RequestType", Kind(request))
         /\ Gives(TypeAVPs(request), "RequestNumber", IF request.requestType = "CHARGE" THEN 1 ELSE 0)
<1>1. PICK kind \in Int, number \in Int : /\ kind = Kind(request)
                                          /\ number = IF request.requestType = "CHARGE" THEN 1 ELSE 0
  BY DEF Kind, IsRequest
<1>a. "RequestedAction" \in SetterNames /\ "RequestType" \in SetterNames /\ "RequestNumber" \in SetterNames
  BY DEF SetterNames
<1>f. 0 \in Int
  OBVIOUS
<1>b. PICK p1 \in SetterNames \X Int : p1 = <<"RequestedAction", 0>>
  BY <1>a, <1>f, ANumberNamed, Zenon
<1>c. PICK p2 \in SetterNames \X Int : p2 = <<"RequestType", kind>>
  BY <1>a, ANumberNamed, Zenon
<1>d. PICK p3 \in SetterNames \X Int : p3 = <<"RequestNumber", number>>
  BY <1>a, ANumberNamed, Zenon
<1>2. p1 = <<"RequestedAction", 0>> /\ p2 = <<"RequestType", kind>> /\ p3 = <<"RequestNumber", number>>
  BY <1>b, <1>c, <1>d
<1>3. /\ p1[1] = "RequestedAction" /\ p2[1] = "RequestType" /\ p3[1] = "RequestNumber"
      /\ p2[2] = kind /\ p3[2] = number
  BY <1>2
<1>4. CASE request.requestType = "DIRECT_DEBIT"
  <2>1. TypeAVPs(request) = <<p1, p2, p3>>
    BY <1>1, <1>2, <1>4 DEF TypeAVPs, Kind
  <2>2. /\ Calls({p1[1], p2[1], p3[1]}, <<p1, p2, p3>>)
        /\ \A p \in {p1, p2, p3} : Gives(<<p1, p2, p3>>, p[1], p[2])
    BY <1>3, ThreeCalls
  <2>3. {p1[1], p2[1], p3[1]} = TypeNames(request)
    BY <1>3, <1>4 DEF TypeNames
  <2>4. Gives(<<p1, p2, p3>>, "RequestType", kind) /\ Gives(<<p1, p2, p3>>, "RequestNumber", number)
    BY <1>3, <2>2, Zenon
  <2> QED  BY <1>1, <2>1, <2>2, <2>3, <2>4, Zenon
<1>5. CASE request.requestType # "DIRECT_DEBIT"
  <2>1. TypeAVPs(request) = <<p2, p3>>
    BY <1>1, <1>2, <1>5 DEF TypeAVPs, Kind, IsRequest
  <2>2. /\ Calls({p2[1], p3[1]}, <<p2, p3>>)
        /\ \A p \in {p2, p3} : Gives(<<p2, p3>>, p[1], p[2])
    BY <1>3, TwoCalls
  <2>3. {p2[1], p3[1]} = TypeNames(request)
    BY <1>3, <1>5 DEF TypeNames
  <2>4. Gives(<<p2, p3>>, "RequestType", kind) /\ Gives(<<p2, p3>>, "RequestNumber", number)
    BY <1>3, <2>2, Zenon
  <2> QED  BY <1>1, <2>1, <2>2, <2>3, <2>4, Zenon
<1> QED  BY <1>4, <1>5

(* What a CCR says of its session. *)
OwnGiven(request, with) ==
  /\ Gives(with, "SessionId", request.sessionIdStr) /\ Gives(with, "ServiceIdentifier", request.serviceType)
  /\ Gives(with, "RequestType", Kind(request))
  /\ Gives(with, "RequestNumber", IF request.requestType = "CHARGE" THEN 1 ELSE 0)

(* The setters that sendCCR calls of the CCR itself. *)
LEMMA OwnCalls ==
  ASSUME NEW request, IsRequest(request)
  PROVE  Setters("CCR", OwnAVPs(request)) /\ OwnGiven(request, OwnAVPs(request))
<1>a. /\ "SessionId" \in SetterNames /\ "ServiceIdentifier" \in SetterNames /\ "AuthApplicationId" \in SetterNames
      /\ "Timezone" \in SetterNames /\ "TrafficCase" \in SetterNames /\ "SubscriptionIdLocation" \in SetterNames
  BY DEF SetterNames
<1>f. 4 \in Int /\ 5 \in Int /\ request.sessionIdStr \in Int /\ request.serviceType \in Int /\ request.location \in Int
  BY DEF IsRequest
<1>b. PICK p1 \in SetterNames \X Int : p1 = <<"SessionId", request.sessionIdStr>>
  BY <1>a, <1>f, ANumberNamed, Zenon
<1>c. PICK p2 \in SetterNames \X Int : p2 = <<"ServiceIdentifier", request.serviceType>>
  BY <1>a, <1>f, ANumberNamed, Zenon
<1>d. PICK p3 \in SetterNames \X Int : p3 = <<"AuthApplicationId", 4>>
  BY <1>a, <1>f, ANumberNamed, Zenon
<1>e. PICK p4 \in SetterNames \X Int : p4 = <<"Timezone", 5>>
  BY <1>a, <1>f, ANumberNamed, Zenon
<1>1. /\ p1 = <<"SessionId", request.sessionIdStr>> /\ p2 = <<"ServiceIdentifier", request.serviceType>>
      /\ p3 = <<"AuthApplicationId", 4>> /\ p4 = <<"Timezone", 5>>
  BY <1>b, <1>c, <1>d, <1>e
<1>2. /\ p1[1] = "SessionId" /\ p2[1] = "ServiceIdentifier" /\ p3[1] = "AuthApplicationId" /\ p4[1] = "Timezone"
      /\ p1[2] = request.sessionIdStr /\ p2[2] = request.serviceType
  BY <1>1
<1> DEFINE A == {"SessionId", "ServiceIdentifier", "AuthApplicationId", "Timezone"}
<1>3. PICK a : a = <<p1, p2, p3, p4>>
  OBVIOUS
<1>4. Calls(A, a) /\ Gives(a, "SessionId", request.sessionIdStr) /\ Gives(a, "ServiceIdentifier", request.serviceType)
  <2>1. /\ Calls({p1[1], p2[1], p3[1], p4[1]}, <<p1, p2, p3, p4>>)
        /\ \A p \in {p1, p2, p3, p4} : Gives(<<p1, p2, p3, p4>>, p[1], p[2])
    BY <1>2, FourCalls
  <2>2. {p1[1], p2[1], p3[1], p4[1]} = A
    BY <1>2
  <2> QED  BY <1>2, <1>3, <2>1, <2>2
<1>5. PICK b : b = TypeAVPs(request)
  OBVIOUS
<1>6. /\ Calls(TypeNames(request), b) /\ Gives(b, "RequestType", Kind(request))
      /\ Gives(b, "RequestNumber", IF request.requestType = "CHARGE" THEN 1 ELSE 0)
  BY <1>5, TypeCalls
<1>7. PICK c : c = IF request.serviceType \in Timed
                   THEN << <<"TrafficCase", IF request.isIncoming THEN 21 ELSE 20>> >> ELSE << >>
  OBVIOUS
<1>8. Calls({"TrafficCase"}, c)
  <2>0. PICK v \in Int : v = IF request.isIncoming THEN 21 ELSE 20
    OBVIOUS
  <2>1. PICK p \in SetterNames \X Int : p = <<"TrafficCase", v>>
    BY <1>a, <1>f, ANumberNamed, Zenon
  <2>2. p[1] = "TrafficCase" /\ Calls({p[1]}, <<p>>)
    BY <2>1, OneCall
  <2>3. Calls({"TrafficCase"}, << >>)
    BY DEF Calls
  <2> QED  BY <1>7, <2>0, <2>1, <2>2, <2>3
<1>9. PICK d : d = IF request.location # Unset THEN << <<"SubscriptionIdLocation", request.location>> >> ELSE << >>
  OBVIOUS
<1>10. Calls({"SubscriptionIdLocation"}, d)
  <2>1. PICK p \in SetterNames \X Int : p = <<"SubscriptionIdLocation", request.location>>
    BY <1>a, <1>f, ANumberNamed, Zenon
  <2>2. p[1] = "SubscriptionIdLocation" /\ Calls({p[1]}, <<p>>)
    BY <2>1, OneCall
  <2>3. Calls({"SubscriptionIdLocation"}, << >>)
    BY DEF Calls
  <2> QED  BY <1>9, <2>1, <2>2, <2>3
<1>11. OwnAVPs(request) = Join(Join(Join(a, b), c), d)
  BY <1>1, <1>3, <1>5, <1>7, <1>9 DEF OwnAVPs, Join
<1> DEFINE B == TypeNames(request)
<1>12. /\ A \cap B = {} /\ (A \cup B) \cap {"TrafficCase"} = {}
       /\ (A \cup B \cup {"TrafficCase"}) \cap {"SubscriptionIdLocation"} = {}
       /\ A \cup B \cup {"TrafficCase"} \cup {"SubscriptionIdLocation"} \subseteq OwnNames
  BY DEF TypeNames, OwnNames
<1> HIDE DEF A, B
<1>13. PICK ab : ab = Join(a, b)
  OBVIOUS
<1>14. Calls(A \cup B, ab) /\ \A name, x : Gives(a, name, x) \/ Gives(b, name, x) => Gives(ab, name, x)
  BY <1>4, <1>6, <1>12, <1>13, CallsJoin, Zenon DEF B
<1>15. PICK abc : abc = Join(ab, c)
  OBVIOUS
<1>16. Calls(A \cup B \cup {"TrafficCase"}, abc) /\ \A name, x : Gives(ab, name, x) => Gives(abc, name, x)
  BY <1>8, <1>12, <1>14, <1>15, CallsJoin, Zenon
<1>17. PICK with : with = Join(abc, d)
  OBVIOUS
<1>18. /\ Calls(A \cup B \cup {"TrafficCase"} \cup {"SubscriptionIdLocation"}, with)
       /\ \A name, x : Gives(abc, name, x) => Gives(with, name, x)
  BY <1>10, <1>12, <1>16, <1>17, CallsJoin, Zenon
<1>19. Calls(OwnNames, with)
  BY <1>12, <1>18 DEF Calls
<1>20. Setters("CCR", with)
  BY <1>19, OwnNamed, CallsSet
<1>21. OwnGiven(request, with)
  BY <1>4, <1>6, <1>14, <1>16, <1>18, Zenon DEF OwnGiven
<1>22. OwnAVPs(request) = with
  BY <1>11, <1>13, <1>15, <1>17
<1> QED  BY <1>20, <1>21, <1>22

----------------------------------------------------------------------------
(* The children of a CCR.                                                  *)

ClassOf(name) == IF name \in {"RequestedServiceUnits", "UsedServiceUnits"} THEN "Units" ELSE name

ManyOf == {"SubscriptionId", "SPI"}

ChildrenSent == {"SubscriptionId", "SPI", "RequestedServiceUnits", "UsedServiceUnits", "OtherPartyId"}

ChildRow(name) ==
  LET row == Row("CCR", name)
  IN  /\ row \in Writes["CCR"] /\ ~IsValue(row) /\ row.name = name /\ row.class = ClassOf(name)
      /\ row.rule = "set" <=> name \in ManyOf
      /\ row.class \in DOMAIN Writes

(* What sendCCR creates in a CCR. *)
LEMMA ChildrenRows ==
  /\ "CCR" \in DOMAIN Writes
  /\ \A name \in ChildrenSent : ChildRow(name)
<1>1. "CCR" \in DOMAIN Writes
  BY DEF Writes
<1>2. \A name, code, vendor, class, rule :
        LET row == Child(name, code, vendor, class, rule)
        IN  row.name = name /\ row.class = class /\ row.rule = rule
  BY DEF Child
<1>3. /\ Child("OtherPartyId", 1075, Vendor, "OtherPartyId", "once") \in Writes["CCR"]
      /\ Child("SubscriptionId", 443, Plain, "SubscriptionId", "set") \in Writes["CCR"]
      /\ Child("SPI", 440, Plain, "SPI", "set") \in Writes["CCR"]
      /\ Child("RequestedServiceUnits", 437, Plain, "Units", "replace") \in Writes["CCR"]
      /\ Child("UsedServiceUnits", 446, Plain, "Units", "replace") \in Writes["CCR"]
  BY DEF Writes, CCRWrites
<1>4. \A name \in ChildrenSent : \E row \in Writes["CCR"] :
        row.name = name /\ row.class = ClassOf(name) /\ (row.rule = "set" <=> name \in ManyOf)
  BY <1>2, <1>3 DEF ChildrenSent, ClassOf, ManyOf
<1>5. {"OtherPartyId", "SubscriptionId", "SPI", "Units"} \subseteq DOMAIN Writes /\ "none" \notin DOMAIN Writes
  BY DEF Writes
<1>6. ASSUME NEW name \in ChildrenSent PROVE ChildRow(name)
  <2>1. PICK row \in Writes["CCR"] : row.name = name /\ row.class = ClassOf(name) /\ (row.rule = "set" <=> name \in ManyOf)
    BY <1>4
  <2>2. Row("CCR", name) = row
    BY <1>1, <2>1, RowIs
  <2>3. row.class \in DOMAIN Writes
    BY <1>5, <2>1 DEF ClassOf, ChildrenSent
  <2>4. ~IsValue(row)
    BY <1>5, <2>3 DEF IsValue
  <2> QED  BY <2>1, <2>2, <2>3, <2>4 DEF ChildRow
<1> QED  BY <1>1, <1>6

(* A child that can be made. *)
GoodChild(child) ==
  /\ child.name \in ChildrenSent
  /\ IF child.name = "SPI" THEN child.with[1] \in Int /\ child.with[2] \in Int
     ELSE Setters(ClassOf(child.name), child.with)

(* The object of a child. *)
MadeAs(child, object) ==
  /\ object.class = ClassOf(child.name)
  /\ IF child.name = "SPI"
     THEN /\ object.vals["ServiceParameterInfoType"] = child.with[1]
          /\ object.vals["ServiceParameterInfoValue"] = child.with[2]
     ELSE /\ object.kids = NewObject(object.class).kids
          /\ \A n \in ValueNames(object.class) :
               (\A j \in 1..Len(child.with) : child.with[j][1] # n) =>
                 object.vals[n] = Initial(MadeWithout, object.class, n)
          /\ \A j \in 1..Len(child.with) :
               child.with[j][1] \notin Fussy => object.vals[child.with[j][1]] = child.with[j][2]

(* What a child is to the CCR that it is made for. *)
Grafts(msg, child, new) ==
  /\ Sound(new, {}) /\ Len(new.objects) = Len(msg.objects) + 1
  /\ new.objects[1].class = "CCR" /\ new.objects[1].vals = msg.objects[1].vals
  /\ \A n \in ChildNames("CCR") : n # child.name => new.objects[1].kids[n] = msg.objects[1].kids[n]
  /\ new.objects[1].kids[child.name] =
       IF child.name \in ManyOf THEN Append(msg.objects[1].kids[child.name], Len(msg.objects) + 1)
       ELSE <<Len(msg.objects) + 1>>
  /\ \A p \in 2..Len(msg.objects) : new.objects[p] = msg.objects[p]
  /\ MadeAs(child, new.objects[Len(msg.objects) + 1])

(* A child is made in the CCR and its setters are called. *)
LEMMA WithChildIs ==
  ASSUME NEW msg, Sound(msg, {}), msg.objects[1].class = "CCR", NEW child, GoodChild(child)
  PROVE  Grafts(msg, child, WithChild(msg, child))
<1>1. PICK last \in Nat : last = Len(msg.objects) /\ last >= 1
  BY TypedParts DEF Sound
<1>2. PICK o \in 2 .. last + 1 : o = last + 1
  BY <1>1
<1>3. PICK row : row = Row("CCR", child.name)
  OBVIOUS
<1>4. /\ row \in Writes["CCR"] /\ ~IsValue(row) /\ row.name = child.name /\ row.class = ClassOf(child.name)
      /\ row.rule = "set" <=> child.name \in ManyOf
      /\ row.class \in DOMAIN Writes
  BY <1>3, ChildrenRows DEF GoodChild, ChildRow
<1>5. PICK made : made = Create(msg, 1, row)
  OBVIOUS
<1>6. Sound(made, {}) /\ Created(msg, 1, row, made)
  <2>1. 1 \in 1..Len(msg.objects)
    BY <1>1
  <2> QED  BY <1>4, <1>5, <2>1, CreateSound
<1>7. PICK new : new = WithChild(msg, child)
  OBVIOUS
<1>8. IF child.name = "SPI" THEN new = SetParameter(made, o, child.with[1], child.with[2])
      ELSE new = SetValues(made, o, child.with)
  BY <1>1, <1>2, <1>3, <1>5, <1>7 DEF WithChild
<1>9. /\ Len(made.objects) = last + 1 /\ made.objects[o] = NewObject(row.class)
      /\ \A p \in 2..last : made.objects[p] = msg.objects[p]
  BY <1>1, <1>2, <1>6 DEF Created
<1>10. PICK kids : kids = KidsAfter(row, msg.objects[1].kids[child.name], last + 1)
  OBVIOUS
<1>11. OnlyChild(msg.objects[1], child.name, kids, made.objects[1])
  BY <1>1, <1>4, <1>6, <1>10 DEF Created
<1>12. /\ made.objects[1].class = "CCR" /\ made.objects[1].vals = msg.objects[1].vals
       /\ made.objects[1].kids[child.name] = kids
       /\ \A n \in ChildNames("CCR") : n # child.name => made.objects[1].kids[n] = msg.objects[1].kids[n]
  BY <1>11 DEF OnlyChild
<1>13. kids = IF child.name \in ManyOf THEN Append(msg.objects[1].kids[child.name], last + 1) ELSE <<last + 1>>
  BY <1>4, <1>10 DEF KidsAfter
<1>14. /\ Sound(new, {}) /\ Len(new.objects) = last + 1
       /\ \A p \in 1..last : new.objects[p] = made.objects[p]
       /\ MadeAs(child, new.objects[o])
  <2>1. PICK object : object = NewObject(row.class)
    OBVIOUS
  <2>2. /\ object.class = row.class
        /\ object.vals = [n \in ValueNames(row.class) |-> Initial(MadeWithout, row.class, n)]
    BY <2>1 DEF NewObject
  <2>3. o \in 1..Len(made.objects) /\ made.objects[o] = object
    BY <1>2, <1>9, <2>1
  <2>4. CASE child.name = "SPI"
    <3>1. made.objects[o].class = "SPI" /\ child.with[1] \in Int /\ child.with[2] \in Int
      BY <1>4, <2>2, <2>3, <2>4 DEF GoodChild, ClassOf
    <3>2. Sound(new, {}) /\ ParameterIsSet(made, o, child.with[1], child.with[2], new)
      BY <1>6, <1>8, <2>3, <2>4, <3>1, SetParameterSound
    <3>3. \A p \in 1..last : p # o /\ p \in 1..Len(made.objects)
      BY <1>2, <1>9
    <3>4. MadeAs(child, new.objects[o])
      BY <2>4, <3>2 DEF MadeAs, ClassOf, ParameterIsSet
    <3> QED  BY <1>9, <3>2, <3>3, <3>4 DEF ParameterIsSet
  <2>5. CASE child.name # "SPI"
    <3>1. Setters(made.objects[o].class, child.with)
      BY <1>4, <2>2, <2>3, <2>5 DEF GoodChild
    <3>2. ValuesSet(made, o, child.with, Len(child.with), new)
      BY <1>6, <1>8, <2>3, <2>5, <3>1, SetValuesIs
    <3>3. \A p \in 1..last : p # o /\ p \in 1..Len(made.objects)
      BY <1>2, <1>9
    <3>4. PICK n \in Nat : n = Len(child.with)
      BY <3>1 DEF Setters
    <3>5. MadeAs(child, new.objects[o])
      <4>1. new.objects[o].class = ClassOf(child.name) /\ new.objects[o].kids = NewObject(new.objects[o].class).kids
        BY <1>4, <2>1, <2>2, <2>3, <3>2 DEF ValuesSet
      <4>2. \A name \in ValueNames(new.objects[o].class) :
              (\A j \in 1..n : child.with[j][1] # name) =>
                new.objects[o].vals[name] = Initial(MadeWithout, new.objects[o].class, name)
        BY <1>4, <2>2, <2>3, <3>2, <3>4, <4>1 DEF ValuesSet
      <4>3. \A j \in 1..n : child.with[j][1] \notin Fussy => new.objects[o].vals[child.with[j][1]] = child.with[j][2]
        BY <3>2, <3>4 DEF ValuesSet
      <4> QED  BY <2>5, <3>4, <4>1, <4>2, <4>3 DEF MadeAs
    <3> QED  BY <1>9, <3>2, <3>3, <3>5 DEF ValuesSet
  <2> QED  BY <2>4, <2>5
<1>15. Grafts(msg, child, new)
  <2>1. 1 \in 1..last /\ \A p \in 2..last : p \in 1..last
    BY <1>1
  <2>2. new.objects[1] = made.objects[1] /\ \A p \in 2..last : new.objects[p] = msg.objects[p]
    BY <1>9, <1>14, <2>1
  <2>3. /\ Sound(new, {}) /\ Len(new.objects) = Len(msg.objects) + 1
        /\ \A p \in 2..Len(msg.objects) : new.objects[p] = msg.objects[p]
        /\ MadeAs(child, new.objects[Len(msg.objects) + 1])
    BY <1>1, <1>2, <1>14, <2>2
  <2>4. new.objects[1].kids[child.name] =
          IF child.name \in ManyOf THEN Append(msg.objects[1].kids[child.name], Len(msg.objects) + 1)
          ELSE <<Len(msg.objects) + 1>>
    BY <1>1, <1>12, <1>13, <2>2
  <2> QED  BY <1>12, <2>2, <2>3, <2>4, Zenon DEF Grafts
<1> QED  BY <1>7, <1>15

-----------------------------------------------------------------------------
(* The children of a CCR in their order.                                   *)

(* Two sequences, one after the other. *)
InTurn(u, v, w) ==
  /\ \E X : w \in Seq(X)
  /\ Len(u) \in Nat /\ Len(v) \in Nat /\ Len(w) = Len(u) + Len(v)
  /\ \A i \in 1..Len(u) : w[i] = u[i]
  /\ \A i \in 1..Len(v) : w[Len(u) + i] = v[i]

(* The elements of two sequences, one after the other. *)
LEMMA JoinAt ==
  ASSUME NEW u, \E X : u \in Seq(X), NEW v, \E X : v \in Seq(X)
  PROVE  InTurn(u, v, Join(u, v))
<1>1. PICK X : u \in Seq(X)
  OBVIOUS
<1>2. PICK Y : v \in Seq(Y)
  OBVIOUS
<1>3. PICK Z : Z = X \cup Y
  OBVIOUS
<1>4. u \in Seq(Z) /\ v \in Seq(Z)
  BY <1>1, <1>2, <1>3
<1>5. PICK w : w = Join(u, v)
  OBVIOUS
<1>6. /\ w \in Seq(Z) /\ Len(u) \in Nat /\ Len(v) \in Nat /\ Len(w) = Len(u) + Len(v)
      /\ \A i \in 1..Len(u) : w[i] = u[i]
      /\ \A i \in 1..Len(v) : w[Len(u) + i] = v[i]
  BY <1>4, <1>5 DEF Join
<1> QED  BY <1>5, <1>6 DEF InTurn

(* The parts of Children, named. *)
Subscriber(request) ==
  NewChild("SubscriptionId",
           <<<<"SubscriptionIdType", IF request.serviceType = 9 THEN 4 ELSE 0>>,
             <<"SubscriptionIdData", request.msisdn>>>>)

IsCharged(request) == request.units > 0 \/ request.requestType = "CHARGE"

UnitCalls(request) ==
  IF IsCharged(request) THEN <<<<UnitName(request.serviceType), request.units>>>> ELSE << >>

UnitsChild(request) == NewChild(UnitsName(request), UnitCalls(request))

OtherParty(request) ==
  NewChild("OtherPartyId",
           <<<<"OtherPartyIdType", 0>>, <<"OtherPartyIdNature", 1>>, <<"OtherPartyIdData", request.otherNum>>>>)

Numbers(request) == Ascending(DOMAIN request.spi)

Infos(request) ==
  [i \in DOMAIN Numbers(request) |-> NewChild("SPI", <<Numbers(request)[i], request.spi[Numbers(request)[i]]>>)]

Others(request) == IF request.otherNum = Unset THEN << >> ELSE <<OtherParty(request)>>

(* The children of a CCR are the subscriber, the parameters, the units and the other party. *)
LEMMA ChildrenJoin ==
  ASSUME NEW request
  PROVE  Children(request) =
           Join(Join(Join(<<Subscriber(request)>>, Infos(request)), <<UnitsChild(request)>>), Others(request))
BY DEF Children, Join, Subscriber, Infos, UnitsChild, UnitCalls, IsCharged, Others, OtherParty, Numbers

(* The parameters in the order of their numbers. *)
NumbersAre(request, count) ==
  /\ count = Cardinality(DOMAIN request.spi) /\ Len(Numbers(request)) = count
  /\ DOMAIN Numbers(request) = 1..count
  /\ \A i \in 1..count : Numbers(request)[i] \in DOMAIN request.spi
  /\ \A i, j \in 1..count : Numbers(request)[i] = Numbers(request)[j] => i = j
  /\ \A number \in DOMAIN request.spi : \E i \in 1..count : Numbers(request)[i] = number

(* The parameters of a request can be put in the order of their numbers. *)
LEMMA NumbersOf ==
  ASSUME NEW request, IsRequest(request)
  PROVE  \E count \in Nat : NumbersAre(request, count)
<1>1. PICK S : S = DOMAIN request.spi
  OBVIOUS
<1>2. S \subseteq Int /\ IsFiniteSet(S)
  BY <1>1 DEF IsRequest
<1>3. PICK count \in Nat : count = Cardinality(S)
  BY <1>2, FS_CardinalityType
<1>4. /\ Ascending(S) \in Seq(S) /\ Len(Ascending(S)) = count
      /\ \A i, j \in 1..Len(Ascending(S)) : Ascending(S)[i] = Ascending(S)[j] => i = j
      /\ \A c \in S : \E i \in 1..Len(Ascending(S)) : Ascending(S)[i] = c
  BY <1>2, <1>3, AscendingEnumerates
<1>5. NumbersAre(request, count)
  BY <1>1, <1>3, <1>4 DEF NumbersAre, Numbers
<1> QED  BY <1>5

(* Where the children of a CCR are. *)
ChildrenAre(request, kids, count) ==
  /\ Len(kids) \in count + 2 .. count + 3
  /\ kids[1] = Subscriber(request)
  /\ \A i \in 1..count : kids[i + 1] = NewChild("SPI", <<Numbers(request)[i], request.spi[Numbers(request)[i]]>>)
  /\ kids[count + 2] = UnitsChild(request)
  /\ \A i \in 1..Len(kids) : i = count + 3 => kids[i] = OtherParty(request)

(* Each of the children is at its place. *)
LEMMA ChildrenOf ==
  ASSUME NEW request, NEW count \in Nat, NumbersAre(request, count)
  PROVE  ChildrenAre(request, Children(request), count)
<1>1. PICK a : a = <<Subscriber(request)>>
  OBVIOUS
<1>2. PICK b : b = Infos(request)
  OBVIOUS
<1>3. PICK c : c = <<UnitsChild(request)>>
  OBVIOUS
<1>4. PICK d : d = Others(request)
  OBVIOUS
<1>5. Len(a) = 1 /\ a[1] = Subscriber(request) /\ \E X : a \in Seq(X)
  <2>1. a \in Seq({Subscriber(request)}) /\ Len(a) = 1 /\ a[1] = Subscriber(request)
    BY <1>1
  <2> QED  BY <2>1
<1>6. Len(c) = 1 /\ c[1] = UnitsChild(request) /\ \E X : c \in Seq(X)
  <2>1. c \in Seq({UnitsChild(request)}) /\ Len(c) = 1 /\ c[1] = UnitsChild(request)
    BY <1>3
  <2> QED  BY <2>1
<1>7. /\ Len(b) = count /\ \E X : b \in Seq(X)
      /\ \A i \in 1..count : b[i] = NewChild("SPI", <<Numbers(request)[i], request.spi[Numbers(request)[i]]>>)
  <2> DEFINE Info(i) == NewChild("SPI", <<Numbers(request)[i], request.spi[Numbers(request)[i]]>>)
             X == {Info(i) : i \in 1..count}
  <2>1. b = [i \in 1..count |-> Info(i)]
    BY <1>2 DEF Infos, NumbersAre
  <2>2. \A i \in 1..count : Info(i) \in X
    OBVIOUS
  <2> HIDE DEF Info, X
  <2>3. b \in Seq(X) /\ Len(b) = count /\ \A i \in 1..count : b[i] = Info(i)
    BY <2>1, <2>2
  <2> QED  BY <2>3 DEF Info
<1>8. /\ \E X : d \in Seq(X)
      /\ Len(d) \in 0..1 /\ \A i \in 1..Len(d) : d[i] = OtherParty(request)
  <2>1. CASE request.otherNum = Unset
    <3>1. d \in Seq({}) /\ Len(d) = 0
      BY <1>4, <2>1 DEF Others
    <3> QED  BY <3>1
  <2>2. CASE request.otherNum # Unset
    <3>1. d \in Seq({OtherParty(request)}) /\ Len(d) = 1 /\ d[1] = OtherParty(request)
      BY <1>4, <2>2 DEF Others
    <3>2. \A i \in 1..1 : i = 1
      OBVIOUS
    <3> QED  BY <3>1, <3>2
  <2> QED  BY <2>1, <2>2
<1>9. PICK ab : ab = Join(a, b)
  OBVIOUS
<1>10. /\ \E X : ab \in Seq(X)
       /\ Len(ab) = 1 + count /\ ab[1] = Subscriber(request)
       /\ \A i \in 1..count : ab[1 + i] = b[i]
  <2>1. InTurn(a, b, ab)
    BY <1>5, <1>7, <1>9, JoinAt
  <2>2. 1 \in 1..1
    OBVIOUS
  <2> QED  BY <1>5, <1>7, <2>1, <2>2 DEF InTurn
<1>11. PICK abc : abc = Join(ab, c)
  OBVIOUS
<1>12. /\ \E X : abc \in Seq(X)
       /\ Len(abc) = count + 2 /\ abc[count + 2] = UnitsChild(request)
       /\ \A i \in 1 .. count + 1 : abc[i] = ab[i]
  <2>1. InTurn(ab, c, abc)
    BY <1>6, <1>10, <1>11, JoinAt
  <2>2. 1 \in 1..1 /\ 1 + count + 1 = count + 2 /\ 1 + count = count + 1
    OBVIOUS
  <2> QED  BY <1>6, <1>10, <2>1, <2>2 DEF InTurn
<1>13. PICK kids : kids = Join(abc, d)
  OBVIOUS
<1>14. PICK e \in 0..1 : e = Len(d)
  BY <1>8
<1>15. /\ Len(kids) = count + 2 + e
       /\ \A i \in 1 .. count + 2 : kids[i] = abc[i]
       /\ \A i \in 1..e : kids[count + 2 + i] = d[i]
  <2>1. InTurn(abc, d, kids)
    BY <1>8, <1>12, <1>13, JoinAt
  <2> QED  BY <1>12, <1>14, <2>1 DEF InTurn
<1>16. \A i \in 1..count : kids[i + 1] = b[i]
  <2> SUFFICES ASSUME NEW i \in 1..count PROVE kids[i + 1] = b[i]
    OBVIOUS
  <2>1. PICK j \in 1 .. count + 1 : j = i + 1
    OBVIOUS
  <2>2. j \in 1 .. count + 2 /\ j = 1 + i
    BY <2>1
  <2>3. kids[j] = abc[j] /\ abc[j] = ab[j] /\ ab[j] = b[i]
    BY <1>10, <1>12, <1>15, <2>1, <2>2
  <2> QED  BY <2>1, <2>3
<1>17. kids[1] = Subscriber(request) /\ kids[count + 2] = UnitsChild(request)
  <2>1. 1 \in 1 .. count + 2 /\ 1 \in 1 .. count + 1 /\ count + 2 \in 1 .. count + 2
    OBVIOUS
  <2> QED  BY <1>10, <1>12, <1>15, <2>1
<1>18. \A i \in 1 .. count + 2 + e : i = count + 3 => kids[i] = OtherParty(request)
  <2> SUFFICES ASSUME NEW i \in 1 .. count + 2 + e, i = count + 3 PROVE kids[i] = OtherParty(request)
    OBVIOUS
  <2>1. e = 1 /\ 1 \in 1..e /\ i = count + 2 + 1
    OBVIOUS
  <2> QED  BY <1>8, <1>14, <1>15, <2>1
<1>19. Len(kids) \in count + 2 .. count + 3
  BY <1>15
<1>20. ChildrenAre(request, kids, count)
  BY <1>7, <1>15, <1>16, <1>17, <1>18, <1>19 DEF ChildrenAre
<1>21. Children(request) = kids
  BY <1>1, <1>2, <1>3, <1>4, <1>9, <1>11, <1>13, ChildrenJoin
<1> QED  BY <1>20, <1>21

-----------------------------------------------------------------------------
(* Every child can be made.                                                *)

UnitNames == {"Time", "TotalOctets", "ServiceSpecificUnits"}

(* The children have the members that sendCCR sets. *)
LEMMA KidsNamed ==
  /\ Named("SubscriptionId", {"SubscriptionIdType", "SubscriptionIdData"})
  /\ Named("OtherPartyId", {"OtherPartyIdType", "OtherPartyIdNature", "OtherPartyIdData"})
  /\ Named("Units", UnitNames)
<1>1. \A name, code, vendor, form : Value(name, code, vendor, form).name = name /\ IsValue(Value(name, code, vendor, form))
  BY DEF Value, IsValue
<1>2. Named("SubscriptionId", {"SubscriptionIdType", "SubscriptionIdData"})
  <2>1. /\ Value("SubscriptionIdType", 450, Plain, "int") \in Writes["SubscriptionId"]
        /\ Value("SubscriptionIdData", 444, Plain, "text") \in Writes["SubscriptionId"]
    BY DEF Writes, SubscriptionIdWrites
  <2> QED  BY <1>1, <2>1 DEF Named
<1>3. Named("OtherPartyId", {"OtherPartyIdType", "OtherPartyIdNature", "OtherPartyIdData"})
  <2>1. /\ Value("OtherPartyIdType", 1078, Vendor, "int") \in Writes["OtherPartyId"]
        /\ Value("OtherPartyIdNature", 1076, Vendor, "int") \in Writes["OtherPartyId"]
        /\ Value("OtherPartyIdData", 1077, Vendor, "text") \in Writes["OtherPartyId"]
    BY DEF Writes, OtherPartyIdWrites
  <2> QED  BY <1>1, <2>1 DEF Named
<1>4. Named("Units", UnitNames)
  <2>1. /\ Value("Time", 420, Plain, "int") \in Writes["Units"]
        /\ Value("TotalOctets", 421, Plain, "long") \in Writes["Units"]
        /\ Value("ServiceSpecificUnits", 417, Plain, "long") \in Writes["Units"]
    BY DEF Writes, UnitsWrites
  <2> QED  BY <1>1, <2>1 DEF Named, UnitNames
<1> QED  BY <1>2, <1>3, <1>4

(* The subscriber can be made. *)
LEMMA SubscriberGood ==
  ASSUME NEW request, IsRequest(request)
  PROVE  GoodChild(Subscriber(request))
<1>1. PICK type \in Int : type = IF request.serviceType = 9 THEN 4 ELSE 0
  OBVIOUS
<1>2. "SubscriptionIdType" \in SetterNames /\ "SubscriptionIdData" \in SetterNames /\ request.msisdn \in Int
  BY DEF SetterNames, IsRequest
<1>3. PICK p1 \in SetterNames \X Int : p1 = <<"SubscriptionIdType", type>>
  BY <1>1, <1>2, ANumberNamed, Zenon
<1>4. PICK p2 \in SetterNames \X Int : p2 = <<"SubscriptionIdData", request.msisdn>>
  BY <1>2, ANumberNamed, Zenon
<1>5. p1[1] = "SubscriptionIdType" /\ p2[1] = "SubscriptionIdData"
  BY <1>3, <1>4
<1>6. Calls({p1[1], p2[1]}, <<p1, p2>>)
  BY <1>5, TwoCalls
<1>7. PICK with : with = <<p1, p2>>
  OBVIOUS
<1>8. Calls({"SubscriptionIdType", "SubscriptionIdData"}, with)
  BY <1>5, <1>6, <1>7
<1>9. Setters("SubscriptionId", with)
  BY <1>8, KidsNamed, CallsSet
<1>10. Subscriber(request) = NewChild("SubscriptionId", with)
  BY <1>1, <1>3, <1>4, <1>7 DEF Subscriber
<1> QED  BY <1>9, <1>10 DEF GoodChild, NewChild, ChildrenSent, ClassOf

(* The other party can be made. *)
LEMMA OtherPartyGood ==
  ASSUME NEW request, IsRequest(request)
  PROVE  GoodChild(OtherParty(request))
<1>1. /\ "OtherPartyIdType" \in SetterNames /\ "OtherPartyIdNature" \in SetterNames /\ "OtherPartyIdData" \in SetterNames
      /\ request.otherNum \in Int /\ 0 \in Int /\ 1 \in Int
  BY DEF SetterNames, IsRequest
<1>2. PICK p1 \in SetterNames \X Int : p1 = <<"OtherPartyIdType", 0>>
  BY <1>1, ANumberNamed, Zenon
<1>3. PICK p2 \in SetterNames \X Int : p2 = <<"OtherPartyIdNature", 1>>
  BY <1>1, ANumberNamed, Zenon
<1>4. PICK p3 \in SetterNames \X Int : p3 = <<"OtherPartyIdData", request.otherNum>>
  BY <1>1, ANumberNamed, Zenon
<1>5. p1[1] = "OtherPartyIdType" /\ p2[1] = "OtherPartyIdNature" /\ p3[1] = "OtherPartyIdData"
  BY <1>2, <1>3, <1>4
<1>6. Calls({p1[1], p2[1], p3[1]}, <<p1, p2, p3>>)
  BY <1>5, ThreeCalls
<1>7. PICK with : with = <<p1, p2, p3>>
  OBVIOUS
<1>8. Calls({"OtherPartyIdType", "OtherPartyIdNature", "OtherPartyIdData"}, with)
  BY <1>5, <1>6, <1>7
<1>9. Setters("OtherPartyId", with)
  BY <1>8, KidsNamed, CallsSet
<1>10. OtherParty(request) = NewChild("OtherPartyId", with)
  BY <1>2, <1>3, <1>4, <1>7 DEF OtherParty
<1> QED  BY <1>9, <1>10 DEF GoodChild, NewChild, ChildrenSent, ClassOf

(* The units are of the kind of the service, when there are any. *)
UnitsGiven(request, with) ==
  /\ Setters("Units", with)
  /\ \A j \in 1..Len(with) : with[j][1] = UnitName(request.serviceType)
  /\ IsCharged(request) => Gives(with, UnitName(request.serviceType), request.units)
  /\ ~IsCharged(request) => Len(with) = 0

(* The units that are set are those of the service. *)
LEMMA UnitsCalls ==
  ASSUME NEW request, IsRequest(request)
  PROVE  UnitsGiven(request, UnitCalls(request)) /\ UnitName(request.serviceType) \in UnitNames
<1>1. PICK name \in UnitNames : name = UnitName(request.serviceType)
  BY DEF UnitNames, UnitName
<1>2. name \in SetterNames /\ request.units \in Int
  BY DEF UnitNames, SetterNames, IsRequest
<1>3. PICK with : with = UnitCalls(request)
  OBVIOUS
<1>4. CASE IsCharged(request)
  <2>1. PICK p \in SetterNames \X Int : p = <<name, request.units>> /\ p[1] = name /\ p[2] = request.units
    BY <1>2, ANumberNamed, Zenon
  <2>2. with = <<p>>
    BY <1>1, <1>3, <1>4, <2>1 DEF UnitCalls
  <2>3. Calls({name}, with) /\ Gives(with, name, request.units)
    BY <2>1, <2>2, OneCall
  <2>4. Calls(UnitNames, with) /\ \A j \in 1..Len(with) : with[j][1] = name
    BY <2>3 DEF Calls
  <2>5. Setters("Units", with)
    BY <2>4, KidsNamed, CallsSet
  <2> QED  BY <1>1, <1>3, <1>4, <2>3, <2>4, <2>5 DEF UnitsGiven
<1>5. CASE ~IsCharged(request)
  <2>1. with = << >>
    BY <1>3, <1>5 DEF UnitCalls
  <2>2. Calls(UnitNames, with) /\ Len(with) = 0
    BY <2>1 DEF Calls
  <2>3. Setters("Units", with)
    BY <2>2, KidsNamed, CallsSet
  <2> QED  BY <1>1, <1>3, <1>5, <2>2, <2>3 DEF UnitsGiven
<1> QED  BY <1>4, <1>5

(* The units can be made. *)
LEMMA UnitsGood ==
  ASSUME NEW request, IsRequest(request)
  PROVE  GoodChild(UnitsChild(request))
<1>1. Setters("Units", UnitCalls(request))
  BY UnitsCalls DEF UnitsGiven
<1>2. UnitsName(request) \in {"RequestedServiceUnits", "UsedServiceUnits"}
  BY DEF UnitsName
<1>3. UnitsChild(request).name = UnitsName(request) /\ UnitsChild(request).with = UnitCalls(request)
  BY DEF UnitsChild, NewChild
<1> QED  BY <1>1, <1>2, <1>3 DEF GoodChild, ChildrenSent, ClassOf

(* Every child of a CCR can be made. *)
LEMMA ChildrenGood ==
  ASSUME NEW request, IsRequest(request), NEW count \in Nat, NumbersAre(request, count),
         NEW kids, ChildrenAre(request, kids, count), NEW i \in 1..Len(kids)
  PROVE  /\ GoodChild(kids[i])
         /\ kids[i].name = "SPI" <=> i \in 2 .. count + 1
         /\ kids[i].name \in {"RequestedServiceUnits", "UsedServiceUnits"} <=> i = count + 2
         /\ i = count + 2 => kids[i].name = UnitsName(request)
<1>1. PICK n \in count + 2 .. count + 3 : n = Len(kids)
  BY DEF ChildrenAre
<1>2. i = 1 \/ i \in 2 .. count + 1 \/ i = count + 2 \/ i = count + 3
  BY <1>1
<1>3. CASE i = 1
  <2>1. kids[i] = Subscriber(request)
    BY <1>3 DEF ChildrenAre
  <2>2. kids[i].name = "SubscriptionId"
    BY <2>1 DEF Subscriber, NewChild
  <2>3. i \notin 2 .. count + 1 /\ i # count + 2
    BY <1>3
  <2> QED  BY <2>1, <2>2, <2>3, SubscriberGood
<1>4. CASE i \in 2 .. count + 1
  <2>1. PICK j \in 1..count : i = j + 1
    <3>1. i - 1 \in 1..count /\ i = (i - 1) + 1
      BY <1>4
    <3> QED  BY <3>1
  <2>2. PICK number \in DOMAIN request.spi : number = Numbers(request)[j]
    BY DEF NumbersAre
  <2>3. kids[i] = NewChild("SPI", <<number, request.spi[number]>>)
    BY <2>1, <2>2 DEF ChildrenAre
  <2>4. number \in Int /\ request.spi[number] \in Int
    BY DEF IsRequest
  <2>5. kids[i].name = "SPI" /\ kids[i].with[1] = number /\ kids[i].with[2] = request.spi[number]
    BY <2>3 DEF NewChild
  <2>6. GoodChild(kids[i])
    BY <2>4, <2>5 DEF GoodChild, ChildrenSent
  <2>7. i # count + 2
    BY <1>4
  <2> QED  BY <1>4, <2>5, <2>6, <2>7
<1>5. CASE i = count + 2
  <2>1. kids[i] = UnitsChild(request)
    BY <1>5 DEF ChildrenAre
  <2>2. kids[i].name = UnitsName(request)
    BY <2>1 DEF UnitsChild, NewChild
  <2>3. kids[i].name \in {"RequestedServiceUnits", "UsedServiceUnits"}
    BY <2>2 DEF UnitsName
  <2>4. i \notin 2 .. count + 1
    BY <1>5
  <2> QED  BY <1>5, <2>1, <2>2, <2>3, <2>4, UnitsGood
<1>6. CASE i = count + 3
  <2>1. kids[i] = OtherParty(request)
    BY <1>6 DEF ChildrenAre
  <2>2. kids[i].name = "OtherPartyId"
    BY <2>1 DEF OtherParty, NewChild
  <2>3. i \notin 2 .. count + 1 /\ i # count + 2
    BY <1>6
  <2> QED  BY <2>1, <2>2, <2>3, OtherPartyGood
<1> QED  BY <1>2, <1>3, <1>4, <1>5, <1>6

-----------------------------------------------------------------------------
(* The children, one after the other.                                      *)

(* How many parameters the first i children hold. *)
InfosBy(i, count) == IF i = 0 THEN 0 ELSE IF i <= count + 1 THEN i - 1 ELSE count

OtherUnits(request) == IF request.requestType = "CHARGE" THEN "RequestedServiceUnits" ELSE "UsedServiceUnits"

(* The first i children have been made. *)
GraftedFirst(request, kids, count, vals, i, t) ==
  /\ Sound(t, {}) /\ Len(t.objects) = i + 1
  /\ t.objects[1].class = "CCR" /\ t.objects[1].vals = vals
  /\ \A j \in 1..i : MadeAs(kids[j], t.objects[j + 1])
  /\ t.objects[1].kids["SPI"] \in Seq(Nat)
  /\ Len(t.objects[1].kids["SPI"]) = InfosBy(i, count)
  /\ \A k \in 1..InfosBy(i, count) : t.objects[1].kids["SPI"][k] = k + 2
  /\ t.objects[1].kids[UnitsName(request)] = IF i >= count + 2 THEN <<count + 3>> ELSE << >>
  /\ t.objects[1].kids[OtherUnits(request)] = << >>

(* One child more. *)
LEMMA NextGrafted ==
  ASSUME NEW request, IsRequest(request), NEW count \in Nat, NumbersAre(request, count),
         NEW kids, ChildrenAre(request, kids, count), NEW i \in 1..Len(kids),
         NEW vals, NEW t, GraftedFirst(request, kids, count, vals, i - 1, t)
  PROVE  GraftedFirst(request, kids, count, vals, i, WithChild(t, kids[i]))
<1>0. PICK n \in count + 2 .. count + 3 : n = Len(kids)
  BY DEF ChildrenAre
<1>1. PICK child : child = kids[i]
  OBVIOUS
<1>2. PICK new : new = WithChild(t, child)
  OBVIOUS
<1>3. /\ GoodChild(child) /\ (child.name = "SPI" <=> i \in 2 .. count + 1)
      /\ child.name \in {"RequestedServiceUnits", "UsedServiceUnits"} <=> i = count + 2
      /\ i = count + 2 => child.name = UnitsName(request)
  BY <1>1, ChildrenGood
<1>4. Grafts(t, child, new)
  BY <1>2, <1>3, WithChildIs DEF GraftedFirst
<1>5. i \in 1..n /\ i \in Nat
  BY <1>0
<1>6. Len(t.objects) = i
  BY <1>5 DEF GraftedFirst
<1>7. PICK o \in Nat : o = i + 1
  OBVIOUS
<1>8. /\ Sound(new, {}) /\ Len(new.objects) = o
      /\ new.objects[1].class = "CCR" /\ new.objects[1].vals = vals
      /\ \A p \in 2..i : new.objects[p] = t.objects[p]
      /\ MadeAs(child, new.objects[o])
  BY <1>4, <1>6, <1>7 DEF Grafts, GraftedFirst
<1>9. \A j \in 1..i : MadeAs(kids[j], new.objects[j + 1])
  <2> SUFFICES ASSUME NEW j \in 1..i PROVE MadeAs(kids[j], new.objects[j + 1])
    OBVIOUS
  <2>1. CASE j = i
    BY <1>1, <1>7, <1>8, <2>1
  <2>2. CASE j # i
    <3>1. PICK p \in 2..i : p = j + 1
      BY <2>2
    <3>2. j \in 1 .. i - 1
      BY <2>2
    <3>3. MadeAs(kids[j], t.objects[p])
      BY <3>1, <3>2 DEF GraftedFirst
    <3> QED  BY <1>8, <3>1, <3>3
  <2> QED  BY <2>1, <2>2
<1>10. {"SPI", "RequestedServiceUnits", "UsedServiceUnits"} \subseteq ChildNames("CCR")
  BY ChildrenRows, RowNames DEF ChildRow, ChildrenSent
<1>11. /\ \A name \in {"SPI", "RequestedServiceUnits", "UsedServiceUnits"} :
            name # child.name => new.objects[1].kids[name] = t.objects[1].kids[name]
       /\ child.name = "SPI" => new.objects[1].kids["SPI"] = Append(t.objects[1].kids["SPI"], o)
       /\ i = count + 2 => new.objects[1].kids[child.name] = <<o>>
  <2>1. \A name \in ChildNames("CCR") : name # child.name => new.objects[1].kids[name] = t.objects[1].kids[name]
    BY <1>4 DEF Grafts
  <2>2. new.objects[1].kids[child.name] =
          IF child.name \in ManyOf THEN Append(t.objects[1].kids[child.name], o) ELSE <<o>>
    BY <1>4, <1>6, <1>7 DEF Grafts
  <2>3. child.name = "SPI" => new.objects[1].kids["SPI"] = Append(t.objects[1].kids["SPI"], o)
    BY <2>2 DEF ManyOf
  <2>4. i = count + 2 => new.objects[1].kids[child.name] = <<o>>
    BY <1>3, <2>2 DEF ManyOf
  <2> QED  BY <1>10, <2>1, <2>3, <2>4
<1>12. PICK ids \in Seq(Nat) : ids = t.objects[1].kids["SPI"]
  BY DEF GraftedFirst
<1>13. PICK a \in Nat : a = InfosBy(i - 1, count)
  BY <1>5 DEF InfosBy
<1>14. Len(ids) = a /\ \A k \in 1..a : ids[k] = k + 2
  BY <1>12, <1>13 DEF GraftedFirst
<1>15. /\ new.objects[1].kids["SPI"] \in Seq(Nat)
       /\ Len(new.objects[1].kids["SPI"]) = InfosBy(i, count)
       /\ \A k \in 1..InfosBy(i, count) : new.objects[1].kids["SPI"][k] = k + 2
  <2>1. CASE i \in 2 .. count + 1
    <3>1. PICK more : more = Append(ids, o)
      OBVIOUS
    <3>2. more \in Seq(Nat) /\ Len(more) = a + 1 /\ more[a + 1] = o /\ \A k \in 1..a : more[k] = ids[k]
      BY <1>14, <3>1
    <3>3. a + 1 = InfosBy(i, count) /\ o = a + 1 + 2
      BY <1>5, <1>7, <1>13, <2>1 DEF InfosBy
    <3>4. \A k \in 1 .. a + 1 : more[k] = k + 2
      <4>1. \A k \in 1 .. a + 1 : k \in 1..a \/ k = a + 1
        OBVIOUS
      <4> QED  BY <1>14, <3>2, <3>3, <4>1
    <3>5. new.objects[1].kids["SPI"] = more
      BY <1>3, <1>11, <1>12, <2>1, <3>1
    <3> QED  BY <3>2, <3>3, <3>4, <3>5
  <2>2. CASE i \notin 2 .. count + 1
    <3>1. a = InfosBy(i, count)
      BY <1>5, <1>13, <2>2 DEF InfosBy
    <3>2. new.objects[1].kids["SPI"] = ids
      BY <1>3, <1>11, <1>12, <2>2
    <3> QED  BY <1>14, <3>1, <3>2
  <2> QED  BY <2>1, <2>2
<1>16. /\ UnitsName(request) \in {"RequestedServiceUnits", "UsedServiceUnits"}
       /\ OtherUnits(request) \in {"RequestedServiceUnits", "UsedServiceUnits"}
       /\ UnitsName(request) # OtherUnits(request)
  BY DEF UnitsName, OtherUnits
<1>17. new.objects[1].kids[UnitsName(request)] = IF i >= count + 2 THEN <<count + 3>> ELSE << >>
  <2>1. t.objects[1].kids[UnitsName(request)] = IF i - 1 >= count + 2 THEN <<count + 3>> ELSE << >>
    BY DEF GraftedFirst
  <2>2. CASE i = count + 2
    <3>1. o = count + 3 /\ i >= count + 2
      BY <1>7, <2>2
    <3>2. new.objects[1].kids[UnitsName(request)] = <<o>>
      BY <1>3, <1>11, <2>2
    <3> QED  BY <3>1, <3>2
  <2>3. CASE i # count + 2
    <3>1. i - 1 >= count + 2 <=> i >= count + 2
      BY <1>5, <2>3
    <3>2. UnitsName(request) # child.name
      BY <1>3, <1>16, <2>3
    <3> QED  BY <1>11, <1>16, <2>1, <3>1, <3>2
  <2> QED  BY <2>2, <2>3
<1>18. new.objects[1].kids[OtherUnits(request)] = << >>
  <2>1. OtherUnits(request) # child.name
    BY <1>3, <1>16
  <2>2. t.objects[1].kids[OtherUnits(request)] = << >>
    BY DEF GraftedFirst
  <2> QED  BY <1>11, <1>16, <2>1, <2>2
<1>19. GraftedFirst(request, kids, count, vals, i, new)
  BY <1>7, <1>8, <1>9, <1>15, <1>17, <1>18, Zenon DEF GraftedFirst
<1> QED  BY <1>1, <1>2, <1>19

-----------------------------------------------------------------------------
(* The CCR as sendCCR makes it.                                            *)

(* What a CCR says of its session. *)
OwnVals(request, vals) ==
  /\ vals["SessionId"] = request.sessionIdStr /\ vals["ServiceIdentifier"] = request.serviceType
  /\ vals["RequestType"] = Kind(request)
  /\ vals["RequestNumber"] = IF request.requestType = "CHARGE" THEN 1 ELSE 0

(* The CCR before it has children. *)
LEMMA OwnMade ==
  ASSUME NEW request, IsRequest(request), NEW count \in Nat, NEW kids,
         NEW start, start = SetValues(NewMessage("CCR"), 1, OwnAVPs(request))
  PROVE  /\ GraftedFirst(request, kids, count, start.objects[1].vals, 0, start)
         /\ OwnVals(request, start.objects[1].vals)
<1>1. PICK msg : msg = NewMessage("CCR")
  OBVIOUS
<1>2. PICK object : object = NewObject("CCR")
  OBVIOUS
<1>3. Sound(msg, {}) /\ msg.objects = <<object>>
  BY <1>1, <1>2, NewMessageSound
<1>4. Len(msg.objects) = 1 /\ msg.objects[1] = object /\ 1 \in 1..Len(msg.objects)
  BY <1>3
<1>5. object.class = "CCR" /\ \A n \in ChildNames("CCR") : object.kids[n] = << >>
  BY <1>2 DEF NewObject
<1>6. PICK with : with = OwnAVPs(request)
  OBVIOUS
<1>7. Setters(msg.objects[1].class, with) /\ OwnGiven(request, with)
  BY <1>4, <1>5, <1>6, OwnCalls
<1>8. ValuesSet(msg, 1, with, Len(with), start)
  BY <1>1, <1>3, <1>4, <1>6, <1>7, SetValuesIs
<1>9. /\ Sound(start, {}) /\ Len(start.objects) = 1
      /\ start.objects[1].class = "CCR" /\ start.objects[1].kids = object.kids
  BY <1>4, <1>5, <1>8 DEF ValuesSet
<1>10. \A n, v : Gives(with, n, v) /\ n \notin Fussy => start.objects[1].vals[n] = v
  BY <1>8 DEF Gives, ValuesSet
<1>11. {"SessionId", "ServiceIdentifier", "RequestType", "RequestNumber"} \cap Fussy = {}
  BY DEF Fussy, Lost
<1>12. OwnVals(request, start.objects[1].vals)
  BY <1>7, <1>10, <1>11 DEF OwnGiven, OwnVals
<1>13. {"SPI", "RequestedServiceUnits", "UsedServiceUnits"} \subseteq ChildNames("CCR")
  BY ChildrenRows, RowNames DEF ChildRow, ChildrenSent
<1>14. /\ start.objects[1].kids["SPI"] = << >> /\ start.objects[1].kids[UnitsName(request)] = << >>
       /\ start.objects[1].kids[OtherUnits(request)] = << >>
  BY <1>5, <1>9, <1>13 DEF UnitsName, OtherUnits
<1>15. GraftedFirst(request, kids, count, start.objects[1].vals, 0, start)
  <2>1. << >> \in Seq(Nat) /\ Len(<< >>) = 0 /\ 0 + 1 = 1 /\ 1..0 = {} /\ ~(0 >= count + 2) /\ InfosBy(0, count) = 0
    BY DEF InfosBy
  <2> QED  BY <1>9, <1>14, <2>1 DEF GraftedFirst
<1> QED  BY <1>12, <1>15

(* A CCR, before it is sent. *)
CCRMade(request, count, kids, new) ==
  /\ GraftedFirst(request, kids, count, new.objects[1].vals, Len(kids), new)
  /\ OwnVals(request, new.objects[1].vals)

(* A CCR has the values of its request, and its children in their places. *)
LEMMA CCRIsMade ==
  ASSUME NEW request, IsRequest(request), NEW count \in Nat, NumbersAre(request, count)
  PROVE  CCRMade(request, count, Children(request), CCR(request))
<1>1. PICK start : start = SetValues(NewMessage("CCR"), 1, OwnAVPs(request))
  OBVIOUS
<1>2. PICK kids : kids = Children(request)
  OBVIOUS
<1>3. ChildrenAre(request, kids, count)
  BY <1>2, ChildrenOf
<1>4. PICK n \in Nat : n = Len(kids)
  BY <1>3 DEF ChildrenAre
<1>5. PICK vals : vals = start.objects[1].vals
  OBVIOUS
<1>6. GraftedFirst(request, kids, count, vals, 0, start) /\ OwnVals(request, vals)
  BY <1>1, <1>5, OwnMade
<1> DEFINE Step(i, t) == WithChild(t, kids[i])
           T == [i \in 0..n |-> {t \in Message : GraftedFirst(request, kids, count, vals, i, t)}]
           next == [q \in (1..n) \X Message |-> Step(q[1], q[2])]
           IsGrafted(f) == f = [i \in 0..n |-> IF i = 0 THEN start ELSE Step(i, f[i - 1])]
<1>9. \A i \in 0..n : \A t : t \in T[i] <=> GraftedFirst(request, kids, count, vals, i, t)
  BY DEF GraftedFirst, Sound, Typed
<1>10. \A i \in 1..n : \A t : GraftedFirst(request, kids, count, vals, i - 1, t) =>
                              GraftedFirst(request, kids, count, vals, i, Step(i, t))
  BY <1>3, <1>4, NextGrafted
<1>11. \A i \in 1..n : \A t \in T[i - 1] : t \in Message /\ next[<<i, t>>] = Step(i, t)
  <2>1. \A i \in 1..n : \A t \in T[i - 1] : t \in Message
    OBVIOUS
  <2> HIDE DEF T, Step
  <2> QED  BY <2>1
<1>12. start \in T[0]
  BY <1>6, <1>9
<1> HIDE DEF T, next, Step
<1>13. \A i \in 1..n : \A t \in T[i - 1] : Step(i, t) \in T[i]
  BY <1>9, <1>10
<1>14. \A i \in 1..n : \A t \in T[i - 1] : next[<<i, t>>] \in T[i]
  BY <1>11, <1>13
<1>15. PICK f : Walks(f, n, T, start, next)
  BY <1>12, <1>14, WalkExists
<1>16. IsGrafted(f)
  <2>1. f[0] = start /\ f = [i \in 0..n |-> f[i]]
    BY <1>15 DEF Walks
  <2>2. \A i \in 1..n : f[i] = Step(i, f[i - 1])
    <3> SUFFICES ASSUME NEW i \in 1..n PROVE f[i] = Step(i, f[i - 1])
      OBVIOUS
    <3>1. i - 1 \in 0..n
      OBVIOUS
    <3>2. f[i - 1] \in T[i - 1] /\ f[i] = next[<<i, f[i - 1]>>]
      BY <1>15, <3>1 DEF Walks
    <3> QED  BY <1>11, <3>2
  <2>3. \A i \in 0..n : f[i] = IF i = 0 THEN start ELSE Step(i, f[i - 1])
    <3>1. \A i \in 0..n : i = 0 \/ (i # 0 /\ i \in 1..n)
      OBVIOUS
    <3> QED  BY <2>1, <2>2, <3>1, Zenon
  <2> QED  BY <2>1, <2>3
<1> DEFINE g == CHOOSE g : IsGrafted(g)
<1>17. CCR(request) = g[n]
  BY <1>1, <1>2, <1>4 DEF CCR, Step
<1>18. IsGrafted(g)
  <2> HIDE DEF IsGrafted
  <2> QED  BY <1>16
<1> HIDE DEF g
<1>19. g[0] = start /\ \A i \in 1..n : g[i] = Step(i, g[i - 1])
  <2>1. \A i \in 0..n : g[i] = IF i = 0 THEN start ELSE Step(i, g[i - 1])
    BY <1>18, Zenon
  <2> HIDE DEF IsGrafted
  <2> QED  BY <2>1
<1>20. \A i \in 0..n : g[i] \in T[i]
  BY <1>12, <1>13, <1>19, WalkStays
<1>21. PICK new : new = g[n]
  OBVIOUS
<1>22. GraftedFirst(request, kids, count, vals, n, new)
  BY <1>9, <1>20, <1>21
<1>23. new.objects[1].vals = vals
  BY <1>22 DEF GraftedFirst
<1>24. CCRMade(request, count, kids, new)
  BY <1>4, <1>6, <1>22, <1>23 DEF CCRMade
<1> QED  BY <1>2, <1>17, <1>21, <1>24

-----------------------------------------------------------------------------
(* What the OCS reads.                                                     *)

(* What the OCS makes of the children it looks for. *)
LEMMA ChildrenReadRows ==
  \A name \in {"SPI", "RequestedServiceUnits", "UsedServiceUnits"} :
    /\ ReadRow("CCR", name).class = ClassOf(name)
    /\ \E r \in Reads["CCR"] : r.name = name /\ ~IsValue(r)
<1>1. /\ All("SPI", 440, "SPI") \in Reads["CCR"]
      /\ First("RequestedServiceUnits", 437, "Units") \in Reads["CCR"]
      /\ First("UsedServiceUnits", 446, "Units") \in Reads["CCR"]
  BY DEF Reads, CCRReads
<1>2. \A name, code, class :
        /\ First(name, code, class).name = name /\ First(name, code, class).class = class
        /\ All(name, code, class).name = name /\ All(name, code, class).class = class
  BY DEF First, All
<1>3. \A name \in {"SPI", "RequestedServiceUnits", "UsedServiceUnits"} :
        \E r \in Reads["CCR"] : r.name = name /\ r.class = ClassOf(name)
  BY <1>1, <1>2 DEF ClassOf
<1>4. "none" \notin {ClassOf(name) : name \in {"SPI", "RequestedServiceUnits", "UsedServiceUnits"}}
  BY DEF ClassOf
<1>5. ASSUME NEW name \in {"SPI", "RequestedServiceUnits", "UsedServiceUnits"}
      PROVE  ReadRow("CCR", name).class = ClassOf(name) /\ \E r \in Reads["CCR"] : r.name = name /\ ~IsValue(r)
  <2>1. PICK r \in Reads["CCR"] : r.name = name /\ r.class = ClassOf(name)
    BY <1>3
  <2>2. ReadRow("CCR", name) = r
    BY <2>1, ChildrenRows, ReadRowIs
  <2>3. ~IsValue(r)
    BY <1>4, <2>1 DEF IsValue
  <2> QED  BY <2>1, <2>2, <2>3
<1> QED  BY <1>5

(* An object of a sound message, read. *)
ReadIs(object, k, read) ==
  /\ \A n \in ValueNames(k) : Loses(object, n) \/ read.vals[n] = object.vals[n]
  /\ \A n \in ChildNames(k) : Loses(object, n) \/ read.kids[n] = object.kids[n]

(* An object of a sound message is read as it was written. *)
LEMMA ObjectReadIs ==
  ASSUME NEW msg, Sound(msg, {}), NEW o \in 1..Len(msg.objects), NEW k, k = msg.objects[o].class
  PROVE  ReadIs(msg.objects[o], k, ReadObject(k, EncodeAVPs(msg.heap), o))
<1>0. PICK read : read = ReadObject(k, EncodeAVPs(msg.heap), o)
  OBVIOUS
<1>1. ReadsBackAt(msg, o, msg.objects[o], EncodeAVPs(msg.heap))
  BY ObjectRead
<1>2. Agrees(msg.objects[o], read)
  BY <1>0, <1>1 DEF ReadsBackAt
<1>3. DOMAIN msg.objects[o].vals = ValueNames(k) /\ DOMAIN msg.objects[o].kids = ChildNames(k)
  <2>1. msg.objects[o] \in ObjectsOf(k)
    BY SoundAt
  <2> QED  BY <2>1 DEF ObjectsOf
<1> QED  BY <1>0, <1>2, <1>3 DEF Agrees, ReadIs

(* The units that are read: those of the service, and no others. *)
UnitsRead(request, units) ==
  \A n \in UnitNames :
    units.vals[n] = IF IsCharged(request) /\ n = UnitName(request.serviceType) THEN request.units ELSE Unset

(* The units are read as they were given. *)
LEMMA UnitsAreRead ==
  ASSUME NEW request, IsRequest(request), NEW msg, Sound(msg, {}), NEW o \in 1..Len(msg.objects),
         MadeAs(UnitsChild(request), msg.objects[o])
  PROVE  UnitsRead(request, ReadObject("Units", EncodeAVPs(msg.heap), o))
<1>1. PICK object : object = msg.objects[o]
  OBVIOUS
<1>2. PICK read : read = ReadObject("Units", EncodeAVPs(msg.heap), o)
  OBVIOUS
<1>3. PICK with : with = UnitCalls(request)
  OBVIOUS
<1>4. UnitsGiven(request, with) /\ UnitName(request.serviceType) \in UnitNames
  BY <1>3, UnitsCalls
<1>5. UnitsChild(request).name \in {"RequestedServiceUnits", "UsedServiceUnits"} /\ UnitsChild(request).with = with
  BY <1>3 DEF UnitsChild, NewChild, UnitsName
<1>6. /\ object.class = "Units" /\ object.kids = NewObject("Units").kids
      /\ \A n \in ValueNames("Units") : (\A j \in 1..Len(with) : with[j][1] # n) => object.vals[n] = Unset
      /\ \A j \in 1..Len(with) : with[j][1] \notin Fussy => object.vals[with[j][1]] = with[j][2]
  <2>1. \A n : Initial(MadeWithout, "Units", n) = Unset
    BY DEF Initial, MadeWithout
  <2> QED  BY <1>1, <1>5, <2>1 DEF MadeAs, ClassOf
<1>7. \A n \in UnitNames : \E w \in Writes["Units"] : IsValue(w) /\ w.name = n
  BY KidsNamed DEF Named
<1>8. "Units" \in DOMAIN Writes
  BY DEF Writes
<1>9. \A n \in UnitNames : n \in ValueNames("Units")
  BY <1>7, <1>8, RowNames
<1>10. \A n \in UnitNames : ~Loses(object, n)
  <2>1. object.kids["Money"] = << >>
    <3>1. Child("Money", 420, Plain, "Money", "replace") \in Writes["Units"]
      BY DEF Writes, UnitsWrites
    <3>2. Child("Money", 420, Plain, "Money", "replace").name = "Money" /\ ~IsValue(Child("Money", 420, Plain, "Money", "replace"))
      BY DEF Child, IsValue
    <3>3. "Money" \in ChildNames("Units")
      BY <1>8, <3>1, <3>2, RowNames
    <3> QED  BY <1>6, <3>3 DEF NewObject
  <2> QED  BY <1>6, <2>1 DEF Loses, Spoils, Forgotten, MadeWithout, ReadWithout, UnitNames
<1>11. \A n \in UnitNames : read.vals[n] = object.vals[n]
  BY <1>1, <1>2, <1>6, <1>9, <1>10, ObjectReadIs DEF ReadIs
<1>12. PICK name \in UnitNames : name = UnitName(request.serviceType)
  BY <1>4
<1>13. name \notin Fussy
  BY DEF UnitNames, Fussy, Lost
<1>14. \A j \in 1..Len(with) : with[j][1] = name
  BY <1>4, <1>12 DEF UnitsGiven
<1>15. \A n \in UnitNames : n # name => object.vals[n] = Unset
  BY <1>6, <1>9, <1>14
<1>16. IsCharged(request) => object.vals[name] = request.units
  BY <1>4, <1>6, <1>12, <1>13 DEF UnitsGiven, Gives
<1>17. ~IsCharged(request) => object.vals[name] = Unset
  <2>1. ~IsCharged(request) => 1..Len(with) = {}
    BY <1>4 DEF UnitsGiven
  <2> QED  BY <1>6, <1>9, <2>1
<1>18. \A n \in UnitNames : read.vals[n] = IF IsCharged(request) /\ n = name THEN request.units ELSE Unset
  BY <1>11, <1>15, <1>16, <1>17
<1> QED  BY <1>2, <1>12, <1>18 DEF UnitsRead

(* A parameter that is read. *)
InfoRead(number, v, info) ==
  /\ info.vals["ServiceParameterInfoType"] = number
  /\ Unreadable(number, v) \/ info.vals["ServiceParameterInfoValue"] = v

(* A parameter is read as it was given. *)
LEMMA InfoIsRead ==
  ASSUME NEW msg, Sound(msg, {}), NEW o \in 1..Len(msg.objects), NEW number \in Nat, NEW v \in Int \ {Unset},
         MadeAs(NewChild("SPI", <<number, v>>), msg.objects[o])
  PROVE  InfoRead(number, v, ReadObject("SPI", EncodeAVPs(msg.heap), o))
<1>1. PICK object : object = msg.objects[o]
  OBVIOUS
<1>2. /\ object.class = "SPI" /\ object.vals["ServiceParameterInfoType"] = number
      /\ object.vals["ServiceParameterInfoValue"] = v
  BY <1>1 DEF MadeAs, NewChild, ClassOf
<1>3. PICK read : read = ReadObject("SPI", EncodeAVPs(msg.heap), o)
  OBVIOUS
<1>4. {"ServiceParameterInfoType", "ServiceParameterInfoValue"} \subseteq ValueNames("SPI")
  BY ParameterNames
<1>5. \A n \in {"ServiceParameterInfoType", "ServiceParameterInfoValue"} :
        Loses(object, n) \/ read.vals[n] = object.vals[n]
  BY <1>1, <1>2, <1>3, <1>4, ObjectReadIs DEF ReadIs
<1>6. ~Loses(object, "ServiceParameterInfoType")
  <2>1. object \in ObjectsOf("SPI")
    BY <1>1, <1>2, SoundAt
  <2>2. "ServiceParameterInfoType" \in DOMAIN object.vals
    BY <1>4, <2>1 DEF ObjectsOf
  <2>3. object.vals["ServiceParameterInfoType"] \notin {Unset, Undefined}
    BY <1>2 DEF Unset, Undefined
  <2>4. ~Forgotten(object, "ServiceParameterInfoType")
    BY <2>2, <2>3 DEF Forgotten
  <2> QED  BY <2>4 DEF Loses, Spoils
<1>7. Loses(object, "ServiceParameterInfoValue") => Unreadable(number, v)
  <2>1. Loses(object, "ServiceParameterInfoValue") => number >= 200 /\ (number >= 400 \/ Size("text", v) % 4 = 0)
    BY <1>2 DEF Loses, Spoils, Forgotten, MadeWithout, ReadWithout
  <2>2. Size("text", v) = v + 2
    BY DEF Size
  <2> QED  BY <2>1, <2>2 DEF Unreadable
<1> QED  BY <1>2, <1>3, <1>5, <1>6, <1>7 DEF InfoRead

(* A CCR as it is read: its session, its parameters in the order of their  *)
(* numbers, and one kind of units; nothing is known of the other.          *)
ReadOf(request, count, read) ==
  /\ OwnVals(request, read.vals)
  /\ Len(read.kids["SPI"]) = count /\ DOMAIN read.kids["SPI"] = 1..count
  /\ \A i \in 1..count : InfoRead(Numbers(request)[i], request.spi[Numbers(request)[i]], read.kids["SPI"][i])
  /\ Len(read.kids[UnitsName(request)]) = 1 /\ UnitsRead(request, read.kids[UnitsName(request)][1])
  /\ \A units \in Range(read.kids[OtherUnits(request)]) : units = Unknown

(* There is a child. *)
HasChild(object, n) == object.kids[n] # << >>

(* The name of the units is not that of a value. *)
LEMMA UnitsNamed ==
  ASSUME NEW object, NEW name \in {"SPI", "RequestedServiceUnits", "UsedServiceUnits"}, ~Spoils(object, name)
  PROVE  name \notin ValueNames("CCR")
<1>1. PICK w \in Writes["CCR"] : w.name = name /\ ~IsValue(w)
  BY ChildrenRows DEF ChildRow, ChildrenSent
<1>2. "CCR" \in DOMAIN Writes
  BY ChildrenRows
<1> QED  BY <1>1, <1>2, ChildrenNamed

(* Units that no one has made are what the constructor leaves. *)
LEMMA UnusedRead ==
  ASSUME NEW msg, Sound(msg, {}), 1 \in 1..Len(msg.objects), msg.objects[1].class = "CCR",
         ~HasChild(msg.objects[1], "UsedServiceUnits"), NEW initial
  PROVE  ReadKids(ReadRow("CCR", "UsedServiceUnits"), EncodeAVPs(msg.heap)[1], initial) = initial
<1>1. PICK object : object = msg.objects[1]
  OBVIOUS
<1>2. PICK node : node = msg.heap[1]
  OBVIOUS
<1>3. PICK avps : avps = EncodeAVPs(msg.heap)[1]
  OBVIOUS
<1>4. "CCR" \in DOMAIN Writes /\ Holds(object, node, {}) /\ Stands(node, avps)
  BY <1>1, <1>2, <1>3, ChildrenRows, SoundAt, SoundStands
<1>5. PICK w \in Writes["CCR"] : w = Child("UsedServiceUnits", 446, Plain, "Units", "replace")
  BY DEF Writes, CCRWrites
<1>6. w.name = "UsedServiceUnits" /\ w.code = 446 /\ ~IsValue(w) /\ w.rule # "set"
  BY <1>5 DEF Child, IsValue
<1>7. ChildHeld(object, w, node)
  BY <1>1, <1>4, <1>6 DEF Holds, RowsHeld, RowHeld
<1>8. 446 \notin DOMAIN node
  <2>1. ~Spoils(object, w.name)
    BY <1>1, <1>6 DEF Spoils
  <2>2. ASSUME NEW id PROVE object.kids[w.name] # <<id>>
    <3>1. <<id>> # << >>
      OBVIOUS
    <3>2. ~HasChild(object, w.name)
      BY <1>1, <1>6
    <3> QED  BY <3>1, <3>2, Zenon DEF HasChild
  <2> QED  BY <1>6, <1>7, <2>1, <2>2, Zenon DEF ChildHeld
<1>9. GetAVPData(avps, 446) = << >>
  BY <1>4, <1>8 DEF Stands, GotFirst, Filed
<1>10. PICK row \in Reads["CCR"] : row = First("UsedServiceUnits", 446, "Units")
  BY DEF Reads, CCRReads
<1>11. row.name = "UsedServiceUnits" /\ row.code = 446 /\ row.rule = "first"
  BY <1>10 DEF First
<1>12. ReadRow("CCR", "UsedServiceUnits") = row
  BY <1>4, <1>10, <1>11, ReadRowIs
<1>13. ReadKids(row, avps, initial) = initial
  BY <1>9, <1>11 DEF ReadKids
<1> QED  BY <1>3, <1>12, <1>13

(* The OCS reads of a CCR what the request says. *)
LEMMA CCRIsRead ==
  ASSUME NEW request, IsRequest(request), NEW count \in Nat, NumbersAre(request, count)
  PROVE  ReadOf(request, count, Received(CCR(request)))
<1>1. PICK new : new = CCR(request)
  OBVIOUS
<1>2. PICK children : children = Children(request)
  OBVIOUS
<1>3. CCRMade(request, count, children, new) /\ ChildrenAre(request, children, count)
  BY <1>1, <1>2, CCRIsMade, ChildrenOf
<1>4. PICK n \in count + 2 .. count + 3 : n = Len(children)
  BY <1>3 DEF ChildrenAre
<1>5. PICK object : object = new.objects[1]
  OBVIOUS
<1>6. GraftedFirst(request, children, count, object.vals, n, new) /\ OwnVals(request, object.vals)
  BY <1>3, <1>4, <1>5 DEF CCRMade
<1>7. /\ Sound(new, {}) /\ Len(new.objects) = n + 1 /\ object.class = "CCR"
      /\ \A j \in 1..n : MadeAs(children[j], new.objects[j + 1])
  BY <1>5, <1>6 DEF GraftedFirst
<1>8. PICK ids \in Seq(Nat) : ids = object.kids["SPI"]
  BY <1>5, <1>6 DEF GraftedFirst
<1>9. Len(ids) = count /\ \A i \in 1..count : ids[i] = i + 2
  <2>1. InfosBy(n, count) = count
    BY <1>4 DEF InfosBy
  <2> QED  BY <1>5, <1>6, <1>8, <2>1 DEF GraftedFirst
<1>10. object.kids[UnitsName(request)] = <<count + 3>> /\ object.kids[OtherUnits(request)] = << >>
  <2>1. n >= count + 2
    BY <1>4
  <2> QED  BY <1>5, <1>6, <2>1 DEF GraftedFirst
<1>11. PICK wire : wire = EncodeAVPs(new.heap)
  OBVIOUS
<1>12. PICK root : root = ReadObject("CCR", wire, 1)
  OBVIOUS
<1>13. PICK read : read = Received(new)
  OBVIOUS
<1>14. /\ read.vals = root.vals
       /\ read.kids = [name \in DOMAIN root.kids |->
                         [i \in DOMAIN root.kids[name] |-> ReadChild(ReadRow("CCR", name).class, wire, root.kids[name][i])]]
  BY <1>5, <1>7, <1>11, <1>12, <1>13 DEF Received, ReadMessage, WithChildren
<1>15. /\ \A name \in ValueNames("CCR") : Loses(object, name) \/ root.vals[name] = object.vals[name]
       /\ \A name \in ChildNames("CCR") : Loses(object, name) \/ root.kids[name] = object.kids[name]
  <2>1. PICK o \in 1..Len(new.objects) : o = 1
    BY <1>4, <1>7
  <2>2. PICK k : k = new.objects[o].class /\ k = "CCR"
    BY <1>5, <1>7, <2>1
  <2>3. ReadIs(new.objects[o], k, ReadObject(k, EncodeAVPs(new.heap), o))
    BY <1>7, <2>2, ObjectReadIs
  <2>4. ReadIs(object, "CCR", root)
    BY <1>5, <1>11, <1>12, <2>1, <2>2, <2>3
  <2> QED  BY <2>4 DEF ReadIs
<1>16. OwnVals(request, read.vals)
  <2> DEFINE names == {"SessionId", "ServiceIdentifier", "RequestType", "RequestNumber"}
  <2>1. \A name \in names : name \in OwnNames
    BY DEF OwnNames
  <2>2. \A name \in names : name \in ValueNames("CCR")
    BY <2>1, OwnNamed, ChildrenRows, RowNames DEF Named
  <2>3. \A name \in names : ~Loses(object, name)
    BY <1>7 DEF Loses, Spoils, Forgotten, MadeWithout, ReadWithout
  <2>4. \A name \in names : read.vals[name] = object.vals[name]
    BY <1>14, <1>15, <2>2, <2>3
  <2> QED  BY <1>6, <2>4 DEF OwnVals
<1>29. object \in ObjectsOf("CCR") /\ "CCR" \in DOMAIN Writes
  <2>1. 1 \in 1..Len(new.objects)
    BY <1>4, <1>7
  <2> QED  BY <1>5, <1>7, <2>1, SoundAt
<1>17. ASSUME NEW name \in {"SPI", "RequestedServiceUnits", "UsedServiceUnits"},
              name = "UsedServiceUnits" => HasChild(object, name)
       PROVE  read.kids[name] = [i \in DOMAIN object.kids[name] |-> ReadObject(ClassOf(name), wire, object.kids[name][i])]
  <2>1. name \in ChildNames("CCR")
    BY ChildrenRows, RowNames DEF ChildRow, ChildrenSent
  <2>2. ~Loses(object, name)
    <3>1. ~Spoils(object, name)
      BY <1>7 DEF Spoils
    <3>2. name \notin ValueNames("CCR")
      BY <1>29, <3>1, UnitsNamed
    <3>3. name \notin DOMAIN object.vals
      BY <1>29, <3>2 DEF ObjectsOf
    <3>4. ~Forgotten(object, name)
      <4>1. name # "UsedServiceUnits" => <<object.class, name>> \notin MadeWithout \cup ReadWithout
        BY <1>7 DEF MadeWithout, ReadWithout
      <4>2. Forgotten(object, name) =>
              <<object.class, name>> \in MadeWithout \cup ReadWithout /\ ~HasChild(object, name)
        BY <3>3, Zenon DEF Forgotten, HasChild
      <4> QED  BY <1>17, <4>1, <4>2
    <3> QED  BY <3>1, <3>4 DEF Loses
  <2>3. root.kids[name] = object.kids[name]
    BY <1>15, <2>1, <2>2
  <2>4. name \in DOMAIN root.kids
    <3>1. name \in {r.name : r \in {x \in Reads["CCR"] : ~IsValue(x)}}
      BY ChildrenReadRows
    <3> QED  BY <1>12, <3>1 DEF ReadObject
  <2>5. ReadRow("CCR", name).class = ClassOf(name)
    BY ChildrenReadRows
  <2>6. PICK kids \in Seq(Nat) : kids = object.kids[name]
    BY <1>29, <2>1 DEF ObjectsOf
  <2>7. PICK class : class = ClassOf(name)
    OBVIOUS
  <2>8. read.kids[name] = [i \in DOMAIN kids |-> ReadChild(class, wire, kids[i])]
    BY <1>14, <2>3, <2>4, <2>5, <2>6, <2>7
  <2>9. \A i \in DOMAIN kids : ReadChild(class, wire, kids[i]) = ReadObject(class, wire, kids[i])
    BY ChildIsRead
  <2> QED  BY <2>6, <2>7, <2>8, <2>9
<1>18. PICK infos : infos = read.kids["SPI"]
  OBVIOUS
<1>19. infos = [i \in 1..count |-> ReadObject("SPI", wire, ids[i])]
  <2>1. DOMAIN ids = 1..count /\ ClassOf("SPI") = "SPI"
    BY <1>9 DEF ClassOf
  <2> QED  BY <1>8, <1>17, <1>18, <2>1
<1>20. ASSUME NEW i \in 1..count
       PROVE  InfoRead(Numbers(request)[i], request.spi[Numbers(request)[i]], infos[i])
  <2>1. PICK number \in DOMAIN request.spi : number = Numbers(request)[i]
    BY DEF NumbersAre
  <2>2. PICK v \in Int \ {Unset} : v = request.spi[number]
    BY DEF IsRequest
  <2>3. PICK o \in 1..Len(new.objects) : o = i + 2
    BY <1>4, <1>7
  <2>4. children[i + 1] = NewChild("SPI", <<number, v>>)
    BY <1>3, <2>1, <2>2 DEF ChildrenAre
  <2>5. PICK j \in 1..n : j = i + 1 /\ j + 1 = o
    BY <1>4, <2>3
  <2>6. MadeAs(NewChild("SPI", <<number, v>>), new.objects[o])
    BY <1>7, <2>4, <2>5
  <2>7. number \in Nat
    BY DEF IsRequest
  <2>8. InfoRead(number, v, ReadObject("SPI", EncodeAVPs(new.heap), o))
    BY <1>7, <2>6, <2>7, InfoIsRead
  <2>9. infos[i] = ReadObject("SPI", wire, o)
    BY <1>9, <1>19, <2>3
  <2> QED  BY <1>11, <2>1, <2>2, <2>8, <2>9
<1>21. Len(infos) = count /\ DOMAIN infos = 1..count
  BY <1>19
<1>22. /\ UnitsName(request) \in {"RequestedServiceUnits", "UsedServiceUnits"}
       /\ OtherUnits(request) \in {"RequestedServiceUnits", "UsedServiceUnits"}
       /\ ClassOf(UnitsName(request)) = "Units"
  BY DEF UnitsName, OtherUnits, ClassOf
<1>23. PICK o \in 1..Len(new.objects) : o = count + 3
  BY <1>4, <1>7
<1>24. PICK one : one = read.kids[UnitsName(request)]
  OBVIOUS
<1>25. Len(one) = 1 /\ one[1] = ReadObject("Units", wire, o)
  <2>1. PICK s : s = <<o>>
    OBVIOUS
  <2>2. DOMAIN s = 1..1 /\ s[1] = o
    BY <2>1
  <2>6. HasChild(object, UnitsName(request))
    BY <1>10, <1>23, <2>1, <2>2 DEF HasChild
  <2>3. one = [i \in DOMAIN s |-> ReadObject("Units", wire, s[i])]
    BY <1>10, <1>17, <1>22, <1>23, <1>24, <2>1, <2>6
  <2>4. one = [i \in 1..1 |-> ReadObject("Units", wire, s[i])]
    BY <2>2, <2>3
  <2>5. 1 \in 1..1
    OBVIOUS
  <2> QED  BY <2>2, <2>4, <2>5
<1>26. UnitsRead(request, one[1])
  <2>1. PICK j \in 1..n : j = count + 2 /\ j + 1 = o
    BY <1>4, <1>23
  <2>2. children[j] = UnitsChild(request)
    BY <1>3, <2>1 DEF ChildrenAre
  <2>3. MadeAs(UnitsChild(request), new.objects[o])
    BY <1>7, <2>1, <2>2
  <2> QED  BY <1>7, <1>11, <1>25, <2>3, UnitsAreRead
<1>27. \A units \in Range(read.kids[OtherUnits(request)]) : units = Unknown
  <2>1. PICK none : none = read.kids[OtherUnits(request)]
    OBVIOUS
  <2>2. DOMAIN << >> = {}
    OBVIOUS
  <2>3. CASE OtherUnits(request) = "RequestedServiceUnits"
    <3>1. none = [i \in {} |-> ReadObject("Units", wire, object.kids[OtherUnits(request)][i])]
      BY <1>10, <1>17, <1>22, <2>1, <2>2, <2>3 DEF ClassOf
    <3>2. Range(none) = {}
      BY <3>1 DEF Range
    <3> QED  BY <2>1, <3>2
  <2>4. CASE OtherUnits(request) = "UsedServiceUnits"
    <3>1. PICK initial : initial = InitialKids("CCR", "UsedServiceUnits")
      OBVIOUS
    <3>2. root.kids["UsedServiceUnits"] = initial
      <4>1. 1 \in 1..Len(new.objects)
        BY <1>4, <1>7
      <4>2. ReadKids(ReadRow("CCR", "UsedServiceUnits"), wire[1], initial) = initial
        BY <1>5, <1>7, <1>10, <1>11, <2>4, <4>1, UnusedRead DEF HasChild
      <4>3. "UsedServiceUnits" \in {r.name : r \in {x \in Reads["CCR"] : ~IsValue(x)}}
        BY ChildrenReadRows
      <4> QED  BY <1>12, <3>1, <4>2, <4>3 DEF ReadObject
    <3>3. initial = <<Undefined>>
      BY <3>1 DEF InitialKids, ReadWithout
    <3>4. "UsedServiceUnits" \in DOMAIN root.kids
      <4>1. "UsedServiceUnits" \in {r.name : r \in {x \in Reads["CCR"] : ~IsValue(x)}}
        BY ChildrenReadRows
      <4> QED  BY <1>12, <4>1 DEF ReadObject
    <3>5. PICK class : class = ReadRow("CCR", "UsedServiceUnits").class
      OBVIOUS
    <3>6. none = [i \in DOMAIN initial |-> ReadChild(class, wire, initial[i])]
      BY <1>14, <2>1, <2>4, <3>2, <3>4, <3>5
    <3>7. \A i \in DOMAIN initial : ReadChild(class, wire, initial[i]) = Unknown
      BY <3>3 DEF ReadChild
    <3>8. \A i \in DOMAIN none : none[i] = Unknown
      BY <3>6, <3>7
    <3> QED  BY <2>1, <3>8 DEF Range
  <2> QED  BY <1>22, <2>3, <2>4
<1>28. ReadOf(request, count, read)
  BY <1>16, <1>18, <1>20, <1>21, <1>24, <1>25, <1>26, <1>27 DEF ReadOf
<1> QED  BY <1>1, <1>13, <1>28

----------------------------------------------------------------------------
(* What a JSON message is, and what is made of it.                         *)

(* A member's value is a number, and Unset only where nobody looks.        *)
IsJson(json) ==
  /\ \A n \in DOMAIN json : json[n] \in Int
  /\ \A n \in DOMAIN json \ (Mandatory \cup {"session_id"}) : json[n] # Unset

(* The members that every opening has. *)
LEMMA BaseIs ==
  ASSUME NEW type \in Int, NEW service \in Int
  PROVE  /\ DOMAIN Base(type, service) = Mandatory
         /\ \A n \in Mandatory : Base(type, service)[n] \in Int
         /\ Base(type, service).msg_type_id = type /\ Base(type, service).ocs_si = service
         /\ Base(type, service).id = 1
  BY DEF Base, Mandatory

(* An opening is a message without a session of its own. *)
LEMMA OpeningIs ==
  ASSUME NEW json \in Openings
  PROVE  /\ IsJson(json) /\ json.id = 1 /\ "session_id" \notin DOMAIN json
<1>0. PICK names \in UNION {kSubset(k, DOMAIN Given) : k \in 0..MaxOptional}, type \in Types, service \in Services :
        json = Beside(Restrict(Given, names), Base(type, service))
  BY DEF Openings
<1>1. names \subseteq DOMAIN Given /\ json = Beside(Restrict(Given, names), Base(type, service))
  BY <1>0 DEF kSubset
<1>2. type \in Int /\ service \in Int
  BY GivenAssumption
<1>3. PICK base : base = Base(type, service)
  OBVIOUS
<1>4. DOMAIN base = Mandatory /\ (\A n \in Mandatory : base[n] \in Int) /\ base.id = 1
  BY <1>2, <1>3, BaseIs
<1>5. PICK given : given = [n \in names |-> Given[n]]
  OBVIOUS
<1>6. json = [n \in names \cup Mandatory |-> IF n \in names THEN given[n] ELSE base[n]]
  BY <1>1, <1>3, <1>4, <1>5 DEF Beside, Restrict
<1>7. /\ names \cap (Mandatory \cup {"session_id"}) = {}
      /\ \A n \in names : given[n] \in Int \ {Unset}
  BY <1>1, <1>5, GivenAssumption
<1>8. DOMAIN json = names \cup Mandatory /\ \A n \in Mandatory : json[n] = base[n]
  BY <1>6, <1>7
<1>9. \A n \in names : json[n] = given[n]
  BY <1>6
<1>10. "id" \in Mandatory /\ "session_id" \notin Mandatory
  BY DEF Mandatory
<1> QED  BY <1>4, <1>7, <1>8, <1>9, <1>10 DEF IsJson

(* An incomplete message that is accepted is no quote. *)
LEMMA IncompleteIs ==
  ASSUME NEW json \in Incomplete, ~Refused(json)
  PROVE  /\ IsJson(json) /\ ~Quoted(json)
<1>1. PICK name \in Mandatory, type \in Types, service \in Services :
        json = Restrict(Base(type, service), Mandatory \ {name})
  BY DEF Incomplete
<1>2. type \in Int /\ service \in Int
  BY GivenAssumption
<1>3. PICK base : base = Base(type, service)
  OBVIOUS
<1>4. json = [n \in Mandatory \ {name} |-> base[n]]
  BY <1>1, <1>3 DEF Restrict
<1>5. \A n \in Mandatory : base[n] \in Int
  BY <1>2, <1>3, BaseIs
<1>6. IsJson(json)
  BY <1>4, <1>5 DEF IsJson
<1>7. name = "msisdn"
  BY <1>4 DEF Refused, Mandatory
<1>8. msgTypetoRequestType(json.msg_type_id) = "CHARGE"
  BY <1>4, <1>7 DEF Refused
<1> QED  BY <1>6, <1>8 DEF Quoted

(* A charge or a release of a session that was quoted. *)
ChargeOf(quote, type, units) ==
  Beside([msg_type_id |-> type, ocs_si |-> quote.ocs_si, id |-> 2, session_id |-> quote.id,
          operation |-> 8, tube_resp |-> 9], units)

(* A charge is of the session and the service of its quote. *)
LEMMA ChargeIs ==
  ASSUME NEW quote, IsJson(quote), {"id", "ocs_si"} \subseteq DOMAIN quote, NEW json \in Charges(quote), Quoted(quote)
  PROVE  /\ IsJson(json) /\ json.ocs_si = quote.ocs_si
         /\ "session_id" \in DOMAIN json /\ json.session_id = quote.id
         /\ msgTypetoRequestType(json.msg_type_id) = "CHARGE"
         /\ "units" \in DOMAIN json => json.units \in {-5, 3}
<1>1. PICK type, units :
        /\ type \in {104, 118, 107, 119, 113, 120}
        /\ units \in {<< >>} \cup {[units |-> u] : u \in {-5, 3}}
        /\ json = ChargeOf(quote, type, units)
  <2>1. quote.msg_type_id \in {103, 106, 112}
    BY DEF Quoted, msgTypetoRequestType, Release
  <2> DEFINE kinds == CASE quote.msg_type_id = 103 -> {104, 118} [] quote.msg_type_id = 106 -> {107, 119}
                        [] quote.msg_type_id = 112 -> {113, 120}
  <2>2. kinds \subseteq {104, 118, 107, 119, 113, 120}
    BY <2>1
  <2> HIDE DEF kinds
  <2> DEFINE Us == {<< >>} \cup {[units |-> u] : u \in {-5, 3}}
  <2>3. Charges(quote) = {ChargeOf(quote, type, units) : type \in kinds, units \in Us}
    BY DEF Charges, kinds, ChargeOf
  <2> HIDE DEF Us
  <2>4. PICK type \in kinds, units \in Us : json = ChargeOf(quote, type, units)
    BY <2>3
  <2>5. type \in {104, 118, 107, 119, 113, 120}
    BY <2>2
  <2> QED  BY <2>4, <2>5 DEF Us
<1>2. PICK base : base = [msg_type_id |-> type, ocs_si |-> quote.ocs_si, id |-> 2, session_id |-> quote.id,
                          operation |-> 8, tube_resp |-> 9]
  OBVIOUS
<1>3. quote.id \in Int /\ quote.ocs_si \in Int
  BY DEF IsJson
<1>4. /\ DOMAIN base = {"msg_type_id", "ocs_si", "id", "session_id", "operation", "tube_resp"}
      /\ \A n \in DOMAIN base : base[n] \in Int
      /\ base.msg_type_id = type /\ base.ocs_si = quote.ocs_si /\ base.session_id = quote.id
  BY <1>1, <1>2, <1>3
<1>5. DOMAIN units \subseteq {"units"} /\ ("units" \in DOMAIN units => units["units"] \in {-5, 3})
  <2>1. DOMAIN << >> = {}
    OBVIOUS
  <2>2. CASE units = << >>
    BY <2>1, <2>2
  <2>3. CASE units \in {[units |-> u] : u \in {-5, 3}}
    BY <2>3
  <2> QED  BY <1>1, <2>2, <2>3
<1>6. json = [n \in DOMAIN base \cup DOMAIN units |-> IF n \in DOMAIN base THEN base[n] ELSE units[n]]
  BY <1>1, <1>2 DEF Beside, ChargeOf
<1>7. DOMAIN json = DOMAIN base \cup DOMAIN units /\ (\A n \in DOMAIN base : json[n] = base[n])
  BY <1>6
<1>8. "units" \in DOMAIN json => json["units"] \in {-5, 3}
  BY <1>4, <1>5, <1>6
<1>9. DOMAIN base \subseteq Mandatory \cup {"session_id"}
  BY <1>4 DEF Mandatory
<1>10. \A n \in DOMAIN json : json[n] \in Int
  BY <1>4, <1>5, <1>7, <1>8
<1>11. \A n \in DOMAIN json \ (Mandatory \cup {"session_id"}) : json[n] # Unset
  BY <1>5, <1>7, <1>8, <1>9 DEF Unset
<1>12. msgTypetoRequestType(type) = "CHARGE"
  BY <1>1 DEF msgTypetoRequestType, Release
<1> QED  BY <1>4, <1>7, <1>8, <1>10, <1>11, <1>12 DEF IsJson

(* The parameters: none has the name of another member, and no two of one  *)
(* service have one number.                                                *)
Collides(j, k) ==
  /\ Parameters[j].number = Parameters[k].number
  /\ Parameters[j].services \cap Parameters[k].services # {}

(* The table of the parameters, row by row. *)
LEMMA ParametersAre ==
  /\ DOMAIN Parameters = 1..21
  /\ \A k \in 1..21 : Parameters[k].number \in Nat
  /\ \A k \in 1..21 : Parameters[k].name \notin Mandatory \cup {"session_id"}
  /\ \A j, k \in 1..21 : Collides(j, k) => j = k
<1>1. \A n, s, i : Parameter(n, s, i).name = n /\ Parameter(n, s, i).services = s /\ Parameter(n, s, i).number = i
  BY DEF Parameter
<1>2. DOMAIN Parameters = 1..21
  BY DEF Parameters
<1>3. \A k \in 1..21 : Parameters[k].number \in Nat
  BY <1>1 DEF Parameters
<1>4. \A k \in 1..21 : Parameters[k].name \notin Mandatory \cup {"session_id"}
  BY <1>1 DEF Parameters, Mandatory
<1>5. ASSUME NEW j \in 1..21, NEW k \in 1..21, Collides(j, k)
      PROVE  j = k
  BY <1>1, <1>5 DEF Parameters, Collides, OneUnit
<1> QED  BY <1>2, <1>3, <1>4, <1>5

-----------------------------------------------------------------------------
(* The parameters of a request.                                            *)

(* A parameter is found by its number. *)
LEMMA ParameterFound ==
  ASSUME NEW json, NEW k \in Told(json)
  PROVE  k \in 1..21 /\ ParameterOf(json, Parameters[k].number) = k
<1>1. /\ Told(json) \subseteq 1..21
      /\ \A j \in Told(json) : json.ocs_si \in Parameters[j].services
  BY ParametersAre DEF Told
<1>2. \A j \in Told(json) : Parameters[j].number = Parameters[k].number => Collides(j, k)
  BY <1>1 DEF Collides
<1>3. {j \in Told(json) : Parameters[j].number = Parameters[k].number} = {k}
  BY <1>1, <1>2, ParametersAre
<1>4. k \in Int
  BY <1>1
<1>5. Max({k}) = k
  <2>1. k >= k
    BY <1>4
  <2>2. \E x \in {k} : \A y \in {k} : x >= y
    BY <2>1
  <2>3. \A x \in {k} : x = k
    OBVIOUS
  <2> QED  BY <2>2, <2>3 DEF Max
<1> QED  BY <1>1, <1>3, <1>5 DEF ParameterOf

(* How many parameters a message has. *)
NumbersTold(json) ==
  /\ Told(json) \subseteq 1..21 /\ IsFiniteSet(Told(json))
  /\ SPINumbers(json) \subseteq Nat /\ IsFiniteSet(SPINumbers(json))
  /\ Cardinality(SPINumbers(json)) = Cardinality(Told(json)) + (IF QuotesRefund(json) THEN 1 ELSE 0)

(* No two parameters of a message meet in one number. *)
LEMMA NumbersAreTold ==
  ASSUME NEW json
  PROVE  NumbersTold(json)
<1>1. Told(json) \subseteq 1..21
  BY ParametersAre DEF Told
<1>2. PICK told \in SUBSET (1..21) : told = Told(json)
  BY <1>1
<1>3. IsFiniteSet(told)
  <2>1. IsFiniteSet(1..21)
    <3>1. \A a, b \in Int : IsFiniteSet(a..b)
      BY FS_Interval
    <3>2. PICK a \in Int, b \in Int : a = 1 /\ b = 21
      OBVIOUS
    <3>3. IsFiniteSet(a..b)
      BY <3>1
    <3> QED  BY <3>2, <3>3
  <2> QED  BY <2>1, FS_Subset
<1>4. PICK numbers : numbers = {Parameters[k].number : k \in told}
  OBVIOUS
<1>5. ExistsBijection(told, numbers)
  <2>1. PICK f : f = [k \in told |-> Parameters[k].number]
    OBVIOUS
  <2>2. f \in [told -> numbers] /\ \A n \in numbers : \E k \in told : f[k] = n
    BY <1>4, <2>1
  <2>3. \A j, k \in told : f[j] = f[k] => j = k
    <3>1. \A j, k \in told : f[j] = f[k] => Collides(j, k)
      BY <1>2, <2>1 DEF Told, Collides
    <3> QED  BY <3>1, ParametersAre
  <2> QED  BY <2>2, <2>3 DEF ExistsBijection, Bijection, Injection, Surjection, IsInjective
<1>6. IsFiniteSet(numbers) /\ Cardinality(numbers) = Cardinality(told)
  BY <1>3, <1>5, FS_Bijection
<1>7. numbers \subseteq Nat
  BY <1>4, ParametersAre
<1>8. CASE ~QuotesRefund(json)
  <2>1. SPINumbers(json) = numbers
    BY <1>2, <1>4, <1>8 DEF SPINumbers
  <2>2. Cardinality(told) \in Nat
    BY <1>3, FS_CardinalityType
  <2> QED  BY <1>2, <1>3, <1>6, <1>7, <1>8, <2>1, <2>2 DEF NumbersTold
<1>9. CASE QuotesRefund(json)
  <2>1. SPINumbers(json) = numbers \cup {2}
    BY <1>2, <1>4, <1>9 DEF SPINumbers
  <2>2. 2 \notin numbers
    <3>1. \A k \in 1..21 : Parameters[k].number = 2 => 14 \notin Parameters[k].services
      BY DEF Parameters, Parameter, OneUnit
    <3>2. \A k \in told : 14 \in Parameters[k].services
      BY <1>2, <1>9 DEF Told, QuotesRefund, MONEY_REFUND
    <3> QED  BY <1>4, <3>1, <3>2
  <2>3. IsFiniteSet(numbers \cup {2}) /\ Cardinality(numbers \cup {2}) = Cardinality(numbers) + 1
    BY <1>6, <2>2, FS_AddElement
  <2> QED  BY <1>2, <1>3, <1>6, <1>7, <1>9, <2>1, <2>3 DEF NumbersTold
<1> QED  BY <1>8, <1>9

(* What a parameter is sent with. *)
LEMMA InfoSent ==
  ASSUME NEW json, NEW k \in Told(json)
  PROVE  /\ Parameters[k].number \in SPINumbers(json)
         /\ SPIMap(json)[Parameters[k].number] = Get(json, Parameters[k].name, 100)
<1>1. Parameters[k].number \in SPINumbers(json)
  BY DEF SPINumbers
<1>2. ~ \A j \in Told(json) : Parameters[j].number # Parameters[k].number
  OBVIOUS
<1> QED  BY <1>1, <1>2, ParameterFound DEF SPIMap

(* Every parameter that is sent has a value. *)
LEMMA ParametersSent ==
  ASSUME NEW json, IsJson(json), NEW number \in SPINumbers(json)
  PROVE  SPIMap(json)[number] \in Int \ {Unset}
<1>1. \A n \in DOMAIN json : n \notin Mandatory \cup {"session_id"} => json[n] \in Int \ {Unset}
  BY DEF IsJson
<1>2. CASE \E k \in Told(json) : Parameters[k].number = number
  <2>1. PICK k \in Told(json) : Parameters[k].number = number
    BY <1>2
  <2>2. SPIMap(json)[number] = Get(json, Parameters[k].name, 100)
    BY <2>1, InfoSent
  <2>3. Parameters[k].name \notin Mandatory \cup {"session_id"}
    BY ParameterFound, ParametersAre
  <2> QED  BY <1>1, <2>2, <2>3 DEF Get, Unset
<1>3. CASE \A k \in Told(json) : Parameters[k].number # number
  <2>1. SPIMap(json)[number] = json["units"]
    BY <1>3 DEF SPIMap
  <2>2. "units" \in DOMAIN json
    BY <1>3 DEF SPINumbers, QuotesRefund
  <2>3. "units" \notin Mandatory \cup {"session_id"}
    BY DEF Mandatory
  <2> QED  BY <1>1, <2>1, <2>2, <2>3
<1> QED  BY <1>2, <1>3

(* A message that is accepted makes a request that can be sent. *)
LEMMA ParsedSent ==
  ASSUME NEW json, IsJson(json), ~Refused(json), NEW incoming
  PROVE  IsRequest(parseJsonMessage(json, incoming))
<1>1. \A n \in DOMAIN json : json[n] \in Int
  BY DEF IsJson
<1>2. {"msg_type_id", "ocs_si", "id"} \subseteq DOMAIN json
  BY DEF Refused
<1>3. msgTypetoRequestType(json.msg_type_id) \in {"DIRECT_DEBIT", "QUOTE", "CHARGE"}
  BY DEF Refused, msgTypetoRequestType
<1>4. \A n : \A d \in Int : Get(json, n, d) \in Int
  BY <1>1 DEF Get
<1>5. Units(json) \in Int
  BY <1>4 DEF Units
<1>6. sessionIdStr(json) \in Int
  <2>1. json["ocs_si"] \in Int /\ json["id"] \in Int
    BY <1>1, <1>2
  <2>2. Get(json, "session_id", 0) # 0 => json["session_id"] \in Int
    BY <1>1 DEF Get
  <2> QED  BY <2>1, <2>2 DEF sessionIdStr
<1>7. PICK spi : spi = SPIMap(json)
  OBVIOUS
<1>8. DOMAIN spi = SPINumbers(json) /\ \A number \in SPINumbers(json) : spi[number] \in Int \ {Unset}
  <2>1. DOMAIN spi = SPINumbers(json)
    BY <1>7 DEF SPIMap
  <2> QED  BY <1>7, <2>1, ParametersSent
<1>9. SPINumbers(json) \subseteq Nat /\ IsFiniteSet(SPINumbers(json))
  BY NumbersAreTold DEF NumbersTold
<1>10. Unset \in Int
  BY DEF Unset
<1>11. PICK request : request = parseJsonMessage(json, incoming)
  OBVIOUS
<1>12. /\ request.requestType = msgTypetoRequestType(json.msg_type_id) /\ request.sessionIdStr = sessionIdStr(json)
       /\ request.serviceType = json.ocs_si /\ request.units = Units(json) /\ request.spi = spi
       /\ request.location = Get(json, "location", Unset) /\ request.otherNum = Get(json, "other_num", Unset)
       /\ request.msisdn = Get(json, "msisdn", Unset)
  BY <1>7, <1>11 DEF parseJsonMessage
<1>13. json.ocs_si \in Int
  BY <1>1, <1>2
<1> QED  BY <1>3, <1>4, <1>5, <1>6, <1>8, <1>9, <1>10, <1>11, <1>12, <1>13 DEF IsRequest

-----------------------------------------------------------------------------
(* The theorems: one session.                                              *)

(* What the OCS has read of a message. *)
MadeOf(json, request) ==
  /\ request.requestType = msgTypetoRequestType(json.msg_type_id) /\ request.sessionIdStr = sessionIdStr(json)
  /\ request.serviceType = json.ocs_si /\ request.units = Units(json) /\ request.spi = SPIMap(json)

SentRead(json, request, count, read) ==
  /\ IsJson(json) /\ ~Refused(json)
  /\ MadeOf(json, request) /\ IsRequest(request) /\ NumbersAre(request, count) /\ ReadOf(request, count, read)

(* What was sent was a message, and not refused. *)
LEMMA MessageSent ==
  ASSUME MappingInv, NEW i \in 1..Len(sent)
  PROVE  IsJson(sent[i].json) /\ ~Refused(sent[i].json)
<1>1. PICK n \in Nat : n = Len(sent)
  BY DEF MappingInv, SentInv
<1>2. n <= 2 /\ i \in 1..n /\ i \in 1..2
  BY <1>1 DEF MappingInv, SentInv
<1>3. ~Refused(sent[i].json)
  BY DEF MappingInv, SentInv
<1>4. n >= 1 /\ 1 \in 1..n /\ (i = 1 \/ (i = 2 /\ n = 2))
  BY <1>1, <1>2
<1>5. sent[1].json \in Openings \cup Incomplete /\ ~Refused(sent[1].json)
  BY <1>1, <1>4 DEF MappingInv, SentInv
<1>6. IsJson(sent[1].json)
  BY <1>5, OpeningIs, IncompleteIs
<1>7. CASE i = 1
  BY <1>3, <1>6, <1>7
<1>8. CASE i = 2 /\ n = 2
  <2>1. Quoted(sent[1].json) /\ sent[2].json \in Charges(sent[1].json)
    BY <1>1, <1>8 DEF MappingInv, SentInv
  <2>2. {"id", "ocs_si"} \subseteq DOMAIN sent[1].json
    BY <1>5 DEF Refused
  <2>3. IsJson(sent[2].json)
    BY <1>6, <2>1, <2>2, ChargeIs
  <2> QED  BY <1>3, <1>8, <2>3
<1> QED  BY <1>4, <1>7, <1>8

(* What the OCS has read is what the message says. *)
LEMMA WhatIsRead ==
  ASSUME MappingInv, NEW i \in 1..Len(sent)
  PROVE  \E request : \E count \in Nat : SentRead(sent[i].json, request, count, sent[i].read)
<1>1. PICK json : json = sent[i].json
  OBVIOUS
<1>2. PICK incoming \in BOOLEAN : SentAs(sent[i].json, incoming, i)
  BY DEF MappingInv, SentInv
<1>3. IsJson(json) /\ ~Refused(json)
  BY <1>1, MessageSent
<1>4. PICK request : request = parseJsonMessage(json, incoming)
  OBVIOUS
<1>5. sent[i].read = Received(CCR(request))
  BY <1>1, <1>2, <1>4 DEF SentAs
<1>6. IsRequest(request)
  BY <1>3, <1>4, ParsedSent
<1>7. PICK count \in Nat : NumbersAre(request, count)
  BY <1>6, NumbersOf
<1>8. ReadOf(request, count, Received(CCR(request)))
  BY <1>6, <1>7, CCRIsRead
<1>9. MadeOf(json, request)
  BY <1>4 DEF parseJsonMessage, MadeOf
<1>10. SentRead(json, request, count, sent[i].read)
  BY <1>3, <1>5, <1>6, <1>7, <1>8, <1>9 DEF SentRead
<1> QED  BY <1>1, <1>10

(* A quote and the charge that follows it, as the OCS reads them. *)
QuoteOf(quote, read) ==
  /\ read.vals["SessionId"] = sessionIdStr(quote) /\ read.vals["ServiceIdentifier"] = quote.ocs_si
  /\ read.vals["RequestType"] = 1 /\ read.vals["RequestNumber"] = 0
  /\ Len(read.kids["RequestedServiceUnits"]) = 1
  /\ \A units \in Range(read.kids["UsedServiceUnits"]) : units = Unknown
  /\ \A n \in UnitNames : read.kids["RequestedServiceUnits"][1].vals[n] =
                            IF Units(quote) > 0 /\ n = UnitName(quote.ocs_si) THEN Units(quote) ELSE Unset

(* A quote as the OCS reads it. *)
LEMMA QuoteIsRead ==
  ASSUME NEW quote, NEW request, NEW count \in Nat, NEW read, SentRead(quote, request, count, read), Quoted(quote)
  PROVE  QuoteOf(quote, read)
<1>1. request.requestType = "QUOTE"
  BY DEF SentRead, MadeOf, Quoted
<1>2. /\ Kind(request) = 1 /\ UnitsName(request) = "RequestedServiceUnits" /\ OtherUnits(request) = "UsedServiceUnits"
      /\ IsCharged(request) <=> request.units > 0
  BY <1>1 DEF Kind, UnitsName, OtherUnits, IsCharged
<1>3. /\ request.sessionIdStr = sessionIdStr(quote) /\ request.serviceType = quote.ocs_si
      /\ request.units = Units(quote)
  BY DEF SentRead, MadeOf
<1>4. ReadOf(request, count, read)
  BY DEF SentRead
<1> QED  BY <1>1, <1>2, <1>3, <1>4 DEF QuoteOf, ReadOf, OwnVals, UnitsRead

ChargeRead(charge, read) ==
  /\ read.vals["SessionId"] = sessionIdStr(charge) /\ read.vals["ServiceIdentifier"] = charge.ocs_si
  /\ read.vals["RequestType"] = 3 /\ read.vals["RequestNumber"] = 1
  /\ Len(read.kids["UsedServiceUnits"]) = 1
  /\ \A n \in UnitNames : read.kids["UsedServiceUnits"][1].vals[n] =
                            IF n = UnitName(charge.ocs_si) THEN Units(charge) ELSE Unset

(* A charge as the OCS reads it. *)
LEMMA ChargeIsRead ==
  ASSUME NEW charge, NEW request, NEW count \in Nat, NEW read, SentRead(charge, request, count, read),
         msgTypetoRequestType(charge.msg_type_id) = "CHARGE"
  PROVE  ChargeRead(charge, read)
<1>1. request.requestType = "CHARGE"
  BY DEF SentRead, MadeOf
<1>2. /\ Kind(request) = 3 /\ UnitsName(request) = "UsedServiceUnits"
      /\ IsCharged(request)
  BY <1>1 DEF Kind, UnitsName, IsCharged
<1>3. /\ request.sessionIdStr = sessionIdStr(charge) /\ request.serviceType = charge.ocs_si
      /\ request.units = Units(charge)
  BY DEF SentRead, MadeOf
<1>4. ReadOf(request, count, read)
  BY DEF SentRead
<1> QED  BY <1>1, <1>2, <1>3, <1>4 DEF ChargeRead, ReadOf, OwnVals, UnitsRead

(* The two messages of a session. *)
LEMMA TheSession ==
  ASSUME MappingInv, Len(sent) = 2
  PROVE  LET quote == sent[1].json
             charge == sent[2].json
         IN  /\ QuoteOf(quote, sent[1].read) /\ ChargeRead(charge, sent[2].read)
             /\ sessionIdStr(charge) = sessionIdStr(quote) /\ charge.ocs_si = quote.ocs_si
             /\ msgTypetoRequestType(quote.msg_type_id) = "QUOTE" /\ msgTypetoRequestType(charge.msg_type_id) = "CHARGE"
             /\ Units(charge) \in {-5, 3, 0, 1}
<1>1. 1 \in 1..Len(sent) /\ 2 \in 1..Len(sent) /\ Len(sent) >= 1
  OBVIOUS
<1>2. PICK quote, charge : quote = sent[1].json /\ charge = sent[2].json
  OBVIOUS
<1>3. IsJson(quote) /\ ~Refused(quote)
  BY <1>1, <1>2, MessageSent
<1>4. Quoted(quote) /\ charge \in Charges(quote) /\ quote \in Openings \cup Incomplete
  BY <1>1, <1>2 DEF MappingInv, SentInv
<1>5. quote \in Openings
  BY <1>3, <1>4, IncompleteIs
<1>6. quote.id = 1 /\ "session_id" \notin DOMAIN quote
  BY <1>5, OpeningIs
<1>7. {"id", "ocs_si"} \subseteq DOMAIN quote
  BY <1>3 DEF Refused
<1>8. /\ charge.ocs_si = quote.ocs_si /\ "session_id" \in DOMAIN charge /\ charge.session_id = quote.id
      /\ msgTypetoRequestType(charge.msg_type_id) = "CHARGE"
      /\ "units" \in DOMAIN charge => charge.units \in {-5, 3}
  BY <1>3, <1>4, <1>7, ChargeIs
<1>9. sessionIdStr(quote) = 1000 * quote.ocs_si + 1
  BY <1>6 DEF sessionIdStr, Get
<1>10. sessionIdStr(charge) = 1000 * quote.ocs_si + 1
  BY <1>6, <1>8 DEF sessionIdStr, Get
<1>11. Units(charge) \in {-5, 3, 0, 1}
  BY <1>8 DEF Units, Get, QuotesRefund
<1>12. QuoteOf(quote, sent[1].read)
  BY <1>1, <1>2, <1>4, WhatIsRead, QuoteIsRead
<1>13. ChargeRead(charge, sent[2].read)
  BY <1>1, <1>2, <1>8, WhatIsRead, ChargeIsRead
<1>14. msgTypetoRequestType(quote.msg_type_id) = "QUOTE"
  BY <1>4 DEF Quoted
<1> QED  BY <1>2, <1>8, <1>9, <1>10, <1>11, <1>12, <1>13, <1>14

(* A quote and its charge are one session. *)
LEMMA SessionIsOne == MappingInv => OneSession
<1> SUFFICES ASSUME MappingInv, Len(sent) = 2
             PROVE  OneSession
  BY DEF OneSession
<1>1. PICK quote, charge : quote = sent[1].json /\ charge = sent[2].json
  OBVIOUS
<1>2. PICK q, c : q = sent[1].read /\ c = sent[2].read
  OBVIOUS
<1>3. /\ QuoteOf(quote, q) /\ ChargeRead(charge, c)
      /\ sessionIdStr(charge) = sessionIdStr(quote) /\ charge.ocs_si = quote.ocs_si
      /\ Units(charge) \in {-5, 3, 0, 1}
  BY <1>1, <1>2, TheSession
<1> DEFINE Kinds(units) == {n \in {"Time", "TotalOctets", "ServiceSpecificUnits"} : units.vals[n] # Unset}
<1>4. PICK reserved, used : reserved = q.kids["RequestedServiceUnits"] /\ used = c.kids["UsedServiceUnits"]
  OBVIOUS
<1>5. PICK name \in UnitNames : name = UnitName(charge.ocs_si)
  BY DEF UnitName, UnitNames
<1>6. Kinds(used[1]) = {name}
  <2>1. Units(charge) # Unset
    BY <1>3 DEF Unset
  <2>2. \A n \in UnitNames : used[1].vals[n] = IF n = name THEN Units(charge) ELSE Unset
    BY <1>3, <1>4, <1>5 DEF ChargeRead
  <2> QED  BY <2>1, <2>2 DEF UnitNames
<1>7. Kinds(reserved[1]) \subseteq {name}
  <2>1. \A n \in UnitNames : n # name => reserved[1].vals[n] = Unset
    BY <1>3, <1>4, <1>5 DEF QuoteOf
  <2> QED  BY <2>1 DEF UnitNames
<1>8. Cardinality({name}) = 1
  BY FS_Singleton
<1>9. Cardinality(Kinds(used[1])) = 1 /\ Kinds(reserved[1]) \subseteq Kinds(used[1])
  BY <1>6, <1>7, <1>8
<1>10. /\ Len(reserved) = 1 /\ Len(used) = 1
       /\ \A units \in Range(q.kids["UsedServiceUnits"]) : units = Unknown
  BY <1>3, <1>4 DEF QuoteOf, ChargeRead
<1>11. \A n \in {"SessionId", "ServiceIdentifier"} : q.vals[n] = c.vals[n]
  BY <1>3 DEF QuoteOf, ChargeRead
<1>12. /\ <<q.vals["RequestType"], q.vals["RequestNumber"]>> = <<1, 0>>
       /\ <<c.vals["RequestType"], c.vals["RequestNumber"]>> = <<3, 1>>
  BY <1>3 DEF QuoteOf, ChargeRead
<1> QED  BY <1>2, <1>4, <1>9, <1>10, <1>11, <1>12 DEF OneSession

(* What is used was reserved. *)
LEMMA UsedIsReserved == MappingInv => UsedWithinReserved
<1> SUFFICES ASSUME MappingInv, Len(sent) = 2, sent[1].json.ocs_si \in OneUnit
             PROVE  UsedWithinReserved
  BY DEF UsedWithinReserved
<1>1. PICK quote, charge : quote = sent[1].json /\ charge = sent[2].json
  OBVIOUS
<1>2. PICK q, c : q = sent[1].read /\ c = sent[2].read
  OBVIOUS
<1>3. /\ QuoteOf(quote, q) /\ ChargeRead(charge, c) /\ charge.ocs_si = quote.ocs_si
      /\ msgTypetoRequestType(quote.msg_type_id) = "QUOTE"
  BY <1>1, <1>2, TheSession
<1>4. UnitName(quote.ocs_si) = "ServiceSpecificUnits" /\ "ServiceSpecificUnits" \in UnitNames
  BY <1>1 DEF UnitName, UnitNames, OneUnit, Volume, Timed
<1>5. Units(quote) = 1
  BY <1>1, <1>3 DEF Units, QuotesRefund, MONEY_REFUND, OneUnit, msgTypetoRequestType, Release
<1>6. Units(charge) = IF charge.msg_type_id \in Release THEN 0 ELSE 1
  BY <1>1, <1>3 DEF Units, QuotesRefund, MONEY_REFUND, OneUnit
<1>7. q.kids["RequestedServiceUnits"][1].vals["ServiceSpecificUnits"] = 1
  BY <1>3, <1>4, <1>5 DEF QuoteOf
<1>8. c.kids["UsedServiceUnits"][1].vals["ServiceSpecificUnits"] = Units(charge)
  BY <1>3, <1>4 DEF ChargeRead
<1> QED  BY <1>1, <1>2, <1>6, <1>7, <1>8 DEF UsedWithinReserved

(* A session that was quoted is one session to the OCS when it is charged: *)
(* the same Session-Id, service and kind of unit.                          *)
THEOREM MappingOneSession == MappingSpec => []OneSession
<1>1. MappingInv => OneSession
  BY SessionIsOne
<1> QED  BY <1>1, MappingInvInit, MappingInvNext, PTL DEF MappingSpec

(* No more is used of a one-unit service than was reserved, and a release  *)
(* uses nothing.                                                           *)
THEOREM MappingUsedWithinReserved == MappingSpec => []UsedWithinReserved
<1>1. MappingInv => UsedWithinReserved
  BY UsedIsReserved
<1> QED  BY <1>1, MappingInvInit, MappingInvNext, PTL DEF MappingSpec

-----------------------------------------------------------------------------
(* The theorems: the parameters.                                           *)

(* The parameters that a message gives, and those a default stands for. *)
GivenOnes(json) ==
  {k \in DOMAIN Parameters : json.ocs_si \in Parameters[k].services /\ Parameters[k].name \in DOMAIN json}

PresetOnes(json) ==
  {k \in DOMAIN Parameters :
     /\ json.ocs_si \in Parameters[k].services \cap OneUnit
     /\ HasDefault(Parameters[k].number) /\ Parameters[k].name \notin DOMAIN json}

(* The parameters are those that are given and those that are preset. *)
LEMMA ToldAre ==
  ASSUME NEW json
  PROVE  /\ GivenOnes(json) \subseteq Told(json)
         /\ Cardinality(Told(json)) = Cardinality(GivenOnes(json)) + Cardinality(PresetOnes(json))
         /\ Cardinality(GivenOnes(json)) \in Nat /\ Cardinality(PresetOnes(json)) \in Nat
<1>1. PICK members, presets : members = GivenOnes(json) /\ presets = PresetOnes(json)
  OBVIOUS
<1>2. Told(json) = members \cup presets
  BY <1>1 DEF Told, GivenOnes, PresetOnes, Presets
<1>3. members \cap presets = {}
  BY <1>1 DEF GivenOnes, PresetOnes
<1>4. IsFiniteSet(Told(json))
  BY NumbersAreTold DEF NumbersTold
<1>5. IsFiniteSet(members) /\ IsFiniteSet(presets)
  BY <1>2, <1>4, FS_Subset
<1>6. Cardinality(members \cup presets) = Cardinality(members) + Cardinality(presets) - Cardinality(members \cap presets)
  BY <1>5, FS_Union
<1>7. Cardinality(members \cap presets) = 0
  BY <1>3, FS_EmptySet
<1>8. Cardinality(members) \in Nat /\ Cardinality(presets) \in Nat
  BY <1>5, FS_CardinalityType
<1> QED  BY <1>1, <1>2, <1>6, <1>7, <1>8

(* Each parameter arrives, and nothing else. *)
ParametersRead(json, read) ==
  /\ Len(read.kids["SPI"]) =
       Cardinality(GivenOnes(json)) + Cardinality(PresetOnes(json)) + (IF QuotesRefund(json) THEN 1 ELSE 0)
  /\ \A k \in GivenOnes(json) :
       \E n \in Parsed(Parameters[k].number, read) :
         \/ Unreadable(Parameters[k].number, json[Parameters[k].name])
         \/ read.kids["SPI"][n].vals["ServiceParameterInfoValue"] = json[Parameters[k].name]

(* A message that is read has its parameters. *)
LEMMA ParametersAreRead ==
  ASSUME NEW json, NEW request, NEW count \in Nat, NEW read, SentRead(json, request, count, read)
  PROVE  ParametersRead(json, read)
<1>1. request.spi = SPIMap(json) /\ NumbersAre(request, count) /\ ReadOf(request, count, read)
  BY DEF SentRead, MadeOf
<1>2. PICK infos : infos = read.kids["SPI"]
  OBVIOUS
<1>3. DOMAIN request.spi = SPINumbers(json)
  BY <1>1 DEF SPIMap
<1>4. /\ Len(infos) = count /\ DOMAIN infos = 1..count
      /\ \A i \in 1..count : InfoRead(Numbers(request)[i], request.spi[Numbers(request)[i]], infos[i])
  BY <1>1, <1>2 DEF ReadOf
<1>5. count = Cardinality(SPINumbers(json))
  BY <1>1, <1>3 DEF NumbersAre
<1>6. Cardinality(SPINumbers(json)) =
        Cardinality(GivenOnes(json)) + Cardinality(PresetOnes(json)) + (IF QuotesRefund(json) THEN 1 ELSE 0)
  BY NumbersAreTold, ToldAre DEF NumbersTold
<1>7. ASSUME NEW k \in GivenOnes(json)
      PROVE  \E n \in Parsed(Parameters[k].number, read) :
               \/ Unreadable(Parameters[k].number, json[Parameters[k].name])
               \/ read.kids["SPI"][n].vals["ServiceParameterInfoValue"] = json[Parameters[k].name]
  <2>1. k \in Told(json)
    BY ToldAre
  <2>2. PICK number : number = Parameters[k].number
    OBVIOUS
  <2>3. PICK v : v = json[Parameters[k].name]
    OBVIOUS
  <2>4. number \in SPINumbers(json) /\ SPIMap(json)[number] = v
    BY <2>1, <2>2, <2>3, InfoSent DEF GivenOnes, Get
  <2>5. PICK i \in 1..count : Numbers(request)[i] = number
    BY <1>1, <1>3, <2>4 DEF NumbersAre
  <2>6. InfoRead(number, v, infos[i])
    BY <1>1, <1>4, <2>4, <2>5
  <2>7. i \in Parsed(number, read)
    BY <1>2, <1>4, <2>6 DEF Parsed, InfoRead
  <2>8. Unreadable(number, v) \/ infos[i].vals["ServiceParameterInfoValue"] = v
    BY <2>6 DEF InfoRead
  <2> QED  BY <1>2, <2>2, <2>3, <2>7, <2>8
<1> QED  BY <1>2, <1>4, <1>5, <1>6, <1>7 DEF ParametersRead

(* So has every message that was sent. *)
LEMMA ParametersArrive == MappingInv => ParametersReachOCS
<1> SUFFICES ASSUME MappingInv
             PROVE  ParametersReachOCS
  OBVIOUS
<1>1. DOMAIN sent = 1..Len(sent)
  BY DEF MappingInv, SentInv
<1>2. ASSUME NEW i \in 1..Len(sent)
      PROVE  ParametersRead(sent[i].json, sent[i].read)
  BY WhatIsRead, ParametersAreRead
<1> QED  BY <1>1, <1>2 DEF ParametersReachOCS, ParametersRead, GivenOnes, PresetOnes

(* Every member that means something for its service reaches the OCS, as a *)
(* parameter of its own and with its value, beside the defaults.           *)
THEOREM MappingParametersReachOCS == MappingSpec => []ParametersReachOCS
<1>1. MappingInv => ParametersReachOCS
  BY ParametersArrive
<1> QED  BY <1>1, MappingInvInit, MappingInvNext, PTL DEF MappingSpec
=============================================================================
