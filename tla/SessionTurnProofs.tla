------------------------- MODULE SessionTurnProofs -------------------------
(***************************************************************************)
(* A turn is correct for any call ids and any inputs: its requests carry   *)
(* the results of the tools before them, an abort stops the requests and   *)
(* is recorded, the message shows every tool, and the stored turn is the   *)
(* message.  While the turn works, the tool history is the list of the     *)
(* tools executed, all with success, and the abort is not yet known; this  *)
(* is what the properties have in common (Told, Unaware).                  *)
(***************************************************************************)
EXTENDS SessionTurn, SequenceTheorems, TLAPS

Working == phase \in {"start", "streaming", "waiting"}

Tool == [id : Calls, ok : BOOLEAN]

PartType == [kind : {"retry", "step-start", "tool", "text", "step-finish"},
             id : Calls \cup {NoCall}, ok : BOOLEAN]

(* Where a turn stands: nothing is done before it starts, streams are open *)
(* after, and only a failed stream that was not aborted waits.             *)
Stands ==
  /\ phase = "start" => rounds = 0 /\ sent = <<>>
  /\ phase \in {"streaming", "waiting"} => sent # <<>> /\ ~input.aborted /\ attempts > 0
  /\ phase = "waiting" => /\ input.waits /\ attempts < input.maxAttempts
                          /\ ~reply.aborted
  /\ Working /\ rounds = 0 => tools = <<>> /\ history = <<>> /\ parts = <<>>
  /\ Working /\ rounds > 0 => tools # <<>>

(* The tool history holds the tools executed, and each succeeded.          *)
Told ==
  /\ Working => /\ Len(history) = Len(tools)
                /\ \A i \in 1..Len(tools) : tools[i] = [id |-> history[i], ok |-> TRUE]
  /\ phase \in {"streaming", "waiting"} => sent[Len(sent)] = history

(* A turn that works does not know that it was aborted, and no other text  *)
(* is the one of an abort: requests are counted from 1.                    *)
Unaware ==
  /\ Working => ~error
  /\ 0 \notin spoken
  /\ error => text = RequestAborted
  /\ ~error => 0 \notin text
  /\ Built /\ ~input.waits => (error <=> signal \/ input.aborted)

(* The message, part by part, after b retry parts.                         *)
LaidOut(b) ==
  LET n == Len(tools) IN
  /\ \A i \in 1..b : parts[i] = Part("retry")
  /\ n = 0 => Len(parts) = b + 1 /\ parts[b + 1] = Part("text")
  /\ n > 0 => /\ Len(parts) = b + n + 3
              /\ parts[b + 1] = Part("step-start")
              /\ \A i \in 1..n : parts[b + 1 + i] = ToolPart(tools[i])
              /\ parts[b + n + 2] = Part("text")
              /\ parts[b + n + 3] = Part("step-finish")

Shown == Built \/ (Working /\ rounds > 0) => \E b \in {0, 1} : LaidOut(b)

Distinct == \A i, j \in 1..Len(tools) : tools[i].id = tools[j].id => i = j

(* Statement by statement, the store holds what persist has written.       *)
Saved ==
  /\ phase \in {"start", "streaming", "waiting"} => written = 0 /\ table = <<>>
  /\ phase = "persisting" => written < Len(Statements)
  /\ phase = "done" => written = Len(Statements)
  /\ Built /\ Distinct => table = SubSeq(Statements, 1, written)

IInv == TypeOK /\ Stands /\ Told /\ RequestsCarryResults /\ Unaware /\ Shown /\ Saved

-----------------------------------------------------------------------------
(* An input has the fields of Input.                                       *)
LEMMA InputFields ==
  ASSUME TypeOK
  PROVE  /\ input.aborted \in BOOLEAN /\ input.waits \in BOOLEAN
         /\ input.forced \in Calls \cup {NoCall}
         /\ input.limit \in Nat /\ input.maxAttempts \in Nat \ {0}
BY TurnAssumption DEF TypeOK, Input

LEMMA ReplyFields ==
  ASSUME NEW r \in Reply
  PROVE  /\ r.aborted \in BOOLEAN /\ r.speaks \in BOOLEAN
         /\ r.call \in Calls \cup {NoCall}
BY DEF Reply

(* The ways an answer is received: a tool throws, there is no tool, or a   *)
(* tool was executed.                                                      *)
Threw == phase' = "failed" /\ UNCHANGED <<stream, message>>

Answered(r) ==
  /\ r.aborted => text' = RequestAborted
  /\ ~r.aborted => text' \subseteq Nat /\ 0 \notin text'
  /\ error' = r.aborted

Spoke(r) ==
  /\ Answered(r) /\ Finish /\ UNCHANGED tools
  /\ rounds = 0 => parts' = Append(RetryPart(r), Part("text"))
  /\ rounds > 0 => UNCHANGED parts

Called(r, t) ==
  /\ Answered(r) /\ GoOn(r, t) /\ tools' = Append(tools, t)
  /\ rounds = 0 => parts' = RetryPart(r) \o <<Part("step-start"), ToolPart(t), Part("text"),
                                             Part("step-finish")>>
  /\ rounds > 0 => parts' = Inserted(t)

LEMMA TextOfAnswer ==
  ASSUME NEW r \in Reply, NEW s, s \subseteq Nat, 0 \notin s, text' = Answer(r, s), error' = r.aborted
  PROVE  Answered(r)
BY ReplyFields DEF Answer, Answered

LEMMA HeardIsNatural ==
  ASSUME IInv, NEW r \in Reply, sent # <<>> \/ ~r.speaks
  PROVE  Heard(r) \subseteq Nat /\ 0 \notin Heard(r)
<1>1. Len(sent) \in Nat /\ (sent # <<>> => Len(sent) # 0)
  BY EmptySeq DEF IInv, TypeOK
<1>2. spoken \subseteq Nat /\ 0 \notin spoken
  BY DEF IInv, TypeOK, Unaware
<1>3. QED  BY <1>1, <1>2, ReplyFields DEF Heard

LEMMA Received ==
  ASSUME IInv, Working, NEW r \in Reply, sent # <<>> \/ ~r.speaks, Receive(r)
  PROVE  Threw \/ Spoke(r) \/ \E t \in Tool : Called(r, t)
<1>1. rounds \in Nat /\ tools \in Seq(Tool)
  BY DEF IInv, TypeOK, Tool
<1>2. CASE rounds = 0
  <2> DEFINE call == IF input.forced = NoCall THEN r.call ELSE input.forced
  <2>1. First(r)
    BY <1>2 DEF Receive
  <2>2. tools = <<>>
    BY <1>2 DEF IInv, Stands
  <2>3. call \in Calls \cup {NoCall}
    BY InputFields, ReplyFields DEF IInv
  <2>4. ASSUME call = NoCall,
               parts' = Append(RetryPart(r), Part("text")),
               text' = Answer(r, Heard(r)), error' = r.aborted, Finish, UNCHANGED tools
        PROVE  Spoke(r)
    BY <1>2, <2>4, TextOfAnswer, HeardIsNatural DEF Spoke
  <2>5. ASSUME NEW t \in Executed(call), call # NoCall, tools' = <<t>>,
               parts' = RetryPart(r) \o <<Part("step-start"), ToolPart(t), Part("text"),
                                         Part("step-finish")>>,
               text' = Answer(r, Heard(r)), error' = r.aborted, GoOn(r, t)
        PROVE  t \in Tool /\ Called(r, t)
    <3>1. t \in Tool
      BY <2>3, <2>5 DEF Executed, Tool
    <3>2. tools' = Append(tools, t)
      BY <2>2, <2>5, <3>1
    <3>3. Answered(r)
      BY <2>5, TextOfAnswer, HeardIsNatural
    <3>4. ~(rounds > 0)
      BY <1>2
    <3>5. QED
      BY <2>5, <3>1, <3>2, <3>3, <3>4, Zenon DEF Called
  <2>6. QED
    BY <2>1, <2>4, <2>5 DEF First, ToolThrows, Threw
<1>3. CASE rounds > 0
  <2>1. Continuation(r)
    BY <1>1, <1>3 DEF Receive
  <2>2. text \subseteq Nat /\ 0 \notin text
    BY DEF IInv, TypeOK, Unaware
  <2>3. ASSUME r.call = NoCall,
               text' = Answer(r, IF r.speaks THEN {Len(sent)} ELSE text), error' = r.aborted,
               Finish, UNCHANGED <<tools, parts>>
        PROVE  Spoke(r)
    <3>1. Len(sent) \in Nat /\ (sent # <<>> => Len(sent) # 0)
      BY EmptySeq DEF IInv, TypeOK
    <3>2. (IF r.speaks THEN {Len(sent)} ELSE text) \subseteq Nat
          /\ 0 \notin (IF r.speaks THEN {Len(sent)} ELSE text)
      BY <2>2, <3>1, ReplyFields
    <3>3. QED
      BY <1>3, <2>3, <3>2, TextOfAnswer DEF Spoke
  <2>4. ASSUME NEW t \in Executed(r.call), r.call # NoCall, tools' = Append(tools, t),
               parts' = Inserted(t), text' = Answer(r, text), error' = r.aborted, GoOn(r, t)
        PROVE  t \in Tool /\ Called(r, t)
    <3>1. t \in Tool
      BY <2>4, ReplyFields DEF Executed, Tool
    <3>2. Answered(r)
      BY <2>2, <2>4, TextOfAnswer
    <3>3. ~(rounds = 0)
      BY <1>3
    <3>4. QED
      BY <2>4, <3>1, <3>2, <3>3, Zenon DEF Called
  <2>5. QED
    BY <2>1, <2>3, <2>4 DEF Continuation, ToolThrows, Threw
<1>4. QED  BY <1>1, <1>2, <1>3
-----------------------------------------------------------------------------
(* The parts of a message.                                                 *)
LEMMA PartsAreParts ==
  /\ \A k \in {"retry", "step-start", "text", "step-finish"} :
        Part(k) \in PartType /\ Part(k).kind = k
  /\ \A t \in Tool : ToolPart(t) \in PartType /\ ToolPart(t).kind = "tool"
  /\ \A r \in Reply : /\ RetryPart(r) \in Seq(PartType)
                       /\ (RetryPart(r) = <<>> \/ RetryPart(r) = <<Part("retry")>>)
<1>1. \A k \in {"retry", "step-start", "text", "step-finish"} :
        Part(k) \in PartType /\ Part(k).kind = k
  BY DEF Part, PartType
<1>2. \A t \in Tool : ToolPart(t) \in PartType /\ ToolPart(t).kind = "tool"
  BY DEF PartType, ToolPart, Tool
<1>3. \A r \in Reply : RetryPart(r) \in Seq(PartType)
  BY <1>1 DEF RetryPart
<1>4. \A r \in Reply : RetryPart(r) = <<>> \/ RetryPart(r) = <<Part("retry")>>
  BY DEF RetryPart
<1>5. QED  BY <1>1, <1>2, <1>3, <1>4

(* insertBeforeAssistantText finds the one text part.                      *)
LEMMA InsertedPart ==
  ASSUME parts \in Seq(PartType), tools \in Seq(Tool), NEW b \in {0, 1}, LaidOut(b),
         Len(tools) > 0, NEW t \in Tool
  PROVE  LET at == b + Len(tools) + 2 IN
         /\ Inserted(t) \in Seq(PartType)
         /\ Len(Inserted(t)) = Len(parts) + 1
         /\ \A i \in 1..at - 1 : Inserted(t)[i] = parts[i]
         /\ Inserted(t)[at] = ToolPart(t)
         /\ Inserted(t)[at + 1] = parts[at]
         /\ Inserted(t)[at + 2] = parts[at + 1]
<1> DEFINE n == Len(tools)
           at == b + n + 2
<1> HIDE DEF at
<1>1. n \in Nat /\ n > 0 /\ at \in Nat /\ at = b + n + 2 /\ Len(parts) = at + 1
  BY DEF LaidOut, at
<1>2. ToolPart(t) \in PartType
  BY PartsAreParts
<1>3. \A i \in 1..n : tools[i] \in Tool
  OBVIOUS
<1>4. \A i \in 1..Len(parts) : parts[i].kind = "text" <=> i = at
  <2> SUFFICES ASSUME NEW i \in 1..Len(parts)
               PROVE  parts[i].kind = "text" <=> i = at
    OBVIOUS
  <2>1. CASE i <= b
    BY <1>1, <2>1, PartsAreParts DEF LaidOut
  <2>2. CASE i = b + 1
    BY <1>1, <2>2, PartsAreParts DEF LaidOut
  <2>3. CASE i > b + 1 /\ i < at
    <3>1. i - b - 1 \in 1..n /\ i = b + 1 + (i - b - 1)
      BY <1>1, <2>3
    <3>2. parts[i] = ToolPart(tools[i - b - 1])
      BY <1>1, <3>1 DEF LaidOut
    <3>3. QED  BY <1>3, <2>3, <3>1, <3>2, PartsAreParts
  <2>4. CASE i = at
    BY <1>1, <2>4, PartsAreParts DEF LaidOut
  <2>5. CASE i = at + 1
    BY <1>1, <2>5, PartsAreParts DEF LaidOut
  <2>6. QED  BY <1>1, <2>1, <2>2, <2>3, <2>4, <2>5
<1>5. at \in 1..Len(parts)
  BY <1>1
<1>6. at = CHOOSE i \in 1..Len(parts) : parts[i].kind = "text"
  BY <1>4, <1>5
<1> DEFINE front == SubSeq(parts, 1, at - 1)
           back  == SubSeq(parts, at, Len(parts))
<1>7. Inserted(t) = front \o <<ToolPart(t)>> \o back
  BY <1>6 DEF Inserted
<1>8. /\ front \in Seq(PartType) /\ Len(front) = at - 1
      /\ \A i \in 1..at - 1 : front[i] = parts[i]
  BY <1>1
<1>9. /\ back \in Seq(PartType) /\ Len(back) = 2
      /\ back[1] = parts[at] /\ back[2] = parts[at + 1]
  BY <1>1
<1> DEFINE mid == front \o <<ToolPart(t)>>
<1> HIDE DEF front, back
<1>10. /\ mid \in Seq(PartType) /\ Len(mid) = at
       /\ \A i \in 1..at - 1 : mid[i] = parts[i]
       /\ mid[at] = ToolPart(t)
  BY <1>1, <1>2, <1>8
<1> HIDE DEF mid
<1>11. Inserted(t) = mid \o back
  BY <1>7 DEF mid
<1>12. /\ mid \o back \in Seq(PartType)
       /\ Len(mid \o back) = at + 2
       /\ \A i \in 1..at + 2 : (mid \o back)[i] = IF i <= at THEN mid[i] ELSE back[i - at]
  <2>1. mid \in Seq(PartType) /\ back \in Seq(PartType)
    BY <1>9, <1>10
  <2>2. /\ mid \o back \in Seq(PartType)
        /\ Len(mid \o back) = Len(mid) + Len(back)
        /\ \A i \in 1..Len(mid) + Len(back) :
              (mid \o back)[i] = IF i <= Len(mid) THEN mid[i] ELSE back[i - Len(mid)]
    BY <2>1, ConcatProperties, Zenon
  <2>3. QED
    BY <1>9, <1>10, <2>2, Zenon
<1>13. at \in 1..at + 2 /\ at + 1 \in 1..at + 2 /\ at + 2 \in 1..at + 2
       /\ at + 1 - at = 1 /\ at + 2 - at = 2 /\ ~(at + 1 <= at) /\ ~(at + 2 <= at)
  BY <1>1
<1>14. \A i \in 1..at - 1 : i \in 1..at + 2 /\ i <= at
  BY <1>1
<1>15. QED
  BY <1>1, <1>9, <1>10, <1>11, <1>12, <1>13, <1>14
-----------------------------------------------------------------------------
(* The message after an answer, and its layout.                            *)
LEMMA LayoutFirst ==
  ASSUME NEW r \in Reply, tools' = <<>>, parts' = Append(RetryPart(r), Part("text"))
  PROVE  parts' \in Seq(PartType) /\ \E b \in {0, 1} : LaidOut(b)'
<1>1. Len(<<>>) = 0 /\ Part("text") \in PartType /\ Part("retry") \in PartType
      /\ RetryPart(r) \in Seq(PartType)
  BY PartsAreParts
<1>2. CASE RetryPart(r) = <<>>
  <2>1. Len(parts') = 1 /\ parts'[1] = Part("text")
    BY <1>1, <1>2
  <2>2. LaidOut(0)'
    BY <1>1, <2>1 DEF LaidOut
  <2>3. QED  BY <1>1, <2>2
<1>3. CASE RetryPart(r) = <<Part("retry")>>
  <2>1. Len(parts') = 2 /\ parts'[1] = Part("retry") /\ parts'[2] = Part("text")
    BY <1>1, <1>3
  <2>2. LaidOut(1)'
    BY <1>1, <2>1 DEF LaidOut
  <2>3. QED  BY <1>1, <2>2
<1>4. QED  BY <1>2, <1>3, PartsAreParts

LEMMA LayoutFirstTool ==
  ASSUME NEW r \in Reply, NEW t \in Tool, tools' = <<t>>,
         parts' = RetryPart(r) \o <<Part("step-start"), ToolPart(t), Part("text"),
                                   Part("step-finish")>>
  PROVE  parts' \in Seq(PartType) /\ \E b \in {0, 1} : LaidOut(b)'
<1> DEFINE rest == <<Part("step-start"), ToolPart(t), Part("text"), Part("step-finish")>>
<1>1. /\ Len(tools') = 1 /\ tools'[1] = t
      /\ Part("retry") \in PartType /\ rest \in Seq(PartType) /\ Len(rest) = 4
      /\ rest[1] = Part("step-start") /\ rest[2] = ToolPart(t)
      /\ rest[3] = Part("text") /\ rest[4] = Part("step-finish")
  BY PartsAreParts
<1>2. parts' = RetryPart(r) \o rest
  OBVIOUS
<1> HIDE DEF rest
<1>3. CASE RetryPart(r) = <<>>
  <2>1. parts' = rest
    BY <1>1, <1>2, <1>3
  <2>2. /\ parts' \in Seq(PartType) /\ Len(parts') = 4
        /\ parts'[1] = Part("step-start") /\ parts'[2] = ToolPart(t)
        /\ parts'[3] = Part("text") /\ parts'[4] = Part("step-finish")
    BY <1>1, <2>1, Zenon
  <2>3. \A i \in 1..1 : parts'[0 + 1 + i] = ToolPart(tools'[i])
    BY <1>1, <2>2
  <2>4. LaidOut(0)'
    BY <1>1, <2>2, <2>3 DEF LaidOut
  <2>5. QED  BY <2>2, <2>4
<1>4. CASE RetryPart(r) = <<Part("retry")>>
  <2> DEFINE lead == <<Part("retry")>>
  <2>1. lead \in Seq(PartType) /\ Len(lead) = 1 /\ lead[1] = Part("retry")
    BY <1>1
  <2> HIDE DEF lead
  <2>2. parts' = lead \o rest
    BY <1>2, <1>4 DEF lead
  <2>3. /\ parts' \in Seq(PartType) /\ Len(parts') = 5
        /\ parts'[1] = Part("retry") /\ parts'[2] = Part("step-start")
        /\ parts'[3] = ToolPart(t) /\ parts'[4] = Part("text")
        /\ parts'[5] = Part("step-finish")
    <3>1. /\ lead \o rest \in Seq(PartType)
          /\ Len(lead \o rest) = 1 + 4
          /\ \A i \in 1..(1 + 4) : (lead \o rest)[i] = IF i <= 1 THEN lead[i] ELSE rest[i - 1]
      <4>1. /\ lead \o rest \in Seq(PartType)
            /\ Len(lead \o rest) = Len(lead) + Len(rest)
            /\ \A i \in 1..(Len(lead) + Len(rest)) :
                 (lead \o rest)[i] = IF i <= Len(lead) THEN lead[i] ELSE rest[i - Len(lead)]
        BY <1>1, <2>1, ConcatProperties
      <4>2. QED  BY <1>1, <2>1, <4>1, Zenon
    <3> DEFINE both == lead \o rest
    <3> HIDE DEF both
    <3>2. /\ (lead \o rest)[1] = lead[1] /\ (lead \o rest)[2] = rest[1]
          /\ (lead \o rest)[3] = rest[2] /\ (lead \o rest)[4] = rest[3]
          /\ (lead \o rest)[5] = rest[4]
      <4>1. \A i \in 1..(1 + 4) : both[i] = IF i <= 1 THEN lead[i] ELSE rest[i - 1]
        BY <3>1 DEF both
      <4>2. both[1] = lead[1] /\ both[2] = rest[1] /\ both[3] = rest[2] /\ both[4] = rest[3]
            /\ both[5] = rest[4]
        BY <4>1
      <4>3. QED  BY <4>2, Zenon DEF both
    <3>3. 1 + 4 = 5
      OBVIOUS
    <3>4. QED  BY <1>1, <2>1, <2>2, <3>1, <3>2, <3>3, Zenon
  <2>4. LaidOut(1)'
    BY <1>1, <2>3 DEF LaidOut
  <2>5. QED  BY <2>3, <2>4
<1>5. QED  BY <1>3, <1>4, PartsAreParts

LEMMA LayoutTool ==
  ASSUME parts \in Seq(PartType), tools \in Seq(Tool), NEW b \in {0, 1}, LaidOut(b),
         Len(tools) > 0, NEW t \in Tool, tools' = Append(tools, t), parts' = Inserted(t)
  PROVE  parts' \in Seq(PartType) /\ LaidOut(b)'
<1> DEFINE n == Len(tools)
           at == b + n + 2
<1>1. n \in Nat /\ n > 0 /\ Len(parts) = b + n + 3
  BY DEF LaidOut
<1>2. /\ Len(tools') = n + 1 /\ tools'[n + 1] = t
      /\ \A i \in 1..n : tools'[i] = tools[i]
  OBVIOUS
<1>3. /\ parts' \in Seq(PartType)
      /\ Len(parts') = Len(parts) + 1
      /\ \A i \in 1..at - 1 : parts'[i] = parts[i]
      /\ parts'[at] = ToolPart(t)
      /\ parts'[at + 1] = parts[at]
      /\ parts'[at + 2] = parts[at + 1]
  BY InsertedPart, Zenon
<1>4. \A i \in 1..b : parts'[i] = Part("retry")
  BY <1>1, <1>3 DEF LaidOut
<1>5. parts'[b + 1] = Part("step-start")
  BY <1>1, <1>3 DEF LaidOut
<1>6. \A i \in 1..n + 1 : parts'[b + 1 + i] = ToolPart(tools'[i])
  <2> SUFFICES ASSUME NEW i \in 1..n + 1
               PROVE  parts'[b + 1 + i] = ToolPart(tools'[i])
    OBVIOUS
  <2>1. CASE i = n + 1
    <3>1. b + 1 + i = at
      BY <1>1, <2>1
    <3>2. QED  BY <1>2, <1>3, <2>1, <3>1
  <2>2. CASE i # n + 1
    <3>1. i \in 1..n /\ b + 1 + i \in 1..at - 1
      BY <1>1, <2>2
    <3>2. parts[b + 1 + i] = ToolPart(tools[i])
      BY <1>1, <3>1 DEF LaidOut
    <3>3. QED  BY <1>2, <1>3, <3>1, <3>2
  <2>3. QED  BY <2>1, <2>2
<1>7. /\ parts'[b + (n + 1) + 2] = Part("text")
      /\ parts'[b + (n + 1) + 3] = Part("step-finish")
  <2>1. /\ b + (n + 1) + 2 = at + 1 /\ b + (n + 1) + 3 = at + 2 /\ at + 1 = b + n + 3
    BY <1>1
  <2>2. parts[at] = Part("text") /\ parts[at + 1] = Part("step-finish")
    BY <1>1, <2>1 DEF LaidOut
  <2>3. QED  BY <1>3, <2>1, <2>2
<1>8. LaidOut(b)'
  BY <1>1, <1>2, <1>3, <1>4, <1>5, <1>6, <1>7 DEF LaidOut
<1>9. QED  BY <1>3, <1>8
-----------------------------------------------------------------------------
(* An answer is received in a turn that works: at its end, when it was     *)
(* aborted before it started; from a stream; or after a wait that gave up. *)
Receives(r) ==
  /\ Working
  /\ phase = "start" => r.aborted /\ ~r.speaks /\ input.aborted
  /\ phase = "streaming" => r.aborted = signal
  /\ phase = "waiting" => ~r.aborted
  /\ Receive(r)
  /\ UNCHANGED <<input, signal, store>>

(* The tool that was executed is pushed, and a request carries it.         *)
Continues(r, t) == Called(r, t) /\ MayContinue(r, t)

Stops(r, t) == Called(r, t) /\ Finish

LEMMA ReceivesCases ==
  ASSUME IInv, NEW r \in Reply, Receives(r)
  PROVE  Threw \/ Spoke(r) \/ \E t \in Tool : Continues(r, t) \/ Stops(r, t)
<1>1. sent # <<>> \/ ~r.speaks
  BY DEF IInv, Stands, Receives, Working
<1>2. Threw \/ Spoke(r) \/ \E t \in Tool : Called(r, t)
  BY <1>1, Received DEF Receives
<1>3. ASSUME NEW t \in Tool, Called(r, t)
      PROVE  Continues(r, t) \/ Stops(r, t)
  BY <1>3 DEF Called, GoOn, Continues, Stops
<1>4. QED  BY <1>2, <1>3

LEMMA ContinuesIs ==
  ASSUME NEW r, NEW t, Continues(r, t)
  PROVE  /\ t.ok /\ ~r.aborted /\ history' = Append(history, t.id)
         /\ sent' = Append(sent, history') /\ phase' = "streaming"
         /\ rounds' = rounds + 1 /\ attempts' = 1 /\ spoken' = {} /\ reply' = reply
         /\ tools' = Append(tools, t) /\ Answered(r)
BY DEF Continues, Called, GoOn, Open, Pushed, MayContinue, Finish

LEMMA StopsIs ==
  ASSUME NEW r, NEW t, Stops(r, t)
  PROVE  phase' = "persisting" /\ UNCHANGED stream /\ tools' = Append(tools, t) /\ Answered(r)
BY DEF Stops, Called, Finish

LEMMA SpokeIs ==
  ASSUME NEW r, Spoke(r)
  PROVE  phase' = "persisting" /\ UNCHANGED <<stream, tools>> /\ Answered(r)
BY DEF Spoke, Finish

(* The parts keep their type and their layout.                             *)
LEMMA ReceivesParts ==
  ASSUME IInv, NEW r \in Reply, Receives(r)
  PROVE  /\ parts' \in Seq(PartType)
         /\ Threw \/ \E b \in {0, 1} : LaidOut(b)'
<1>1. /\ rounds \in Nat /\ parts \in Seq(PartType) /\ tools \in Seq(Tool)
      /\ rounds = 0 => tools = <<>>
      /\ rounds > 0 => tools # <<>> /\ \E b \in {0, 1} : LaidOut(b)
  BY DEF IInv, TypeOK, Tool, PartType, Stands, Shown, Receives
<1>2. CASE Threw
  BY <1>1, <1>2 DEF Threw, message
<1>3. CASE Spoke(r)
  <2>1. CASE rounds = 0
    BY <1>1, <1>3, <2>1, LayoutFirst DEF Spoke
  <2>2. CASE rounds > 0
    <3>1. parts' = parts /\ tools' = tools
      BY <1>3, <2>2 DEF Spoke
    <3>2. QED  BY <1>1, <2>2, <3>1 DEF LaidOut
  <2>3. QED  BY <1>1, <2>1, <2>2
<1>4. ASSUME NEW t \in Tool, Called(r, t)
      PROVE  parts' \in Seq(PartType) /\ \E b \in {0, 1} : LaidOut(b)'
  <2>1. CASE rounds = 0
    <3>1. tools' = <<t>>
      BY <1>1, <1>4, <2>1 DEF Called
    <3>2. QED  BY <1>4, <2>1, <3>1, LayoutFirstTool DEF Called
  <2>2. CASE rounds > 0
    <3>1. Len(tools) > 0
      BY <1>1, <2>2, EmptySeq
    <3>2. tools' = Append(tools, t) /\ parts' = Inserted(t)
      BY <1>4, <2>2 DEF Called
    <3>3. QED  BY <1>1, <2>2, <3>1, <3>2, LayoutTool
  <2>3. QED  BY <1>1, <2>1, <2>2
<1>5. QED
  BY <1>2, <1>3, <1>4, ReceivesCases DEF Continues, Stops
LEMMA ReceivesTypes ==
  ASSUME IInv, NEW r \in Reply, Receives(r)
  PROVE  TypeOK'
<1>1. TypeOK /\ input.maxAttempts \in Nat \ {0}
  BY InputFields DEF IInv
<1>2. parts' \in Seq(PartType)
  BY ReceivesParts
<1>3. UNCHANGED <<input, signal, written>>
  BY DEF Receives, store
<1>4. CASE Threw
  BY <1>1, <1>3, <1>4 DEF Threw, TypeOK, stream, message
<1>5. ASSUME phase' = "persisting", UNCHANGED stream, Answered(r), tools' \in Seq(Tool)
      PROVE  TypeOK'
  BY <1>1, <1>2, <1>3, <1>5, ReplyFields DEF TypeOK, stream, Answered, RequestAborted, PartType, Tool
<1>6. ASSUME NEW t \in Tool, Continues(r, t)
      PROVE  TypeOK'
  <2>1. t.id \in Calls
    BY DEF Tool
  <2>2. history' \in Seq(Calls) /\ sent' \in Seq(Seq(Calls)) /\ tools' \in Seq(Tool)
    <3>1. history' = Append(history, t.id) /\ sent' = Append(sent, history')
          /\ tools' = Append(tools, t)
      BY <1>6, ContinuesIs
    <3>2. history \in Seq(Calls) /\ sent \in Seq(Seq(Calls)) /\ tools \in Seq(Tool)
      BY <1>1 DEF TypeOK, Tool
    <3>3. history' \in Seq(Calls)
      BY <2>1, <3>1, <3>2, AppendProperties
    <3>4. QED  BY <3>1, <3>2, <3>3, AppendProperties
  <2>3. attempts' \in 0..input'.maxAttempts /\ rounds' \in Nat /\ spoken' \subseteq Nat
    BY <1>1, <1>3, <1>6, ContinuesIs DEF TypeOK
  <2>4. text' \subseteq Nat /\ error' \in BOOLEAN
    BY <1>6, ContinuesIs, ReplyFields DEF Answered
  <2>5. phase' = "streaming" /\ reply' = reply
    BY <1>6, ContinuesIs
  <2>6. QED
    BY <1>1, <1>2, <1>3, <2>2, <2>3, <2>4, <2>5 DEF TypeOK, PartType, Tool
<1>7. tools \in Seq(Tool) /\ \A t \in Tool : Append(tools, t) \in Seq(Tool)
  <2>1. tools \in Seq(Tool)
    BY <1>1 DEF TypeOK, Tool
  <2>2. QED  BY <2>1, AppendProperties
<1>8. QED
  BY <1>4, <1>5, <1>6, <1>7, ReceivesCases, StopsIs, SpokeIs

LEMMA ReceivesStands ==
  ASSUME IInv, NEW r \in Reply, Receives(r)
  PROVE  Stands'
<1>1. CASE phase' \in {"failed", "persisting"}
  BY <1>1 DEF Stands, Working
<1>2. ASSUME NEW t \in Tool, Continues(r, t)
      PROVE  Stands'
  <2>1. TypeOK /\ t.id \in Calls
    BY DEF IInv, Tool
  <2>2. sent' # <<>> /\ tools' # <<>>
    BY <1>2, <2>1, ContinuesIs DEF TypeOK, Tool
  <2>3. rounds' > 0
    BY <1>2, <2>1, ContinuesIs DEF TypeOK
  <2>4. ~input'.aborted
    BY <1>2, ContinuesIs DEF IInv, Stands, Receives, Working
  <2>5. phase' = "streaming" /\ attempts' > 0
    BY <1>2, ContinuesIs
  <2>6. QED
    BY <2>2, <2>3, <2>4, <2>5 DEF Stands, Working
<1>3. QED
  BY <1>1, <1>2, ReceivesCases, StopsIs, SpokeIs DEF Threw

LEMMA ReceivesTold ==
  ASSUME IInv, NEW r \in Reply, Receives(r)
  PROVE  Told' /\ RequestsCarryResults'
<1>1. /\ tools \in Seq(Tool) /\ history \in Seq(Calls) /\ sent \in Seq(Seq(Calls))
      /\ Len(history) = Len(tools)
      /\ \A i \in 1..Len(tools) : tools[i] = [id |-> history[i], ok |-> TRUE]
      /\ \A k \in 1..Len(sent) :
           /\ Len(sent[k]) <= Len(tools)
           /\ \A i \in 1..Len(sent[k]) : tools[i] = [id |-> sent[k][i], ok |-> TRUE]
  BY DEF IInv, TypeOK, Tool, Told, RequestsCarryResults, Receives
<1>2. CASE Threw
  BY <1>1, <1>2 DEF Threw, stream, message, Told, RequestsCarryResults, Working
<1>3. CASE Spoke(r)
  BY <1>1, <1>3, SpokeIs DEF stream, Told, RequestsCarryResults, Working
<1>4. ASSUME NEW t \in Tool, tools' = Append(tools, t)
      PROVE  /\ Len(tools') = Len(tools) + 1 /\ tools'[Len(tools) + 1] = t
             /\ \A i \in 1..Len(tools) : tools'[i] = tools[i]
             /\ \A k \in 1..Len(sent) :
                  /\ Len(sent[k]) <= Len(tools')
                  /\ \A i \in 1..Len(sent[k]) : tools'[i] = [id |-> sent[k][i], ok |-> TRUE]
  <2>1. /\ Len(tools) \in Nat /\ Len(tools') = Len(tools) + 1 /\ tools'[Len(tools) + 1] = t
        /\ \A i \in 1..Len(tools) : tools'[i] = tools[i]
    BY <1>1, <1>4
  <2>2. \A k \in 1..Len(sent) : Len(sent[k]) \in Nat
    BY <1>1
  <2>3. QED  BY <1>1, <2>1, <2>2
<1>5. ASSUME NEW t \in Tool, Stops(r, t)
      PROVE  Told' /\ RequestsCarryResults'
  BY <1>4, <1>5, StopsIs DEF stream, Told, RequestsCarryResults, Working
<1>6. ASSUME NEW t \in Tool, Continues(r, t)
      PROVE  Told' /\ RequestsCarryResults'
  <2>1. t = [id |-> t.id, ok |-> TRUE] /\ t.id \in Calls
    BY <1>6, ContinuesIs DEF Tool
  <2>2. /\ history' \in Seq(Calls)
        /\ Len(history') = Len(history) + 1 /\ history'[Len(history) + 1] = t.id
        /\ \A i \in 1..Len(history) : history'[i] = history[i]
    <3>1. history' = Append(history, t.id)
      BY <1>6, ContinuesIs
    <3>2. QED  BY <1>1, <2>1, <3>1, AppendProperties
  <2>3. Len(history') = Len(tools') /\ Len(tools) \in Nat
    BY <1>1, <1>4, <1>6, <2>2, ContinuesIs
  <2>4. \A i \in 1..Len(tools') : tools'[i] = [id |-> history'[i], ok |-> TRUE]
    <3> SUFFICES ASSUME NEW i \in 1..Len(tools')
                 PROVE  tools'[i] = [id |-> history'[i], ok |-> TRUE]
      OBVIOUS
    <3>1. CASE i = Len(tools) + 1
      BY <1>1, <1>4, <1>6, <2>1, <2>2, <3>1, ContinuesIs
    <3>2. CASE i \in 1..Len(tools)
      <4>1. tools'[i] = tools[i]
        BY <1>4, <1>6, <3>2, ContinuesIs
      <4>2. history'[i] = history[i]
        BY <1>1, <2>2, <3>2
      <4>3. QED  BY <1>1, <3>2, <4>1, <4>2
    <3>3. Len(tools') = Len(tools) + 1
      BY <1>4, <1>6, ContinuesIs
    <3>4. QED  BY <2>3, <3>1, <3>2, <3>3
  <2>5. /\ Len(sent') = Len(sent) + 1 /\ sent'[Len(sent) + 1] = history'
        /\ \A k \in 1..Len(sent) : sent'[k] = sent[k]
        /\ Len(sent) \in Nat
    <3>1. sent' = Append(sent, history')
      BY <1>6, ContinuesIs
    <3>2. QED  BY <1>1, <2>2, <3>1, AppendProperties
  <2>6. sent'[Len(sent')] = history'
    BY <2>5
  <2>7. \A k \in 1..Len(sent') :
           /\ Len(sent'[k]) <= Len(tools')
           /\ \A i \in 1..Len(sent'[k]) : tools'[i] = [id |-> sent'[k][i], ok |-> TRUE]
    <3> SUFFICES ASSUME NEW k \in 1..Len(sent')
                 PROVE  /\ Len(sent'[k]) <= Len(tools')
                        /\ \A i \in 1..Len(sent'[k]) : tools'[i] = [id |-> sent'[k][i], ok |-> TRUE]
      OBVIOUS
    <3>1. CASE k \in 1..Len(sent)
      BY <1>4, <1>6, <2>5, <3>1, ContinuesIs
    <3>2. CASE k = Len(sent')
      <4>1. sent'[k] = history' /\ Len(history') \in Nat
        BY <2>2, <2>6, <3>2
      <4>2. 1..Len(sent'[k]) = 1..Len(tools') /\ Len(sent'[k]) <= Len(tools')
        BY <2>3, <4>1
      <4>3. QED  BY <2>4, <4>1, <4>2, Zenon
    <3>3. QED  BY <2>5, <3>1, <3>2
  <2>8. QED
    BY <1>6, <2>3, <2>4, <2>6, <2>7, ContinuesIs DEF Told, RequestsCarryResults, Working
<1>7. QED
  BY <1>2, <1>3, <1>5, <1>6, ReceivesCases
LEMMA ReceivesUnaware ==
  ASSUME IInv, NEW r \in Reply, Receives(r)
  PROVE  Unaware'
<1>1. /\ input.aborted \in BOOLEAN /\ signal \in BOOLEAN /\ r.aborted \in BOOLEAN
      /\ 0 \notin spoken /\ ~error /\ 0 \notin text
  BY InputFields, ReplyFields DEF IInv, TypeOK, Unaware, Receives
<1>2. UNCHANGED <<input, signal>>
  BY DEF Receives
<1>3. CASE Threw
  BY <1>1, <1>3 DEF Threw, Unaware, Working, Built, stream, message
<1>4. ASSUME Answered(r)
      PROVE  /\ error' => text' = RequestAborted'
             /\ ~error' => 0 \notin text'
  BY <1>1, <1>4 DEF Answered, RequestAborted
<1>5. ~input.waits => (r.aborted <=> signal \/ input.aborted)
  <2>1. CASE phase = "start"
    BY <1>1, <2>1 DEF Receives
  <2>2. CASE phase = "streaming"
    BY <1>1, <2>2 DEF Receives, IInv, Stands
  <2>3. CASE phase = "waiting"
    BY <2>3 DEF IInv, Stands
  <2>4. QED  BY <2>1, <2>2, <2>3 DEF Receives, Working
<1>6. ASSUME phase' = "persisting", UNCHANGED stream, Answered(r)
      PROVE  Unaware'
  <2>1. Built' /\ ~Working' /\ spoken' = spoken /\ error' = r.aborted
    BY <1>6 DEF Built, Working, stream, Answered
  <2>2. QED  BY <1>1, <1>2, <1>4, <1>5, <1>6, <2>1 DEF Unaware
<1>7. ASSUME NEW t \in Tool, Continues(r, t)
      PROVE  Unaware'
  <2>1. ~Built' /\ spoken' = {} /\ ~error' /\ Answered(r)
    BY <1>7, ContinuesIs DEF Built, Answered
  <2>2. QED  BY <1>4, <2>1 DEF Unaware
<1>8. QED
  BY <1>3, <1>6, <1>7, ReceivesCases, StopsIs, SpokeIs

LEMMA ReceivesShown ==
  ASSUME IInv, NEW r \in Reply, Receives(r)
  PROVE  Shown'
BY ReceivesParts DEF Shown, Threw, Built, Working

-----------------------------------------------------------------------------
(* What persist writes, for any message and text.                          *)
RowOf(of, p, said) == [of |-> of, part |-> p, text |-> IF p.kind = "text" THEN said ELSE {}]

StatementsOf(shown, said) ==
  <<RowOf("project", Part("info"), said), RowOf("session", Part("info"), said),
    RowOf("user", Part("info"), said), RowOf("user", Part("prompt"), said),
    RowOf("assistant", Part("info"), said)>>
  \o [i \in 1..Len(shown) |-> RowOf("assistant", shown[i], said)]

RowType == [of : {"project", "session", "user", "assistant"},
            part : PartType \cup {Part("info"), Part("prompt")}, text : SUBSET Nat]

LEMMA StatementsAre ==
  ASSUME NEW shown \in Seq(PartType), NEW said \in SUBSET Nat
  PROVE  LET all == StatementsOf(shown, said) IN
         /\ all \in Seq(RowType)
         /\ Len(all) = 5 + Len(shown)
         /\ all[1] = RowOf("project", Part("info"), said)
         /\ all[2] = RowOf("session", Part("info"), said)
         /\ all[3] = RowOf("user", Part("info"), said)
         /\ all[4] = RowOf("user", Part("prompt"), said)
         /\ all[5] = RowOf("assistant", Part("info"), said)
         /\ \A i \in 1..Len(shown) : all[5 + i] = RowOf("assistant", shown[i], said)
<1> DEFINE fixed == <<RowOf("project", Part("info"), said), RowOf("session", Part("info"), said),
                      RowOf("user", Part("info"), said), RowOf("user", Part("prompt"), said),
                      RowOf("assistant", Part("info"), said)>>
           rest == [i \in 1..Len(shown) |-> RowOf("assistant", shown[i], said)]
           both == fixed \o rest
<1>1. \A of \in {"project", "session", "user", "assistant"},
         p \in PartType \cup {Part("info"), Part("prompt")} : RowOf(of, p, said) \in RowType
  BY DEF RowOf, RowType
<1>2. /\ fixed \in Seq(RowType) /\ Len(fixed) = 5
      /\ fixed[1] = RowOf("project", Part("info"), said)
      /\ fixed[2] = RowOf("session", Part("info"), said)
      /\ fixed[3] = RowOf("user", Part("info"), said)
      /\ fixed[4] = RowOf("user", Part("prompt"), said)
      /\ fixed[5] = RowOf("assistant", Part("info"), said)
  BY <1>1
<1>3. /\ rest \in Seq(RowType) /\ Len(rest) = Len(shown) /\ Len(shown) \in Nat
      /\ \A i \in 1..Len(shown) : rest[i] = RowOf("assistant", shown[i], said)
  BY <1>1
<1> HIDE DEF fixed, rest
<1>4. /\ both \in Seq(RowType)
      /\ Len(both) = Len(fixed) + Len(rest)
      /\ \A i \in 1..(Len(fixed) + Len(rest)) :
           both[i] = IF i <= Len(fixed) THEN fixed[i] ELSE rest[i - Len(fixed)]
  BY <1>2, <1>3, ConcatProperties
<1> HIDE DEF both
<1>5. \A i \in 1..(5 + Len(shown)) : both[i] = IF i <= 5 THEN fixed[i] ELSE rest[i - 5]
  BY <1>2, <1>3, <1>4, Zenon
<1>6. \A i \in 1..5 : both[i] = fixed[i]
  BY <1>3, <1>5
<1>7. \A i \in 1..Len(shown) : both[5 + i] = rest[i]
  <2>1. \A i \in 1..Len(shown) : 5 + i \in 1..(5 + Len(shown)) /\ ~(5 + i <= 5) /\ (5 + i) - 5 = i
    BY <1>3
  <2>2. QED  BY <1>5, <2>1, Zenon
<1>8. StatementsOf(shown, said) = both
  BY DEF StatementsOf, both, fixed, rest
<1>9. 1 \in 1..5 /\ 2 \in 1..5 /\ 3 \in 1..5 /\ 4 \in 1..5 /\ 5 \in 1..5
  OBVIOUS
<1>10. QED  BY <1>2, <1>3, <1>4, <1>6, <1>7, <1>8, <1>9, Zenon

LEMMA Statement ==
  /\ Statements = StatementsOf(parts, text)
  /\ Statements' = StatementsOf(parts', text')
BY DEF Statements, StatementsOf, Row, RowOf
LEMMA ReceivesSaved ==
  ASSUME IInv, NEW r \in Reply, Receives(r), TypeOK'
  PROVE  Saved'
<1>1. written' = 0 /\ table' = <<>>
  BY DEF IInv, Saved, Receives, Working, store
<1>2. Len(Statements') > 0
  <2>1. parts' \in Seq(PartType) /\ text' \in SUBSET Nat
    BY DEF TypeOK, PartType
  <2>2. Len(Statements') = 5 + Len(parts') /\ Len(parts') \in Nat
    BY <2>1, StatementsAre, Statement
  <2>3. QED  BY <2>2
<1>3. SubSeq(Statements', 1, 0) = <<>>
  BY SubSeqEmpty
<1>4. phase' \in {"failed", "persisting", "streaming"}
  BY ReceivesCases, ContinuesIs, StopsIs, SpokeIs DEF Threw
<1>5. QED  BY <1>1, <1>2, <1>3, <1>4 DEF Saved, Built

LEMMA ReceivesKeeps ==
  ASSUME IInv, NEW r \in Reply, Receives(r)
  PROVE  IInv'
BY ReceivesTypes, ReceivesStands, ReceivesTold, ReceivesUnaware, ReceivesShown, ReceivesSaved
   DEF IInv

-----------------------------------------------------------------------------
(* No two parts of a message have one key when the calls are distinct.     *)
LEMMA PartsDiffer ==
  ASSUME TypeOK, NEW b \in {0, 1}, LaidOut(b), Distinct,
         NEW i \in 1..Len(parts), NEW j \in 1..Len(parts), i < j
  PROVE  parts[i].kind # parts[j].kind \/ parts[i].id # parts[j].id
<1> DEFINE n == Len(tools)
<1>1. n \in Nat /\ \A k \in 1..n : tools[k] \in Tool
  <2>1. tools \in Seq(Tool)
    BY DEF TypeOK, Tool
  <2>2. QED  BY <2>1
<1>2. CASE n = 0
  <2>1. i = 1 /\ j = 2 /\ b = 1
    BY <1>2 DEF LaidOut
  <2>2. parts[i] = Part("retry") /\ parts[j] = Part("text")
    BY <1>2, <2>1 DEF LaidOut
  <2>3. QED  BY <2>2, PartsAreParts
<1>3. CASE n > 0
  <2>1. Len(parts) = b + n + 3
    BY <1>3 DEF LaidOut
  <2>2. \A k \in 1..Len(parts) :
          parts[k].kind =
            IF k <= b THEN "retry"
            ELSE IF k = b + 1 THEN "step-start"
            ELSE IF k = b + n + 2 THEN "text"
            ELSE IF k = b + n + 3 THEN "step-finish" ELSE "tool"
    <3> SUFFICES ASSUME NEW k \in 1..Len(parts)
                 PROVE  parts[k].kind =
                          IF k <= b THEN "retry"
                          ELSE IF k = b + 1 THEN "step-start"
                          ELSE IF k = b + n + 2 THEN "text"
                          ELSE IF k = b + n + 3 THEN "step-finish" ELSE "tool"
      OBVIOUS
    <3>1. CASE k <= b + 1 \/ k >= b + n + 2
      BY <1>1, <1>3, <2>1, <3>1, PartsAreParts DEF LaidOut
    <3>2. CASE k > b + 1 /\ k < b + n + 2
      <4>1. k - b - 1 \in 1..n /\ k = b + 1 + (k - b - 1)
        BY <1>1, <2>1, <3>2
      <4>2. parts[k] = ToolPart(tools[k - b - 1])
        BY <1>3, <4>1 DEF LaidOut
      <4>3. parts[k].kind = "tool"
        BY <1>1, <4>1, <4>2, PartsAreParts
      <4>4. QED  BY <1>1, <3>2, <4>3
    <3>3. QED  BY <1>1, <2>1, <3>1, <3>2
  <2>3. CASE i > b + 1 /\ j < b + n + 2
    <3> DEFINE x == i - b - 1
               y == j - b - 1
    <3>1. /\ x \in 1..n /\ y \in 1..n /\ x # y
          /\ i = b + 1 + x /\ j = b + 1 + y
      BY <1>1, <2>1, <2>3
    <3> HIDE DEF x, y
    <3>2. parts[i] = ToolPart(tools[x]) /\ parts[j] = ToolPart(tools[y])
      BY <1>3, <3>1 DEF LaidOut
    <3>3. tools[x].id # tools[y].id
      BY <3>1 DEF Distinct
    <3>4. QED  BY <3>2, <3>3 DEF ToolPart
  <2>4. CASE ~(i > b + 1 /\ j < b + n + 2)
    BY <1>1, <1>3, <2>1, <2>2, <2>4
  <2>5. QED  BY <2>3, <2>4
<1>4. QED  BY <1>1, <1>2, <1>3

(* So no two statements write one row.                                     *)
LEMMA KeysDiffer ==
  ASSUME TypeOK, NEW b \in {0, 1}, LaidOut(b), Distinct,
         NEW i \in 1..Len(Statements), NEW j \in 1..Len(Statements), i < j
  PROVE  ~SameKey(Statements[i], Statements[j])
<1>1. parts \in Seq(PartType) /\ text \in SUBSET Nat
  BY DEF TypeOK, PartType
<1> DEFINE all == Statements
<1>2. /\ Len(all) = 5 + Len(parts) /\ Len(parts) \in Nat
      /\ all[1] = RowOf("project", Part("info"), text)
      /\ all[2] = RowOf("session", Part("info"), text)
      /\ all[3] = RowOf("user", Part("info"), text)
      /\ all[4] = RowOf("user", Part("prompt"), text)
      /\ all[5] = RowOf("assistant", Part("info"), text)
      /\ \A k \in 1..Len(parts) : all[5 + k] = RowOf("assistant", parts[k], text)
  BY <1>1, StatementsAre, Statement
<1> HIDE DEF all
<1>3. CASE j > 5
  <2>1. j - 5 \in 1..Len(parts) /\ j = 5 + (j - 5)
    BY <1>2, <1>3 DEF all
  <2>2. all[j] = RowOf("assistant", parts[j - 5], text) /\ parts[j - 5] \in PartType
    BY <1>1, <1>2, <2>1
  <2>3. all[j].of = "assistant" /\ all[j].part.kind \notin {"info", "prompt"}
        /\ all[j].part = parts[j - 5]
    BY <2>2 DEF RowOf, PartType
  <2>4. CASE i > 5
    <3>1. i - 5 \in 1..Len(parts) /\ i = 5 + (i - 5) /\ i - 5 < j - 5
      BY <1>2, <2>1, <2>4
    <3>2. all[i].part = parts[i - 5]
      <4>1. all[i] = RowOf("assistant", parts[i - 5], text)
        BY <1>2, <3>1
      <4>2. QED  BY <4>1 DEF RowOf
    <3>3. parts[i - 5].kind # parts[j - 5].kind \/ parts[i - 5].id # parts[j - 5].id
      BY <2>1, <3>1, PartsDiffer
    <3>4. QED  BY <2>3, <3>2, <3>3 DEF SameKey, all
  <2>5. CASE i <= 5
    <3>1. all[i].of # "assistant" \/ all[i].part.kind = "info"
      <4>1. i \in {1, 2, 3, 4, 5}
        BY <2>5
      <4>2. QED  BY <1>2, <4>1 DEF RowOf, Part
    <3>2. QED  BY <2>3, <3>1 DEF SameKey, all
  <2>6. QED  BY <2>4, <2>5
<1>4. CASE j <= 5
  <2>1. <<i, j>> \in {<<1, 2>>, <<1, 3>>, <<1, 4>>, <<1, 5>>, <<2, 3>>, <<2, 4>>, <<2, 5>>,
                     <<3, 4>>, <<3, 5>>, <<4, 5>>}
    BY <1>4
  <2>2. all[i].of # all[j].of \/ all[i].part.kind # all[j].part.kind
    BY <1>2, <2>1 DEF RowOf, Part
  <2>3. QED  BY <2>2 DEF SameKey, all
<1>5. QED  BY <1>3, <1>4
-----------------------------------------------------------------------------
(* The steps of the turn.                                                  *)
LEMMA IInvInit == Init => IInv
<1> SUFFICES ASSUME Init PROVE IInv
  OBVIOUS
<1> USE DEF Init
<1>1. TypeOK
  <2>1. 0 \in 0..input.maxAttempts
    BY TurnAssumption DEF Input
  <2>2. NoReply \in Reply
    BY DEF Reply, NoReply
  <2>3. \A S : <<>> \in Seq(S)
    OBVIOUS
  <2>4. QED  BY <2>1, <2>2, <2>3 DEF TypeOK
<1>2. Stands /\ Told /\ RequestsCarryResults
  BY DEF Stands, Told, RequestsCarryResults, Working
<1>3. Unaware /\ Shown /\ Saved
  BY DEF Unaware, Shown, Saved, Working, Built
<1>4. QED  BY <1>1, <1>2, <1>3 DEF IInv

(* A turn that goes on without a word leaves message and store alone.      *)
LEMMA QuietStep ==
  ASSUME IInv, Working, UNCHANGED <<input, rounds, history, message, store>>,
         phase' \in {"streaming", "waiting"}, TypeOK', Stands',
         0 \notin spoken', sent'[Len(sent')] = history,
         sent' = sent \/ sent' = Append(sent, history)
  PROVE  IInv'
<1>1. Working' /\ ~Built'
  BY DEF Working, Built
<1>2. Told'
  BY DEF IInv, Told, Working, message
<1>3. RequestsCarryResults'
  <2>1. sent \in Seq(Seq(Calls)) /\ history \in Seq(Calls) /\ Len(history) = Len(tools)
        /\ Len(history) \in Nat
        /\ \A i \in 1..Len(history) : tools[i] = [id |-> history[i], ok |-> TRUE]
    BY DEF IInv, TypeOK, Told, Working
  <2>2. \A k \in 1..Len(sent') : (k \in 1..Len(sent) /\ sent'[k] = sent[k]) \/ sent'[k] = history
    <3>1. CASE sent' = sent
      BY <3>1
    <3>2. CASE sent' = Append(sent, history)
      <4>1. /\ Len(sent) \in Nat /\ Len(sent') = Len(sent) + 1 /\ sent'[Len(sent) + 1] = history
            /\ \A k \in 1..Len(sent) : sent'[k] = sent[k]
        BY <2>1, <3>2, AppendProperties
      <4>2. QED  BY <4>1
    <3>3. QED  BY <3>1, <3>2
  <2>3. tools' = tools
    BY DEF message
  <2>4. QED  BY <2>1, <2>2, <2>3 DEF IInv, RequestsCarryResults
<1>4. Unaware'
  BY <1>1 DEF IInv, Unaware, message, RequestAborted
<1>5. Shown'
  <2>1. \A b \in {0, 1} : LaidOut(b) => LaidOut(b)'
    BY DEF LaidOut, message
  <2>2. QED  BY <1>1, <2>1 DEF IInv, Shown, Working
<1>6. Saved'
  BY <1>1 DEF IInv, Saved, Working, Built, store
<1>7. QED  BY <1>2, <1>3, <1>4, <1>5, <1>6 DEF IInv

LEMMA OpenStep ==
  ASSUME IInv, Open(history)
  PROVE  /\ phase' = "streaming" /\ sent' = Append(sent, history)
         /\ sent' \in Seq(Seq(Calls)) /\ sent' # <<>> /\ sent'[Len(sent')] = history
<1>1. sent \in Seq(Seq(Calls)) /\ history \in Seq(Calls)
  BY DEF IInv, TypeOK
<1>2. sent' = Append(sent, history) /\ phase' = "streaming"
  BY DEF Open
<1>3. QED  BY <1>1, <1>2, AppendProperties

LEMMA StartKeeps == ASSUME IInv, Start PROVE IInv'
<1>1. history = <<>> /\ rounds = 0 /\ tools = <<>> /\ parts = <<>>
  BY DEF IInv, Start, Stands, Working
<1>2. Open(history)
  BY <1>1 DEF Start
<1>3. TypeOK'
  <2>1. 1 \in 0..input.maxAttempts
    BY InputFields DEF IInv
  <2>2. QED  BY <1>2, <2>1, OpenStep DEF IInv, TypeOK, Start, message, store
<1>4. Stands'
  BY <1>1, <1>2, OpenStep DEF Start, Stands, message, Working
<1>5. QED
  BY <1>2, <1>3, <1>4, OpenStep, QuietStep DEF Start, IInv, Unaware, Working

LEMMA StreamFailsKeeps ==
  ASSUME IInv, NEW r \in Reply, StreamFails(r) PROVE IInv'
<1>1. sent # <<>> /\ ~input.aborted /\ sent[Len(sent)] = history /\ Working
  BY DEF IInv, StreamFails, Stands, Told, Working
<1>2. spoken' \subseteq Nat /\ 0 \notin spoken'
  BY <1>1, HeardIsNatural DEF StreamFails
<1>3. attempts \in Nat /\ attempts < input.maxAttempts /\ ~r.aborted
      /\ input.maxAttempts \in Nat
  BY InputFields DEF IInv, TypeOK, StreamFails, Retries
<1>4. CASE phase' = "waiting" /\ input.waits /\ reply' = r /\ UNCHANGED <<attempts, sent>>
  <2>1. TypeOK'
    BY <1>2, <1>4 DEF IInv, TypeOK, StreamFails, message, store
  <2>2. Stands'
    BY <1>1, <1>3, <1>4 DEF IInv, StreamFails, Stands, message, Working
  <2>3. QED
    BY <1>1, <1>2, <1>4, <2>1, <2>2, QuietStep DEF StreamFails
<1>5. CASE Again /\ UNCHANGED reply
  <2>1. Open(history) /\ attempts' = attempts + 1
    BY <1>5 DEF Again
  <2>2. TypeOK'
    BY <1>2, <1>3, <1>5, <2>1, OpenStep DEF IInv, TypeOK, StreamFails, message, store
  <2>3. Stands'
    BY <1>1, <1>3, <1>5, <2>1, OpenStep DEF IInv, StreamFails, Stands, message, Working
  <2>4. QED
    BY <1>1, <1>2, <2>1, <2>2, <2>3, OpenStep, QuietStep DEF StreamFails
<1>6. QED  BY <1>4, <1>5 DEF StreamFails

LEMMA WaitEndsKeeps == ASSUME IInv, WaitEnds PROVE IInv'
<1>1. /\ sent # <<>> /\ ~input.aborted /\ sent[Len(sent)] = history /\ Working
      /\ attempts < input.maxAttempts /\ attempts \in Nat /\ input.maxAttempts \in Nat
  BY InputFields DEF IInv, TypeOK, WaitEnds, Stands, Told, Working
<1>2. Open(history) /\ attempts' = attempts + 1
  BY DEF WaitEnds, Again
<1>3. TypeOK'
  BY <1>1, <1>2, OpenStep DEF IInv, TypeOK, WaitEnds, message, store
<1>4. Stands'
  BY <1>1, <1>2, OpenStep DEF IInv, WaitEnds, Stands, message, Working
<1>5. QED
  BY <1>1, <1>2, <1>3, <1>4, OpenStep, QuietStep DEF WaitEnds, IInv, Unaware

LEMMA AbortKeeps == ASSUME IInv, Abort PROVE IInv'
<1>1. TypeOK'
  BY DEF IInv, TypeOK, Abort, stream, message, store
<1>2. Stands' /\ Told' /\ RequestsCarryResults'
  BY DEF IInv, Abort, Stands, Told, RequestsCarryResults, Working, stream, message
<1>3. Unaware'
  BY DEF IInv, Abort, Unaware, Working, Built, stream, message, RequestAborted
<1>4. Shown'
  BY DEF IInv, Abort, Shown, LaidOut, Working, Built, stream, message
<1>5. Saved'
  BY DEF IInv, Abort, Saved, Working, Built, stream, message, store
<1>6. QED  BY <1>1, <1>2, <1>3, <1>4, <1>5 DEF IInv
LEMMA StartAbortedKeeps == ASSUME IInv, StartAborted PROVE IInv'
<1> DEFINE r == [NoReply EXCEPT !.aborted = TRUE]
<1>1. r \in Reply /\ r.aborted /\ ~r.speaks
  BY DEF Reply, NoReply
<1> HIDE DEF r
<1>2. Receive(r)
  BY DEF IInv, Stands, StartAborted, Receive, r
<1>3. Receives(r)
  BY <1>1, <1>2 DEF StartAborted, Receives, Working
<1>4. QED  BY <1>1, <1>3, ReceivesKeeps

LEMMA StreamEndsKeeps ==
  ASSUME IInv, NEW r \in Reply, StreamEnds(r) PROVE IInv'
BY ReceivesKeeps DEF StreamEnds, Receives, Working

LEMMA WaitGivesUpKeeps == ASSUME IInv, WaitGivesUp PROVE IInv'
<1>1. reply \in Reply /\ ~reply.aborted
  BY DEF IInv, TypeOK, Stands, WaitGivesUp
<1>2. Receives(reply)
  BY <1>1 DEF WaitGivesUp, Receives, Working
<1>3. QED  BY <1>1, <1>2, ReceivesKeeps

(* A statement puts its row after those of the statements before it.       *)
LEMMA PersistSaves ==
  ASSUME IInv, Persist PROVE Saved'
<1>1. /\ Statements' = Statements /\ tools' = tools /\ written' = written + 1
      /\ phase' = (IF written' = Len(Statements) THEN "done" ELSE phase)
      /\ table' = Upsert(Statements[written + 1])
      /\ phase = "persisting" /\ written < Len(Statements)
  BY Statement DEF IInv, Saved, Persist, message
<1> DEFINE all == Statements
<1>2. all \in Seq(RowType) /\ Len(all) \in Nat /\ written \in Nat
  <2>1. parts \in Seq(PartType) /\ text \in SUBSET Nat /\ written \in Nat
    BY DEF IInv, TypeOK, PartType
  <2>2. all \in Seq(RowType)
    BY <2>1, StatementsAre, Statement
  <2>3. QED  BY <2>1, <2>2
<1>3. ASSUME Distinct
      PROVE  table' = SubSeq(all, 1, written + 1)
  <2>1. table = SubSeq(all, 1, written)
    BY <1>1, <1>3 DEF IInv, Saved, Built
  <2>2. PICK b \in {0, 1} : LaidOut(b)
    BY <1>1 DEF IInv, Shown, Built
  <2>3. written + 1 \in 1..Len(all)
    BY <1>1, <1>2
  <2>4. \A i \in 1..written : ~SameKey(all[i], all[written + 1])
    <3>1. \A i \in 1..written : i \in 1..Len(all) /\ i < written + 1
      BY <1>1, <1>2
    <3>2. QED  BY <1>3, <2>2, <2>3, <3>1, KeysDiffer DEF IInv
  <2> HIDE DEF all
  <2>5. Len(table) = written /\ \A i \in 1..written : table[i] = all[i]
    BY <1>2, <2>1, <2>3
  <2>6. table' = Append(table, all[written + 1])
    <3>1. ~\E i \in 1..Len(table) : SameKey(table[i], all[written + 1])
      BY <2>4, <2>5
    <3>2. table' = Upsert(all[written + 1])
      BY <1>1 DEF all
    <3>3. QED  BY <3>1, <3>2 DEF Upsert
  <2>7. SubSeq(all, 1, written + 1) = SubSeq(all, 1, written) \o <<all[written + 1]>>
    <3>1. /\ 1 \in 1..Len(all) /\ written + 1 \in 1..Len(all) /\ (written + 1) - 1 = written
      BY <1>2, <2>3
    <3>2. QED  BY <1>2, <3>1, SubSeqRecursiveSecond
  <2>8. table \in Seq(RowType) /\ all[written + 1] \in RowType
    BY <1>2, <2>1, <2>3
  <2>9. Append(table, all[written + 1]) = table \o <<all[written + 1]>>
    BY <2>8, AppendIsConcat
  <2>10. QED  BY <2>1, <2>6, <2>7, <2>9
<1>4. /\ phase' = "persisting" => written' < Len(Statements')
      /\ phase' = "done" => written' = Len(Statements')
      /\ phase' \in {"persisting", "done"}
  BY <1>1, <1>2
<1>5. Distinct' => Distinct
  BY <1>1 DEF Distinct
<1>6. QED  BY <1>1, <1>3, <1>4, <1>5 DEF Saved

LEMMA PersistKeeps == ASSUME IInv, Persist PROVE IInv'
<1>1. phase = "persisting" /\ phase' \in {"persisting", "done"}
  BY DEF Persist
<1>2. TypeOK'
  BY <1>1 DEF IInv, TypeOK, Persist, stream, message
<1>3. Stands' /\ Told' /\ RequestsCarryResults'
  BY <1>1 DEF IInv, Persist, Stands, Told, RequestsCarryResults, Working, stream, message
<1>4. Unaware'
  BY <1>1 DEF IInv, Persist, Unaware, Working, Built, stream, message, RequestAborted
<1>5. Shown'
  BY <1>1 DEF IInv, Persist, Shown, LaidOut, Working, Built, stream, message
<1>6. QED  BY <1>2, <1>3, <1>4, <1>5, PersistSaves DEF IInv

LEMMA PersistStopsKeeps == ASSUME IInv, PersistStops PROVE IInv'
<1>1. phase' = "failed"
  BY DEF PersistStops
<1>2. TypeOK'
  BY <1>1 DEF IInv, TypeOK, PersistStops, stream, message, store
<1>3. Stands' /\ Told' /\ RequestsCarryResults'
  BY <1>1 DEF IInv, PersistStops, Stands, Told, RequestsCarryResults, Working, stream, message
<1>4. Unaware' /\ Shown' /\ Saved'
  BY <1>1 DEF IInv, PersistStops, Unaware, Shown, Saved, Working, Built, stream, message,
              RequestAborted
<1>5. QED  BY <1>2, <1>3, <1>4 DEF IInv

LEMMA StutterKeeps == ASSUME IInv, UNCHANGED vars PROVE IInv'
<1> USE DEF vars
<1>1. TypeOK' /\ Stands' /\ Told' /\ RequestsCarryResults'
  BY DEF IInv, TypeOK, Stands, Told, RequestsCarryResults, Working
<1>2. Unaware' /\ Shown'
  BY DEF IInv, Unaware, Shown, LaidOut, Working, Built, RequestAborted
<1>3. Saved'
  BY Statement DEF IInv, Saved, Distinct, Built
<1>4. QED  BY <1>1, <1>2, <1>3 DEF IInv

LEMMA IInvNext == IInv /\ [Next]_vars => IInv'
<1> SUFFICES ASSUME IInv, [Next]_vars PROVE IInv'
  OBVIOUS
<1>1. ASSUME NEW r \in Reply, StreamFails(r) PROVE IInv'
  BY <1>1, StreamFailsKeeps
<1>2. ASSUME NEW r \in Reply, StreamEnds(r) PROVE IInv'
  BY <1>2, StreamEndsKeeps
<1>3. QED
  BY <1>1, <1>2, StartKeeps, StartAbortedKeeps, AbortKeeps, WaitEndsKeeps, WaitGivesUpKeeps,
     PersistKeeps, PersistStopsKeeps, StutterKeeps DEF Next

LEMMA IInvAlways == Spec => []IInv
BY IInvInit, IInvNext, PTL DEF Spec

-----------------------------------------------------------------------------
(* Every variable keeps its type, whatever the inputs.                     *)
THEOREM TypeCorrect == Spec => []TypeOK
<1>1. IInv => TypeOK
  BY DEF IInv
<1> QED  BY <1>1, IInvAlways, PTL

(* Every request of a turn carries the results of all tools executed       *)
(* before it, in order, each of which succeeded, through any number of     *)
(* retries and continuations (runAiSdk, streamAiSdkWithRetry).             *)
THEOREM ResultsAreCarried == Spec => []RequestsCarryResults
<1>1. IInv => RequestsCarryResults
  BY DEF IInv
<1> QED  BY <1>1, IInvAlways, PTL

(* A turn that is aborted is marked so, with the text of an abort, and no  *)
(* other turn is, wherever in the turn the abort comes (runAiSdk,          *)
(* assistantWithParts).                                                    *)
THEOREM AbortsAreRecorded == Spec => []AbortIsRecorded
<1>1. IInv => AbortIsRecorded
  BY DEF IInv, Unaware, AbortIsRecorded, RequestAborted
<1> QED  BY <1>1, IInvAlways, PTL

(* Once a turn knows that it was aborted it makes no request any more      *)
(* (runAiSdk).                                                             *)
THEOREM AbortsStopRequests == Spec => AbortStopsRequests
<1>1. IInv /\ [Next]_vars => [error' => sent' = sent]_vars
  <2> SUFFICES ASSUME IInv, Next, error'
               PROVE  sent' = sent
    OBVIOUS
  <2>1. CASE Start \/ Abort \/ WaitEnds \/ \E r \in Reply : StreamFails(r)
    <3>1. Working /\ error' = error
      BY <2>1 DEF Start, Abort, WaitEnds, StreamFails, Working, message
    <3>2. QED  BY <3>1 DEF IInv, Unaware
  <2>2. CASE Persist \/ PersistStops
    BY <2>2 DEF Persist, PersistStops, stream
  <2>3. ASSUME NEW r \in Reply, Receives(r)
        PROVE  sent' = sent
    BY <2>3, ReceivesCases, ContinuesIs, StopsIs, SpokeIs DEF Threw, Answered, stream
  <2>4. CASE StartAborted
    <3> DEFINE r == [NoReply EXCEPT !.aborted = TRUE]
    <3>1. r \in Reply /\ r.aborted /\ ~r.speaks
      BY DEF Reply, NoReply
    <3> HIDE DEF r
    <3>2. Receive(r)
      BY <2>4 DEF IInv, Stands, StartAborted, Receive, r
    <3>3. QED  BY <2>3, <2>4, <3>1, <3>2 DEF StartAborted, Receives, Working
  <2>5. CASE \E r \in Reply : StreamEnds(r)
    BY <2>3, <2>5 DEF StreamEnds, Receives, Working
  <2>6. CASE WaitGivesUp
    <3>1. reply \in Reply /\ ~reply.aborted
      BY <2>6 DEF IInv, TypeOK, Stands, WaitGivesUp
    <3>2. QED  BY <2>3, <2>6, <3>1 DEF WaitGivesUp, Receives, Working
  <2>7. QED  BY <2>1, <2>2, <2>4, <2>5, <2>6 DEF Next
<1>2. QED
  BY <1>1, IInvAlways, PTL DEF Spec, AbortStopsRequests

(* The stored turn, read back, is the message that was returned, when its  *)
(* call ids are distinct (persist, upsertPart).                            *)
THEOREM StoredIsReturned == Spec => []StoredTurnIsTheReturned
<1>1. IInv => StoredTurnIsTheReturned
  <2> SUFFICES ASSUME IInv, phase = "done", Distinct
               PROVE  table = Statements
    BY DEF StoredTurnIsTheReturned, Distinct
  <2>1. table = SubSeq(Statements, 1, Len(Statements))
    BY DEF IInv, Saved, Built
  <2>2. Statements \in Seq(RowType)
    <3>1. parts \in Seq(PartType) /\ text \in SUBSET Nat
      BY DEF IInv, TypeOK, PartType
    <3>2. QED  BY <3>1, StatementsAre, Statement
  <2>3. QED  BY <2>1, <2>2, SubSeqFull
<1>2. QED  BY <1>1, IInvAlways, PTL
(* The message as one sequence.                                            *)
LEMMA LaidOutIsShown ==
  ASSUME TypeOK, NEW b \in {0, 1}, LaidOut(b)
  PROVE  \E retried \in {<<>>, <<Part("retry")>>} :
           parts = retried \o
             (IF tools = <<>> THEN <<Part("text")>>
              ELSE <<Part("step-start")>> \o [i \in 1..Len(tools) |-> ToolPart(tools[i])]
                   \o <<Part("text"), Part("step-finish")>>)
<1> DEFINE lead == IF b = 0 THEN <<>> ELSE <<Part("retry")>>
           first == <<Part("step-start")>>
           shown == [i \in 1..Len(tools) |-> ToolPart(tools[i])]
           last == <<Part("text"), Part("step-finish")>>
           rest == IF tools = <<>> THEN <<Part("text")>> ELSE first \o shown \o last
           n == Len(tools)
<1>1. tools \in Seq(Tool) /\ parts \in Seq(PartType)
  BY DEF TypeOK, Tool, PartType
<1>2. n \in Nat /\ (tools = <<>> <=> n = 0) /\ \A i \in 1..n : ToolPart(tools[i]) \in PartType
  BY <1>1, PartsAreParts
<1>3. /\ Part("retry") \in PartType /\ Part("step-start") \in PartType
      /\ Part("text") \in PartType /\ Part("step-finish") \in PartType
  BY PartsAreParts
<1>4. lead \in Seq(PartType) /\ Len(lead) = b /\ \A i \in 1..b : lead[i] = Part("retry")
  BY <1>3
<1>5. /\ rest \in Seq(PartType)
      /\ Len(rest) = Len(parts) - b
      /\ \A i \in 1..Len(parts) - b : rest[i] = parts[b + i]
  <2>1. CASE n = 0
    <3>1. rest = <<Part("text")>> /\ Len(parts) = b + 1 /\ parts[b + 1] = Part("text")
      BY <1>2, <2>1 DEF LaidOut
    <3>2. <<Part("text")>> \in Seq(PartType) /\ Len(<<Part("text")>>) = 1
          /\ <<Part("text")>>[1] = Part("text")
      BY <1>3
    <3> HIDE DEF rest
    <3>3. QED  BY <3>1, <3>2
  <2>2. CASE n > 0
    <3>1. first \in Seq(PartType) /\ Len(first) = 1 /\ first[1] = Part("step-start")
      BY <1>3
    <3>2. /\ shown \in Seq(PartType) /\ Len(shown) = n
          /\ \A i \in 1..n : shown[i] = ToolPart(tools[i])
      BY <1>2
    <3>3. /\ last \in Seq(PartType) /\ Len(last) = 2
          /\ last[1] = Part("text") /\ last[2] = Part("step-finish")
      BY <1>3
    <3>4. rest = first \o shown \o last
      BY <1>2, <2>2
    <3> HIDE DEF first, shown, last, rest
    <3> DEFINE front == first \o shown
    <3>5. /\ front \in Seq(PartType) /\ Len(front) = Len(first) + Len(shown)
          /\ \A i \in 1..(Len(first) + Len(shown)) :
               front[i] = IF i <= Len(first) THEN first[i] ELSE shown[i - Len(first)]
      <4>1. first \in Seq(PartType) /\ shown \in Seq(PartType)
        BY <3>1, <3>2
      <4>2. QED  BY <4>1, ConcatProperties
    <3> HIDE DEF front
    <3>6. /\ Len(front) = 1 + n /\ front[1] = Part("step-start")
          /\ \A i \in 1..n : front[1 + i] = ToolPart(tools[i])
      BY <1>2, <3>1, <3>2, <3>5
    <3>7. rest = front \o last
      BY <3>4 DEF front
    <3>8. /\ rest \in Seq(PartType) /\ Len(rest) = Len(front) + Len(last)
          /\ \A i \in 1..(Len(front) + Len(last)) :
               rest[i] = IF i <= Len(front) THEN front[i] ELSE last[i - Len(front)]
      <4>1. front \in Seq(PartType) /\ last \in Seq(PartType)
        BY <3>3, <3>5
      <4>2. QED  BY <3>7, <4>1, ConcatProperties
    <3>9. /\ Len(rest) = n + 3 /\ rest[1] = Part("step-start")
          /\ \A i \in 1..n : rest[1 + i] = ToolPart(tools[i])
          /\ rest[n + 2] = Part("text") /\ rest[n + 3] = Part("step-finish")
      BY <1>2, <3>3, <3>6, <3>8
    <3>10. Len(parts) = b + n + 3
      BY <2>2 DEF LaidOut
    <3>11. \A i \in 1..n + 3 : rest[i] = parts[b + i]
      <4> SUFFICES ASSUME NEW i \in 1..n + 3 PROVE rest[i] = parts[b + i]
        OBVIOUS
      <4>1. CASE i = 1 \/ i = n + 2 \/ i = n + 3
        BY <1>2, <2>2, <3>9, <4>1 DEF LaidOut
      <4>2. CASE i > 1 /\ i < n + 2
        <5>1. i - 1 \in 1..n /\ i = 1 + (i - 1) /\ b + i = b + 1 + (i - 1)
          BY <1>2, <4>2
        <5>2. rest[i] = ToolPart(tools[i - 1])
          BY <3>9, <5>1
        <5>3. parts[b + i] = ToolPart(tools[i - 1])
          BY <2>2, <5>1 DEF LaidOut
        <5>4. QED  BY <5>2, <5>3
      <4>3. QED  BY <1>2, <4>1, <4>2
    <3>12. QED  BY <1>2, <3>8, <3>9, <3>10, <3>11
  <2>3. QED  BY <1>2, <2>1, <2>2
<1>6. lead \in {<<>>, <<Part("retry")>>}
  OBVIOUS
<1> DEFINE whole == lead \o rest
<1> HIDE DEF lead, rest
<1>7. /\ whole \in Seq(PartType) /\ Len(whole) = Len(lead) + Len(rest)
      /\ \A i \in 1..(Len(lead) + Len(rest)) :
           whole[i] = IF i <= Len(lead) THEN lead[i] ELSE rest[i - Len(lead)]
  BY <1>4, <1>5, ConcatProperties
<1> HIDE DEF whole
<1>8. Len(parts) \in Nat /\ Len(parts) >= b /\ \A i \in 1..b : parts[i] = Part("retry")
  BY <1>1, <1>2 DEF LaidOut
<1>9. Len(whole) = Len(parts) /\ \A i \in 1..Len(parts) : whole[i] = parts[i]
  <2>1. Len(lead) + Len(rest) = Len(parts)
    BY <1>4, <1>5, <1>8
  <2> SUFFICES ASSUME NEW i \in 1..Len(parts) PROVE whole[i] = parts[i]
    BY <1>7, <2>1
  <2>2. CASE i <= b
    BY <1>4, <1>7, <1>8, <2>1, <2>2
  <2>3. CASE i > b
    <3>1. i - b \in 1..Len(parts) - b /\ b + (i - b) = i
      BY <1>8, <2>3
    <3>2. rest[i - b] = parts[i]
      BY <1>5, <3>1
    <3>3. QED  BY <1>4, <1>7, <2>1, <2>3, <3>2
  <2>4. QED  BY <1>8, <2>2, <2>3
<1>10. parts = whole
  BY <1>1, <1>7, <1>9, SeqEqual
<1>11. QED  BY <1>6, <1>10 DEF whole, rest, first, shown, last

(* The message shows the tools executed, each once, in order and with its  *)
(* result, before its text and between the step markers.                   *)
THEOREM ToolsAreShown == Spec => []MessageShowsTools
<1>1. IInv => MessageShowsTools
  <2> SUFFICES ASSUME IInv, Built
               PROVE  MessageShowsTools
    BY DEF MessageShowsTools
  <2>1. PICK b \in {0, 1} : LaidOut(b)
    BY DEF IInv, Shown
  <2>2. QED  BY <2>1, LaidOutIsShown DEF IInv, MessageShowsTools
<1>2. QED  BY <1>1, IInvAlways, PTL
=============================================================================
