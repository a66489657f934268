----------------------------- MODULE SessionTurn -----------------------------
(***************************************************************************)
(* One turn of a session, SessionProcessor.runAiSdk of                     *)
(* src/opencodehx/session/SessionProcessor.hx: the request to the model    *)
(* with its retries, the tool calls the model makes, the continuation      *)
(* requests that carry their results, the user's abort, the assistant      *)
(* message that is built on the way, and its rows in the session store.    *)
(*                                                                         *)
(* A request is known by its number among those of the turn; a text is the *)
(* set of the requests whose deltas it joins.                              *)
(***************************************************************************)
EXTENDS Naturals, Sequences, FiniteSets

CONSTANTS Calls,    (* ids of the tool calls a model makes                 *)
          NoCall,
          Inputs    (* the inputs a turn may be run with                   *)

Input == [aborted : BOOLEAN,              (* aborted before it starts      *)
          forced : Calls \cup {NoCall},   (* input.toolCall                *)
          follow : BOOLEAN,               (* continueAfterToolResult       *)
          limit : Nat,                    (* maxToolContinuations          *)
          maxAttempts : Nat \ {0},        (* retryPolicy.maxAttempts       *)
          waits : BOOLEAN]                (* retryPolicy.wait is given     *)

ASSUME TurnAssumption ==
  /\ NoCall \notin Calls
  /\ Inputs \subseteq Input

VARIABLES input,
          phase,
          signal,    (* the abort signal                                   *)
          attempts,  (* streams opened for the request being made          *)
          reply,     (* the failed stream that a retry waits for           *)
          rounds,    (* continuations                                      *)
          history,   (* toolHistory: the calls whose results a             *)
                     (* continuation carries                               *)
          spoken,    (* requests with text among the events so far         *)
          sent,      (* the tool history of each request made              *)
          tools,     (* the tool calls executed, and whether they failed   *)
          parts,     (* the assistant message                              *)
          text,      (* the text of its text part                          *)
          error,     (* it is marked with MessageAbortedError              *)
          written,   (* statements persist has executed                    *)
          table      (* the rows of the turn in the store, by creation     *)

vars == <<input, phase, signal, attempts, reply, rounds, history, spoken, sent,
          tools, parts, text, error, written, table>>

stream  == <<attempts, reply, rounds, history, spoken, sent>>
message == <<tools, parts, text, error>>
store   == <<written, table>>

Reply == [speaks : BOOLEAN, call : Calls \cup {NoCall},
          failure : {"none", "fatal", "retryable"}, aborted : BOOLEAN]

NoReply == [speaks |-> FALSE, call |-> NoCall, failure |-> "none", aborted |-> FALSE]

RequestAborted == {0}

Heard(r) == IF r.speaks THEN spoken \cup {Len(sent)} ELSE spoken

Part(k) == [kind |-> k, id |-> NoCall, ok |-> TRUE]

ToolPart(t) == [kind |-> "tool", id |-> t.id, ok |-> t.ok]

(* Opens a stream that carries tool history h.                             *)
Open(h) == sent' = Append(sent, h) /\ phase' = "streaming"

Finish == phase' = "persisting" /\ UNCHANGED stream

(* MayContinueAborted, AnswerDespiteAbort, InsertedLast, AgainFromScratch  *)
(* and SameKeyButCall are forms a defect would give, for the mutation      *)
(* checks only.                                                            *)
MayContinueAborted(r, t) ==
  t.ok /\ input.follow /\ input.forced = NoCall /\ rounds < input.limit

(* The loop of continuations, after tool call t of reply r.                *)
MayContinue(r, t) ==
  /\ t.ok
  /\ ~r.aborted
  /\ input.follow
  /\ input.forced = NoCall
  /\ rounds < input.limit

Pushed(t) == Append(history, t.id)

GoOn(r, t) ==
  \/ /\ MayContinue(r, t)
     /\ history' = Pushed(t)
     /\ Open(history')
     /\ rounds' = rounds + 1
     /\ attempts' = 1
     /\ spoken' = {}
     /\ UNCHANGED reply
  \/ ~MayContinue(r, t) /\ Finish

(* A tool call ends with a result or a ToolException; any other exception  *)
(* leaves the turn, and nothing of it is stored.                           *)
Executed(id) == {[id |-> id, ok |-> ok] : ok \in BOOLEAN}

ToolThrows == phase' = "failed" /\ UNCHANGED <<stream, message>>

RetryPart(r) == IF r.failure = "retryable" THEN <<Part("retry")>> ELSE <<>>

AnswerDespiteAbort(r, s) == s

(* The text s, unless the turn was aborted (also abortedAssistantRecord).  *)
Answer(r, s) == IF r.aborted THEN RequestAborted ELSE s

(* The message is built from the first request (assistantWithParts).       *)
First(r) ==
  LET call == IF input.forced = NoCall THEN r.call ELSE input.forced IN
  \/ /\ call = NoCall
     /\ parts' = Append(RetryPart(r), Part("text"))
     /\ text' = Answer(r, Heard(r))
     /\ error' = r.aborted
     /\ Finish
     /\ UNCHANGED tools
  \/ \E t \in Executed(call) :
     /\ call # NoCall
     /\ tools' = <<t>>
     /\ parts' = RetryPart(r) \o <<Part("step-start"), ToolPart(t), Part("text"), Part("step-finish")>>
     /\ text' = Answer(r, Heard(r))
     /\ error' = r.aborted
     /\ GoOn(r, t)
  \/ call # NoCall /\ ToolThrows

InsertedLast(t) == Append(parts, ToolPart(t))

(* insertBeforeAssistantText                                               *)
Inserted(t) ==
  LET at == CHOOSE i \in 1..Len(parts) : parts[i].kind = "text" IN
  SubSeq(parts, 1, at - 1) \o <<ToolPart(t)>> \o SubSeq(parts, at, Len(parts))

(* The body of the loop, once the continuation request is answered.        *)
Continuation(r) ==
  \/ /\ r.call = NoCall
     /\ text' = Answer(r, IF r.speaks THEN {Len(sent)} ELSE text)
     /\ error' = r.aborted
     /\ Finish
     /\ UNCHANGED <<tools, parts>>
  \/ \E t \in Executed(r.call) :
     /\ r.call # NoCall
     /\ tools' = Append(tools, t)
     /\ parts' = Inserted(t)
     /\ text' = Answer(r, text)
     /\ error' = r.aborted
     /\ GoOn(r, t)
  \/ r.call # NoCall /\ ToolThrows

Receive(r) == IF rounds = 0 THEN First(r) ELSE Continuation(r)

-----------------------------------------------------------------------------

Start ==
  /\ phase = "start"
  /\ ~input.aborted
  /\ Open(<<>>)
  /\ attempts' = 1
  /\ UNCHANGED <<input, signal, reply, rounds, history, spoken, message, store>>

StartAborted ==
  /\ phase = "start"
  /\ input.aborted
  /\ First([NoReply EXCEPT !.aborted = TRUE])
  /\ UNCHANGED <<input, signal, store>>

(* The user aborts before the first await or during a later one.           *)
Abort ==
  /\ phase \in {"start", "streaming", "waiting"}
  /\ ~signal
  /\ signal' = TRUE
  /\ UNCHANGED <<input, phase, stream, message, store>>

(* streamAiSdkWithRetry opens the stream again.                            *)
Retries(r) ==
  /\ r.failure = "retryable"
  /\ ~r.aborted
  /\ attempts < input.maxAttempts

AgainFromScratch ==
  /\ Open(<<>>)
  /\ attempts' = attempts + 1

Again ==
  /\ Open(history)
  /\ attempts' = attempts + 1

StreamFails(r) ==
  /\ phase = "streaming"
  /\ r.aborted = signal
  /\ Retries(r)
  /\ spoken' = Heard(r)
  /\ \/ input.waits /\ phase' = "waiting" /\ reply' = r /\ UNCHANGED <<attempts, sent>>
     \/ ~input.waits /\ Again /\ UNCHANGED reply
  /\ UNCHANGED <<input, signal, rounds, history, message, store>>

StreamEnds(r) ==
  /\ phase = "streaming"
  /\ r.aborted = signal
  /\ ~Retries(r)
  /\ Receive(r)
  /\ UNCHANGED <<input, signal, store>>

WaitEnds ==
  /\ phase = "waiting"
  /\ Again
  /\ UNCHANGED <<input, signal, reply, rounds, history, spoken, message, store>>

(* retryPolicy.wait resolves to false: the failed stream is the answer.    *)
WaitGivesUp ==
  /\ phase = "waiting"
  /\ Receive(reply)
  /\ UNCHANGED <<input, signal, store>>

-----------------------------------------------------------------------------
(* persist: statements executed one by one, outside a transaction.         *)

Row(of, p) == [of |-> of, part |-> p, text |-> IF p.kind = "text" THEN text ELSE {}]

Statements ==
  <<Row("project", Part("info")), Row("session", Part("info")),
    Row("user", Part("info")), Row("user", Part("prompt")),
    Row("assistant", Part("info"))>>
  \o [i \in 1..Len(parts) |-> Row("assistant", parts[i])]

SameKeyButCall(a, b) == a.of = b.of /\ a.part.kind = b.part.kind

(* Equal primary keys: that of a tool part holds the id of the call.       *)
SameKey(a, b) ==
  /\ a.of = b.of
  /\ a.part.kind = b.part.kind
  /\ a.part.id = b.part.id

(* insert .. on conflict(id) do update: the old row keeps its place.       *)
Upsert(row) ==
  IF \E i \in 1..Len(table) : SameKey(table[i], row)
  THEN [i \in 1..Len(table) |-> IF SameKey(table[i], row) THEN row ELSE table[i]]
  ELSE Append(table, row)

Persist ==
  /\ phase = "persisting"
  /\ table' = Upsert(Statements[written + 1])
  /\ written' = written + 1
  /\ phase' = IF written' = Len(Statements) THEN "done" ELSE phase
  /\ UNCHANGED <<input, signal, stream, message>>

(* A statement throws, or the process ends, before the next one.           *)
PersistStops ==
  /\ phase = "persisting"
  /\ phase' = "failed"
  /\ UNCHANGED <<input, signal, stream, message, store>>

Init ==
  /\ input \in Inputs
  /\ phase = "start"
  /\ signal = FALSE
  /\ attempts = 0
  /\ reply = NoReply
  /\ rounds = 0
  /\ history = <<>>
  /\ spoken = {}
  /\ sent = <<>>
  /\ tools = <<>>
  /\ parts = <<>>
  /\ text = {}
  /\ error = FALSE
  /\ written = 0
  /\ table = <<>>

Next ==
  \/ Start
  \/ StartAborted
  \/ Abort
  \/ \E r \in Reply : StreamFails(r)
  \/ \E r \in Reply : StreamEnds(r)
  \/ WaitEnds
  \/ WaitGivesUp
  \/ Persist
  \/ PersistStops

Spec == Init /\ [][Next]_vars

-----------------------------------------------------------------------------

TypeOK ==
  /\ input \in Inputs
  /\ phase \in {"start", "streaming", "waiting", "persisting", "done", "failed"}
  /\ signal \in BOOLEAN
  /\ attempts \in 0..input.maxAttempts
  /\ reply \in Reply
  /\ rounds \in Nat
  /\ history \in Seq(Calls)
  /\ spoken \subseteq Nat
  /\ sent \in Seq(Seq(Calls))
  /\ tools \in Seq([id : Calls, ok : BOOLEAN])
  /\ parts \in Seq([kind : {"retry", "step-start", "tool", "text", "step-finish"},
                    id : Calls \cup {NoCall}, ok : BOOLEAN])
  /\ text \subseteq Nat
  /\ error \in BOOLEAN
  /\ written \in Nat

(* Each request tells the model of all tools executed before it, in order, *)
(* each of which succeeded; the one in progress of every tool so far       *)
(* ("every completed assistant tool-call and matching tool tool-result     *)
(* turn accumulated so far", docs/session-processor-one-turn.md).          *)
RequestsCarryResults ==
  /\ \A k \in 1..Len(sent) :
       /\ Len(sent[k]) <= Len(tools)
       /\ \A i \in 1..Len(sent[k]) : tools[i] = [id |-> sent[k][i], ok |-> TRUE]
  /\ phase \in {"streaming", "waiting"} => Len(sent[Len(sent)]) = Len(tools)

(* The step in which the turn learns of the abort makes no request, and no *)
(* later step does (line 397, streamAborted).                              *)
AbortStopsRequests == [][error' => sent' = sent]_vars

Built == phase \in {"persisting", "done"}

(* A turn that the user aborts ends up marked as aborted, with the text    *)
(* "Request aborted.", in whichever request the abort came; and no other   *)
(* turn does.  A retryPolicy.wait that gives up can hide the abort, so     *)
(* this is about turns without one, as SessionLive makes them.             *)
AbortIsRecorded ==
  Built /\ ~input.waits =>
    /\ error <=> signal \/ input.aborted
    /\ error <=> text = RequestAborted

(* The message shows every tool executed, once, in order, with its result, *)
(* before its one text and between the step markers; only a retry of the   *)
(* first request is shown before them (assistantWithParts,                 *)
(* insertBeforeAssistantText).                                             *)
MessageShowsTools ==
  Built => \E retried \in {<<>>, <<Part("retry")>>} :
    parts = retried \o
      (IF tools = <<>> THEN <<Part("text")>>
       ELSE <<Part("step-start")>> \o [i \in 1..Len(tools) |-> ToolPart(tools[i])]
            \o <<Part("text"), Part("step-finish")>>)

(* What is read back of a stored turn, ordered by creation, is the message *)
(* that was returned, when the model's call ids are distinct.              *)
StoredTurnIsTheReturned ==
  phase = "done" /\ (\A i, j \in 1..Len(tools) : tools[i].id = tools[j].id => i = j) =>
    table = Statements

=============================================================================
