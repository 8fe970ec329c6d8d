------------------------------ MODULE TurnStream ------------------------------
(* What the client of a tool turn reads.  The turn gathers the text of its     *)
(* agent and hands it to a listener while a request collects from it           *)
(* (src/acp/tool-turn.ts); the structured writers of the three handlers        *)
(* put what they hear on an event stream and add, from the result, what they   *)
(* did not hear.  The order of the requests and of the timers is in ToolTurns; *)
(* here a turn is served request by request, in any order that allows.         *)
(*                                                                             *)
(* A piece is a character of text, numbered as it comes; some are blank.  An   *)
(* event has a type, the index of the item it is about and a text.             *)
(*                                                                             *)
(* Its specification is called StreamSpec: one module of proofs extends this   *)
(* one and ModelSetup, which has a Spec too.                                   *)
EXTENDS Integers, Sequences, FiniteSets, SequencesExt

CONSTANTS Rounds,      \* the requests of one turn: its start and its resumptions
          MaxPieces,   \* bound: pieces the agent emits
          MaxBatch     \* bound: calls that wait at the same time

VARIABLES api,      \* the handler of the turn
          turn,     \* AcpToolSession: its text, its listener, its calls
          out       \* [Rounds -> the response of each]

streamVars == <<api, turn, out>>

Channels == {"text", "reasoning"}
Nothing == [c \in Channels |-> <<>>]
Event(type, index, text) == [type |-> type, index |-> index, text |-> text]

\* blanks and parked are history: the blank pieces, and those that came while the
\* turn was parked.
NoTurn == [state |-> "new", holder |-> {}, heard |-> FALSE, output |-> Nothing,
           calls |-> 0, pieces |-> 0, blanks |-> {}, parked |-> {}]

\* result is history: what the turn returned, before it was trimmed.
NoResponse == [state |-> "none", stream |-> FALSE, events |-> <<>>, textStarted |-> FALSE,
               emitted |-> Nothing, result |-> Nothing]

StreamInit ==
  /\ api \in {"chat", "responses", "messages"}
  /\ turn = NoTurn /\ out = [r \in Rounds |-> NoResponse]

-------------------------------------------------------------------------------
(* The writers                                                                 *)

\* Text goes out; the first of it opens an item in front of all calls.
ChatText(o, channel, text) ==
  [o EXCEPT !.events = Append(@, Event(channel, 0, text)), !.emitted[channel] = @ \o text]

OpensText(o, first) == IF o.textStarted THEN <<>> ELSE first

ResponseText(o, text) ==
  [o EXCEPT !.textStarted = TRUE, !.emitted["text"] = @ \o text,
            !.events = @ \o OpensText(o, <<Event("item.added", 0, <<>>),
                                           Event("part.added", 0, <<>>)>>)
                         \o <<Event("text", 0, text)>>]

MessageText(o, text) ==
  [o EXCEPT !.textStarted = TRUE, !.emitted["text"] = @ \o text,
            !.events = @ \o OpensText(o, <<Event("block_start", 0, <<>>)>>)
                         \o <<Event("text", 0, text)>>]

\* Only chat passes the reasoning on.
Writes(o, channel, text) ==
  IF api = "chat" THEN ChatText(o, channel, text)
  ELSE IF channel = "reasoning" THEN o
  ELSE IF api = "responses" THEN ResponseText(o, text) ELSE MessageText(o, text)

\* Mutant: what was emitted is measured before the text is trimmed, and the whole
\* text goes out when it does not fit.
RestAnew(o, channel, text) ==
  IF text = o.emitted[channel] THEN o ELSE Writes(o, channel, text)

\* The rest of the text, when the result is longer than what was emitted.
Rest(o, channel, text) ==
  LET n == Len(o.emitted[channel])
  IN  IF Len(text) > n THEN Writes(o, channel, SubSeq(text, n + 1, Len(text))) ELSE o

\* The events of n calls, w of each: call k is the k-th from 0.
EachCall(n, w, Events(_)) == [i \in 1 .. w * n |-> Events((i - 1) \div w)[((i - 1) % w) + 1]]

ChatEnd(o, text, n) ==
  LET Call(k) == <<Event("tool_calls", k, <<>>)>>
  IN  EachCall(n, 1, Call)
        \o <<Event(IF n > 0 THEN "finish tool_calls" ELSE "finish stop", 0, <<>>),
             Event("[DONE]", 0, <<>>)>>

\* Mutant: the items of the calls are counted from 0, also behind a text.
CountFromZero(o) == 0

\* The index of the first call.
FirstCall(o) == IF o.textStarted THEN 1 ELSE 0

\* structuredResponseObject: the items of the final object.
ResponseItems(text, n) == (IF text = <<>> THEN 0 ELSE 1) + n

ResponseEnd(o, text, n) ==
  LET Call(k) == LET i == FirstCall(o) + k
                 IN <<Event("item.added", i, <<>>), Event("arguments.delta", i, <<>>),
                      Event("arguments.done", i, <<>>), Event("item.done", i, <<>>)>>
  IN  (IF o.textStarted THEN <<Event("text.done", 0, <<>>), Event("part.done", 0, <<>>),
                               Event("item.done", 0, <<>>)>> ELSE <<>>)
        \o EachCall(n, 4, Call)
        \o <<Event("response.completed", ResponseItems(text, n), <<>>),
             Event("[DONE]", 0, <<>>)>>

MessageEnd(o, text, n) ==
  LET Call(k) == LET i == FirstCall(o) + k
                 IN <<Event("block_start", i, <<>>), Event("input_json_delta", i, <<>>),
                      Event("block_stop", i, <<>>)>>
  IN  (IF o.textStarted THEN <<Event("block_stop", 0, <<>>)>> ELSE <<>>)
        \o EachCall(n, 3, Call)
        \o <<Event("message_delta", 0, <<>>), Event("message_stop", 0, <<>>)>>

Begins ==
  CASE api = "chat" -> <<Event("role", 0, <<>>)>>
    [] api = "responses" -> <<Event("response.created", 0, <<>>)>>
    [] api = "messages" -> <<Event("message_start", 0, <<>>)>>

Ends(o, text, n) ==
  CASE api = "chat" -> ChatEnd(o, text, n)
    [] api = "responses" -> ResponseEnd(o, text, n)
    [] api = "messages" -> MessageEnd(o, text, n)

\* The catch blocks of the handlers: an error on the stream and its end.
ChatError == <<Event("error", 0, <<>>), Event("[DONE]", 0, <<>>)>>
ResponseError == <<Event("response.failed", 0, <<>>)>>
MessageError == <<Event("error", 0, <<>>)>>

Fails(o) ==
  [o EXCEPT !.state = "failed",
     !.events = @ \o CASE ~o.stream -> <<Event("json error", 0, <<>>)>>
                       [] o.stream /\ api = "chat" -> ChatError
                       [] o.stream /\ api = "responses" -> ResponseError
                       [] o.stream /\ api = "messages" -> MessageError]

\* #drainOutput: String.trim.
Trim(ps, blanks) ==
  LET solid == {i \in DOMAIN ps : ps[i] \notin blanks}
  IN  IF solid = {} THEN <<>>
      ELSE SubSeq(ps, CHOOSE i \in solid : \A j \in solid : i <= j,
                      CHOOSE i \in solid : \A j \in solid : j <= i)

\* The turn has returned its output and n calls.
Succeeds(o, output, n) ==
  LET text == Trim(output["text"], turn.blanks)
      thought == Trim(output["reasoning"], turn.blanks)
      full == Rest(IF api = "chat" THEN Rest(o, "reasoning", thought) ELSE o, "text", text)
  IN  IF o.stream
      THEN [full EXCEPT !.state = "done", !.events = @ \o Ends(full, text, n), !.result = output]
      ELSE [o EXCEPT !.state = "done", !.result = output,
                     !.events = <<Event("json", ResponseItems(text, n), text)>>]

-------------------------------------------------------------------------------
(* The turn                                                                    *)

Holder == CHOOSE r \in Rounds : turn.holder = {r}

\* A handler has found its turn: it opens the stream before it has the mutex.
Answers(r) ==
  /\ out[r].state = "none"
  /\ \/ \A q \in Rounds : out[q].state = "none"
     \/ turn.state \in {"active", "parked"} /\ turn.calls > 0
  /\ \E stream \in BOOLEAN :
       out' = [out EXCEPT ![r] = [@ EXCEPT !.state = "waiting", !.stream = stream,
                                           !.events = IF stream THEN Begins ELSE <<>>]]
  /\ UNCHANGED <<api, turn>>

\* collect(), of a new turn or after resume() has given some calls their outputs.
Collects(r) ==
  /\ out[r].state = "waiting" /\ turn.holder = {}
  /\ \E answered \in 0 .. turn.calls :
       /\ turn.state = "new" \/ (turn.state = "parked" /\ answered > 0)
       /\ turn' = [turn EXCEPT !.state = "active", !.holder = {r},
                               !.heard = out[r].stream, !.calls = @ - answered]
  /\ out' = [out EXCEPT ![r].state = "open"]
  /\ UNCHANGED api

\* resume() finds the turn closed, or its calls answered.
Refused(r) ==
  /\ out[r].state = "waiting" /\ turn.holder = {} /\ turn.state \in {"parked", "closed"}
  /\ out' = [out EXCEPT ![r] = Fails(@)]
  /\ UNCHANGED <<api, turn>>

\* onAgentTextChunk, onAgentThoughtChunk: the listener hears it, if there is one.
Chunk(channel, blank) ==
  LET p == turn.pieces + 1 IN
  /\ turn.state \in {"active", "parked", "closed"} /\ p <= MaxPieces
  /\ turn' = [turn EXCEPT !.output[channel] = Append(@, p), !.pieces = p,
                          !.blanks = IF blank THEN @ \cup {p} ELSE @,
                          !.parked = IF turn.state = "parked" THEN @ \cup {p} ELSE @]
  /\ out' = IF turn.heard THEN [out EXCEPT ![Holder] = Writes(@, channel, <<p>>)] ELSE out
  /\ UNCHANGED api

ToolCall ==
  /\ turn.state \in {"active", "parked"} /\ turn.calls < MaxBatch
  /\ turn' = [turn EXCEPT !.calls = @ + 1]
  /\ UNCHANGED <<api, out>>

\* collect() returns a batch of calls and parks the turn.
Parks ==
  /\ turn.state = "active" /\ turn.calls > 0
  /\ turn' = [turn EXCEPT !.state = "parked", !.holder = {}, !.heard = FALSE, !.output = Nothing]
  /\ out' = [out EXCEPT ![Holder] = Succeeds(@, turn.output, turn.calls)]
  /\ UNCHANGED api

\* The active timeout, the parked TTL, a client that left: close() takes the
\* listener away; a collect that is under way waits for its prompt.
Closes ==
  /\ turn.state \in {"active", "parked"}
  /\ turn' = [turn EXCEPT !.state = "closed", !.heard = FALSE, !.calls = 0]
  /\ UNCHANGED <<api, out>>

\* The prompt is answered, also by a turn that was closed meanwhile.
Completes ==
  /\ turn.state \in {"active", "closed"} /\ turn.holder # {}
  /\ turn' = [turn EXCEPT !.state = "closed", !.holder = {}, !.heard = FALSE,
                          !.output = Nothing, !.calls = 0]
  /\ out' = [out EXCEPT ![Holder] = Succeeds(@, turn.output, 0)]
  /\ UNCHANGED api

\* It fails, the required call is missing, or there are more calls than allowed.
Breaks ==
  /\ turn.state \in {"active", "closed"} /\ turn.holder # {}
  /\ turn' = [turn EXCEPT !.state = "closed", !.holder = {}, !.heard = FALSE, !.calls = 0]
  /\ out' = [out EXCEPT ![Holder] = Fails(@)]
  /\ UNCHANGED api

StreamNext ==
  \/ \E r \in Rounds : Answers(r) \/ Collects(r) \/ Refused(r)
  \/ \E channel \in Channels, blank \in BOOLEAN : Chunk(channel, blank)
  \/ ToolCall \/ Parks \/ Closes \/ Completes \/ Breaks

StreamSpec == StreamInit /\ [][StreamNext]_streamVars

-------------------------------------------------------------------------------
(* Properties                                                                  *)

Of(events, types) == {i \in DOMAIN events : events[i].type \in types}
CountBefore(S, i) == Cardinality({j \in S : j < i})
Opens(events) == Of(events, {"item.added", "block_start"})
Shuts(events) == Of(events, {"item.done", "block_stop"})

\* The item that is open at event i.
Current(events, i) == CountBefore(Opens(events), i) - 1

\* An item begins with the next index, when the one before it is shut; what comes
\* inside an item is about it.
ItemsInOrder(es) ==
  /\ \A i \in Opens(es) :
       /\ es[i].index = CountBefore(Opens(es), i)
       /\ CountBefore(Shuts(es), i) = CountBefore(Opens(es), i)
  /\ \A i \in DOMAIN es \ Opens(es) :
       es[i].type \in {"text", "item.done", "block_stop", "arguments.done"} =>
         /\ es[i].index = Current(es, i)
         /\ CountBefore(Shuts(es), i) = CountBefore(Opens(es), i) - 1

\* All items are shut and, unless the text was all blank, the final object has them.
ItemsComplete(o) ==
  /\ Cardinality(Opens(o.events)) = Cardinality(Shuts(o.events))
  /\ ~(o.textStarted /\ Trim(o.result["text"], turn.blanks) = <<>>) =>
       \A i \in Of(o.events, {"response.completed"}) :
         o.events[i].index = Cardinality(Opens(o.events))

\* openai-responses.ts:252, anthropic-messages.ts:182: the items of a stream are
\* numbered from 0 without a gap, whether or not text came first and from
\* wherever it came; one is open at a time, everything in between is about it, and
\* when the response is complete all are shut and (unless all of its text was
\* blank) are as many as the final object lists.
EventsWellFormed ==
  \A r \in Rounds :
    api # "chat" /\ out[r].stream =>
      ItemsInOrder(out[r].events) /\ (out[r].state = "done" => ItemsComplete(out[r]))

\* What a stream has delivered of a channel.
Delivered(es, channel) ==
  FlattenSeq([i \in DOMAIN es |-> IF es[i].type = channel THEN es[i].text ELSE <<>>])

\* openai-chat.ts:211 and its like: a stream delivers the text of its turn, each
\* piece once and in order, whichever part of it came while nobody listened; but
\* for a text that begins with a blank, and for one that came, even in part, while
\* the turn was parked.  (What the slice then cuts off is not what was sent.)
TextDelivered ==
  \A r \in Rounds : \A c \in IF api = "chat" THEN Channels ELSE {"text"} :
    LET full == out[r].result[c] IN
    /\ out[r].state = "done" /\ out[r].stream /\ full # <<>>
    /\ full[1] \notin turn.blanks /\ \A i \in DOMAIN full : full[i] \notin turn.parked
    => Trim(Delivered(out[r].events, c), turn.blanks) = Trim(full, turn.blanks)
===============================================================================
