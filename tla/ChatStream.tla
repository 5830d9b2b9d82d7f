----------------------------- MODULE ChatStream -----------------------------
(* The answer on its way to the browser: VercelStreamResponse                *)
(* (src/app/api/routers/vercel_response.py) merges the chat generator and    *)
(* the generator over the event queue of EventCallbackHandler                *)
(* (src/app/api/routers/events.py).                                          *)
EXTENDS Naturals, Sequences

VARIABLES
    q,            \* EventCallbackHandler._aqueue
    isDone,       \* EventCallbackHandler.is_done
    chatLeft,     \* chunks the chat generator has still to yield
    chatDone, eventDone,      \* the generators have returned
    chatReady, eventReady,    \* what each handed to the merge, not yet taken
    out,          \* chunks sent to the client
    gone,         \* the client disconnected
    closed        \* "idle", "open", "ended", "broken" or "error"

streamVars == <<q, isDone, chatLeft, chatDone, eventDone, chatReady, eventReady,
                out, gone, closed>>

Blank == [kind |-> "blank"]
ErrorChunk == [kind |-> "error"]

StreamInit ==
    /\ q = <<>> /\ isDone = FALSE /\ chatLeft = <<>>
    /\ chatDone = FALSE /\ eventDone = FALSE
    /\ chatReady = <<>> /\ eventReady = <<>>
    /\ out = <<>> /\ gone = FALSE /\ closed = "idle"

(* on_event_start / on_event_end: only an event with a message for the       *)
(* browser is queued; to_response swallows its own exceptions.               *)
OnEvent(e, hasMessage) ==
    /\ closed = "idle"
    /\ q' = IF hasMessage THEN Append(q, e) ELSE q
    /\ UNCHANGED <<isDone, chatLeft, chatDone, eventDone, chatReady, eventReady, out,
                   gone, closed>>

(* VercelStreamResponse(...): sources first, then the text.                  *)
StreamBegins(chunks) ==
    /\ closed = "idle" /\ closed' = "open"
    /\ chatLeft' = <<[kind |-> "sources"]>> \o chunks
    /\ UNCHANGED <<q, isDone, chatDone, eventDone, chatReady, eventReady, out, gone>>

(* _chat_response_generator.                                                 *)
ChatYields ==
    /\ closed = "open" /\ chatReady = <<>> /\ chatLeft # <<>>
    /\ chatReady' = <<Head(chatLeft)>> /\ chatLeft' = Tail(chatLeft)
    /\ UNCHANGED <<q, isDone, chatDone, eventDone, eventReady, out, gone, closed>>

(* Mutant: the answer ends without saying so.                               *)
ReturnsUndone ==
    /\ closed = "open" /\ chatReady = <<>> /\ chatLeft = <<>> /\ ~chatDone
    /\ chatDone' = TRUE
    /\ UNCHANGED <<q, isDone, chatLeft, eventDone, chatReady, eventReady, out, gone,
                   closed>>

ChatReturns ==
    /\ closed = "open" /\ chatReady = <<>> /\ chatLeft = <<>> /\ ~chatDone
    /\ chatDone' = TRUE /\ isDone' = TRUE
    /\ UNCHANGED <<q, chatLeft, eventDone, chatReady, eventReady, out, gone, closed>>

(* async_event_gen: while the queue has events or the answer is not done.  A *)
(* timeout of the wait changes nothing.                                      *)
EventYields ==
    /\ closed = "open" /\ eventReady = <<>> /\ ~eventDone /\ q # <<>>
    /\ eventReady' = <<Head(q)>> /\ q' = Tail(q)
    /\ UNCHANGED <<isDone, chatLeft, chatDone, eventDone, chatReady, out, gone, closed>>

(* Mutant: what is still queued is not waited for.                          *)
DoneIsEnough == isDone

EventsExhausted == q = <<>> /\ isDone

EventsReturn ==
    /\ closed = "open" /\ eventReady = <<>> /\ ~eventDone /\ EventsExhausted
    /\ eventDone' = TRUE
    /\ UNCHANGED <<q, isDone, chatLeft, chatDone, chatReady, eventReady, out, gone,
                   closed>>

(* content_generator takes a merged chunk: it stops for a client that left,  *)
(* otherwise the first chunk is preceded by a blank text.                    *)
Pass(chunk) ==
    IF gone THEN /\ closed' = "broken" /\ isDone' = TRUE /\ UNCHANGED out
    ELSE /\ out' = (IF out = <<>> THEN <<Blank>> ELSE out) \o <<chunk>>
         /\ UNCHANGED <<closed, isDone>>

SendChat ==
    /\ closed = "open" /\ chatReady # <<>>
    /\ Pass(Head(chatReady)) /\ chatReady' = <<>>
    /\ UNCHANGED <<q, chatLeft, chatDone, eventDone, eventReady, gone>>

SendEvent ==
    /\ closed = "open" /\ eventReady # <<>>
    /\ Pass(Head(eventReady)) /\ eventReady' = <<>>
    /\ UNCHANGED <<q, chatLeft, chatDone, eventDone, chatReady, gone>>

StreamEnds ==
    /\ closed = "open" /\ chatDone /\ eventDone /\ chatReady = <<>> /\ eventReady = <<>>
    /\ closed' = "ended" /\ isDone' = TRUE
    /\ UNCHANGED <<q, chatLeft, chatDone, eventDone, chatReady, eventReady, out, gone>>

(* Either generator raises (a payload json cannot encode): one error chunk.  *)
StreamRaises ==
    /\ closed = "open"
    /\ closed' = "error" /\ isDone' = TRUE /\ out' = Append(out, ErrorChunk)
    /\ UNCHANGED <<q, chatLeft, chatDone, eventDone, chatReady, eventReady, gone>>

ClientLeaves ==
    /\ closed = "open" /\ ~gone /\ gone' = TRUE
    /\ UNCHANGED <<q, isDone, chatLeft, chatDone, eventDone, chatReady, eventReady, out,
                   closed>>

Generators == ChatYields \/ ChatReturns \/ EventYields \/ EventsReturn
Consumer == SendChat \/ SendEvent \/ StreamEnds
StreamStep == Generators \/ Consumer \/ StreamRaises \/ ClientLeaves

(* The event loop runs every generator that can go on and the consumer.      *)
StreamFairness == /\ WF_streamVars(ChatYields) /\ WF_streamVars(ChatReturns)
                  /\ WF_streamVars(EventYields) /\ WF_streamVars(EventsReturn)
                  /\ WF_streamVars(SendChat) /\ WF_streamVars(SendEvent)
                  /\ WF_streamVars(StreamEnds)
=============================================================================
