------------------------------- MODULE Stream -------------------------------
(***************************************************************************)
(* The relaying of a streamed answer: the translators that turn the event  *)
(* streams of Anthropic and Gemini into OpenAI chunks, the tracker that    *)
(* looks for usage in what is relayed, and the loop of relayStream that    *)
(* connects the two.  A stream is a record; the module has no variables.   *)
(*                                                                         *)
(* An event comes as a line of data and a blank line; other lines (event:, *)
(* comments, keep-alives) change nothing.  What can stop in the middle is  *)
(* the upstream, after any line, and the client, at any write.             *)
(***************************************************************************)
EXTENDS Integers, Sequences, FiniteSets

CONSTANTS
    Counts,     \* numbers of tokens that upstreams report
    None        \* no usage in an event

ASSUME StreamAssumption == Counts \subseteq Nat /\ 0 \in Counts /\ None \notin Counts

Dialects == {"openai", "anthropic", "gemini"}

\* What a chunk is for the client.
ChunkKinds == {"role", "text", "finish", "usage", "done"}

NoUsage == [prompt |-> 0, completion |-> 0]

Usages == [prompt : Counts, completion : Counts]

\* An Anthropic event: message_start reports the prompt, message_delta the answer
\* so far and perhaps a reason to stop; `other' is everything passed over.
AnthropicEvents ==
    [type : {"message_start"}, usage : Counts \cup {None}]
    \cup [type : {"text", "message_stop", "other"}, usage : {None}]
    \cup [type : {"message_delta"}, usage : Counts \cup {None}, stop : BOOLEAN]

\* A Gemini event: at most one candidate, with or without text, and the usage so far.
GeminiEvents ==
    [type : {"text", "candidate"}, usage : Usages \cup {None}, stop : BOOLEAN]
    \cup [type : {"metadata"}, usage : Usages]

\* An OpenAI chunk; usage is asked for with stream_options.include_usage.
OpenAIEvents ==
    [type : {"text", "finish", "done"}, usage : {None}] \cup [type : {"usage"}, usage : Usages]

EventsOf(dialect) ==
    CASE dialect = "openai" -> OpenAIEvents
      [] dialect = "anthropic" -> AnthropicEvents
      [] dialect = "gemini" -> GeminiEvents

AllEvents == OpenAIEvents \cup AnthropicEvents \cup GeminiEvents

NoEvent == [type |-> "none"]

\* `data' is the event whose blank line is still to come, `out' what Read has ready
\* and the client has not been sent, `usage' what the next usage chunk says, `tracked'
\* what the tracker has.  For the properties: `sent' is what the client has got and
\* `said' what the upstream has told, whole lines only.
NewStream(dialect) ==
    [dialect |-> dialect, data |-> NoEvent, out |-> <<>>, usage |-> NoUsage,
     sentRole |-> FALSE, done |-> FALSE, closed |-> FALSE, tracked |-> NoUsage,
     sent |-> <<>>, said |-> [events |-> 0, texts |-> 0, usage |-> NoUsage]]

IsStream(t) ==
    /\ t.dialect \in Dialects /\ t.data \in AllEvents \cup {NoEvent}
    /\ t.out \in Seq(ChunkKinds) /\ t.sent \in Seq(ChunkKinds)
    /\ t.usage \in Usages /\ t.tracked \in Usages /\ t.said.usage \in Usages
    /\ {t.sentRole, t.done, t.closed} \subseteq BOOLEAN

NoStream == [dialect |-> "none"]

Emit(t, kind) == [t EXCEPT !.out = Append(@, kind)]

EmitRole(t) == IF t.sentRole THEN t ELSE [Emit(t, "role") EXCEPT !.sentRole = TRUE]

EmitUsageAndDone(t) == [Emit(Emit(t, "usage"), "done") EXCEPT !.done = TRUE]

\* Anthropic reports the prompt and the answer in events of their own.
Reported(u, e) ==
    IF e.usage = None THEN u
    ELSE CASE e.type = "message_start" -> [u EXCEPT !.prompt = e.usage]
           [] e.type = "message_delta" -> [u EXCEPT !.completion = e.usage]
           [] OTHER -> e.usage

-----------------------------------------------------------------------------
(* The translators                                                         *)

\* dispatch of anthropic.go; thinking, tools, pings and errors are passed over.
AnthropicEvent(t, e) ==
    LET counted == [t EXCEPT !.usage = Reported(@, e)]
    IN  CASE e.type = "message_start" -> EmitRole(counted)
          [] e.type = "text" -> Emit(t, "text")
          [] e.type = "message_delta" -> IF e.stop THEN Emit(counted, "finish") ELSE counted
          [] e.type = "message_stop" -> EmitUsageAndDone(t)
          [] OTHER -> t

\* dispatch of gemini.go; nothing but the end of the stream ends it.
GeminiEvent(t, e) ==
    LET counted == [t EXCEPT !.usage = Reported(@, e)]
        opened == EmitRole(counted)
        said == IF e.type = "text" THEN Emit(opened, "text") ELSE opened
    IN  IF e.type = "metadata" THEN counted
        ELSE IF e.stop THEN Emit(said, "finish") ELSE said

\* The line of an event; an OpenAI stream is relayed as it comes.
DataLine(t, e) ==
    IF t.dialect = "openai" THEN [Emit(t, e.type) EXCEPT !.usage = Reported(@, e)]
    ELSE [t EXCEPT !.data = e]

\* The blank line after it.
Dispatch(t) ==
    LET clear == [t EXCEPT !.data = NoEvent]
    IN  IF t.data = NoEvent THEN t
        ELSE IF t.dialect = "anthropic" THEN AnthropicEvent(clear, t.data)
        ELSE GeminiEvent(clear, t.data)

\* Variants: the event whose blank line never came is forgotten; a stream that has
\* ended is ended again.
AtEnd_Undispatched(t) == IF t.dialect = "openai" THEN t ELSE EmitUsageAndDone(t)

AtEnd_Again(t) == IF t.dialect = "openai" THEN t ELSE EmitUsageAndDone(Dispatch(t))

\* The upstream has ended or broken off: its last event counts, and a stream that has
\* had no end is given one.
AtEnd(t) ==
    LET last == Dispatch(t)
    IN  IF last.done \/ t.dialect = "openai" THEN last ELSE EmitUsageAndDone(last)

-----------------------------------------------------------------------------
(* relayStream                                                             *)

\* The tracker keeps the last usage.
UsageSeen(t) == IF \E i \in DOMAIN t.out : t.out[i] = "usage" THEN t.usage ELSE t.tracked

\* What Read returns is written to the client and fed to the tracker.
Written(t) ==
    [t EXCEPT !.sent = @ \o t.out, !.out = <<>>, !.tracked = UsageSeen(t)]

\* What an answer costs; a total that the upstream left out is the sum.
Total(u) == u.prompt + u.completion

-----------------------------------------------------------------------------
(* The steps of the loop                                                   *)

Heard(t, e) ==
    [t EXCEPT !.said = [events |-> @.events + 1, usage |-> Reported(@.usage, e),
                        texts |-> IF e.type = "text" THEN @.texts + 1 ELSE @.texts]]

\* The upstream sends the line of an event, the blank line after it, or no more.
Hears(t, e) == Heard(Written(DataLine(t, e)), e)

Separated(t) == Written(Dispatch(t))

Over(t) == [IF t.done THEN t ELSE Written(AtEnd(t)) EXCEPT !.closed = TRUE]

Times(s, kind) == Cardinality({i \in DOMAIN s : s[i] = kind})

\* Whatever the upstream sends and wherever it stops, the client is given the role once
\* at most, and nothing after the end; a translated stream that is over ends with one
\* usage chunk and [DONE].
WellFormed(t) ==
    t.dialect # "openai" =>
        /\ Times(t.sent, "role") <= 1
        /\ \A i \in DOMAIN t.sent :
              /\ t.sent[i] = "done" => i = Len(t.sent)
              /\ t.sent[i] = "usage" <=> i + 1 \in DOMAIN t.sent /\ t.sent[i + 1] = "done"
        /\ t.closed => Times(t.sent, "done") = 1

\* Nothing that the upstream said before it stopped is lost to the client or the bill.
Faithful(t) ==
    t.closed => Times(t.sent, "text") = t.said.texts /\ t.tracked = t.said.usage
=============================================================================
