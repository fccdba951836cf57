---------------------------- MODULE StreamProofs ----------------------------
(***************************************************************************)
(* What the translators and the relaying loop do to a stream, for every    *)
(* event and every record a stream can be: its types, the shape of what    *)
(* the client has been sent, and the account of texts and usage.           *)
(***************************************************************************)
EXTENDS Stream, FiniteSetTheorems, SequenceTheorems, TLAPS

-----------------------------------------------------------------------------
(* Types                                                                   *)

Chunks == Seq(ChunkKinds)
Told == [events : Nat, texts : Nat, usage : Usages]
Data == AllEvents \cup {NoEvent}

StreamType ==
    [dialect : Dialects, data : Data, out : Chunks, usage : Usages, sentRole : BOOLEAN,
     done : BOOLEAN, closed : BOOLEAN, tracked : Usages, sent : Chunks, said : Told]

LEMMA ReportedUsage ==
    ASSUME NEW u \in Usages, NEW e \in AllEvents
    PROVE  Reported(u, e) \in Usages
  <1>1. CASE e.usage = None
    BY <1>1 DEF Reported
  <1>2. CASE e.usage # None /\ e.type \in {"message_start", "message_delta"}
    <2>1. e.usage \in Counts
      BY <1>2 DEF AllEvents, OpenAIEvents, AnthropicEvents, GeminiEvents
    <2> QED
      BY <1>2, <2>1 DEF Reported, Usages
  <1>3. CASE e.usage # None /\ e.type \notin {"message_start", "message_delta"}
    <2>1. e.usage \in Usages
      BY <1>3 DEF AllEvents, OpenAIEvents, AnthropicEvents, GeminiEvents
    <2> QED
      BY <1>3, <2>1 DEF Reported
  <1> QED
    BY <1>1, <1>2, <1>3

LEMMA NewStreamType ==
    ASSUME NEW dialect \in Dialects
    PROVE  NewStream(dialect) \in StreamType
  <1>1. NoUsage \in Usages
    BY StreamAssumption DEF NoUsage, Usages
  <1>2. <<>> \in Chunks /\ NoEvent \in Data
    BY DEF Chunks, Data
  <1>3. [events |-> 0, texts |-> 0, usage |-> NoUsage] \in Told
    BY <1>1 DEF Told
  <1> HIDE DEF NoUsage
  <1> QED
    BY <1>1, <1>2, <1>3 DEF NewStream, StreamType

LEMMA EmitType ==
    ASSUME NEW t \in StreamType, NEW kind \in ChunkKinds
    PROVE  Emit(t, kind) \in StreamType
  <1>1. Append(t.out, kind) \in Chunks
    BY AppendProperties DEF StreamType, Chunks
  <1> QED
    BY <1>1 DEF Emit, StreamType

LEMMA EmitRoleType ==
    ASSUME NEW t \in StreamType
    PROVE  EmitRole(t) \in StreamType
  <1>1. Emit(t, "role") \in StreamType
    BY EmitType DEF ChunkKinds
  <1> QED
    BY <1>1 DEF EmitRole, StreamType

LEMMA EmitEndType ==
    ASSUME NEW t \in StreamType
    PROVE  EmitUsageAndDone(t) \in StreamType
  <1>1. Emit(Emit(t, "usage"), "done") \in StreamType
    BY EmitType DEF ChunkKinds
  <1> QED
    BY <1>1 DEF EmitUsageAndDone, StreamType

LEMMA CountedType ==
    ASSUME NEW t \in StreamType, NEW e \in AllEvents
    PROVE  [t EXCEPT !.usage = Reported(@, e)] \in StreamType
  <1>1. Reported(t.usage, e) \in Usages
    BY ReportedUsage DEF StreamType
  <1> QED
    BY <1>1 DEF StreamType

LEMMA DispatchType ==
    ASSUME NEW t \in StreamType
    PROVE  Dispatch(t) \in StreamType
  <1> DEFINE e == t.data
             clear == [t EXCEPT !.data = NoEvent]
             noted == [clear EXCEPT !.usage = Reported(@, e)]
  <1>1. clear \in StreamType /\ (e # NoEvent => e \in AllEvents)
    BY DEF StreamType, Data
  <1>2. e # NoEvent => noted \in StreamType
    BY <1>1, CountedType
  <1> HIDE DEF e, clear, noted
  <1>3. CASE e = NoEvent
    BY <1>3 DEF Dispatch, e
  <1>4. CASE e # NoEvent
    <2>1. AnthropicEvent(clear, e) \in StreamType
      <3>1. EmitRole(noted) \in StreamType /\ Emit(clear, "text") \in StreamType
            /\ Emit(noted, "finish") \in StreamType /\ EmitUsageAndDone(clear) \in StreamType
        BY <1>1, <1>2, <1>4, EmitType, EmitRoleType, EmitEndType DEF ChunkKinds
      <3> QED
        BY <1>1, <1>2, <1>4, <3>1 DEF AnthropicEvent, noted
    <2>2. GeminiEvent(clear, e) \in StreamType
      <3>1. EmitRole(noted) \in StreamType
        BY <1>2, <1>4, EmitRoleType
      <3>2. Emit(EmitRole(noted), "text") \in StreamType
        BY <3>1, EmitType DEF ChunkKinds
      <3>3. /\ Emit(EmitRole(noted), "finish") \in StreamType
            /\ Emit(Emit(EmitRole(noted), "text"), "finish") \in StreamType
        BY <3>1, <3>2, EmitType DEF ChunkKinds
      <3> QED
        BY <1>2, <1>4, <3>1, <3>2, <3>3 DEF GeminiEvent, noted
    <2> QED
      BY <1>4, <2>1, <2>2 DEF Dispatch, clear, e
  <1> QED
    BY <1>3, <1>4

LEMMA WrittenType ==
    ASSUME NEW t \in StreamType
    PROVE  Written(t) \in StreamType
  <1>1. t.sent \o t.out \in Chunks /\ <<>> \in Chunks
    BY ConcatProperties DEF StreamType, Chunks
  <1>2. UsageSeen(t) \in Usages
    BY DEF UsageSeen, StreamType
  <1> QED
    BY <1>1, <1>2 DEF Written, StreamType

LEMMA DataLineType ==
    ASSUME NEW t \in StreamType, NEW e \in EventsOf(t.dialect)
    PROVE  DataLine(t, e) \in StreamType
  <1>1. e \in AllEvents /\ (t.dialect = "openai" => e \in OpenAIEvents)
    BY DEF EventsOf, AllEvents, StreamType, Dialects
  <1>2. CASE t.dialect = "openai"
    <2>1. e.type \in ChunkKinds
      BY <1>1, <1>2 DEF OpenAIEvents, ChunkKinds
    <2> QED
      BY <1>1, <1>2, <2>1, EmitType, CountedType DEF DataLine
  <1>3. CASE t.dialect # "openai"
    BY <1>1, <1>3 DEF DataLine, StreamType, Data
  <1> QED
    BY <1>2, <1>3

LEMMA HearsType ==
    ASSUME NEW t \in StreamType, NEW e \in EventsOf(t.dialect)
    PROVE  Hears(t, e) \in StreamType
  <1>1. e \in AllEvents
    BY DEF EventsOf, AllEvents, StreamType, Dialects
  <1>2. DataLine(t, e) \in StreamType
    BY DataLineType
  <1> DEFINE w == Written(DataLine(t, e))
             told == [events |-> w.said.events + 1, usage |-> Reported(w.said.usage, e),
                      texts |-> IF e.type = "text" THEN w.said.texts + 1 ELSE w.said.texts]
  <1>3. w \in StreamType
    BY <1>2, WrittenType
  <1>4. Hears(t, e) = [w EXCEPT !.said = told]
    BY DEF Hears, Heard
  <1> HIDE DEF w
  <1>5. told \in Told
    BY <1>1, <1>3, ReportedUsage DEF StreamType, Told
  <1> HIDE DEF told
  <1> QED
    BY <1>3, <1>4, <1>5 DEF StreamType

LEMMA OverType ==
    ASSUME NEW t \in StreamType
    PROVE  Over(t) \in StreamType
  <1>1. AtEnd(t) \in StreamType
    BY DispatchType, EmitEndType DEF AtEnd
  <1>2. Written(AtEnd(t)) \in StreamType
    BY <1>1, WrittenType
  <1> QED
    BY <1>2 DEF Over, StreamType

-----------------------------------------------------------------------------
(* The shape of what a client is sent                                      *)

\* Nothing that belongs to the end.
Unended(s) == \A i \in 1 .. Len(s) : s[i] # "usage" /\ s[i] # "done"

\* The usage and [DONE] at the end, and only there.
Ended(s) ==
    /\ Len(s) >= 2 /\ s[Len(s) - 1] = "usage" /\ s[Len(s)] = "done"
    /\ \A i \in 1 .. Len(s) - 2 : s[i] # "usage" /\ s[i] # "done"

Shape(s, opened, ended) ==
    /\ Times(s, "role") = (IF opened THEN 1 ELSE 0)
    /\ Times(s, "done") = (IF ended THEN 1 ELSE 0)
    /\ IF ended THEN Ended(s) ELSE Unended(s)

LEMMA TimesNone == \A kind : Times(<<>>, kind) = 0
  <1>1. \A kind : {i \in DOMAIN <<>> : <<>>[i] = kind} = {}
    BY EmptySeq
  <1> QED
    BY <1>1, FS_EmptySet DEF Times

LEMMA TimesAppend ==
    ASSUME NEW s \in Chunks, NEW e \in ChunkKinds, NEW kind
    PROVE  /\ Times(s, kind) \in Nat
           /\ Times(Append(s, e), kind) = Times(s, kind) + (IF e = kind THEN 1 ELSE 0)
  <1> DEFINE at == {i \in DOMAIN s : s[i] = kind}
             now == {i \in DOMAIN Append(s, e) : Append(s, e)[i] = kind}
             end == Len(s) + 1
  <1>1. Len(s) \in Nat /\ DOMAIN s = 1 .. Len(s)
    BY LenProperties DEF Chunks
  <1>2. /\ DOMAIN Append(s, e) = 1 .. end
        /\ \A i \in 1 .. Len(s) : Append(s, e)[i] = s[i]
        /\ Append(s, e)[end] = e
    BY AppendProperties, LenProperties DEF Chunks
  <1>3. IsFiniteSet(at) /\ Cardinality(at) \in Nat
    <2>1. IsFiniteSet(1 .. Len(s))
      BY <1>1, FS_Interval
    <2>2. at \in SUBSET (1 .. Len(s))
      BY <1>1
    <2> QED
      BY <2>1, <2>2, FS_Subset, FS_CardinalityType
  <1>4. end \notin at
    BY <1>1
  <1>5. now = IF e = kind THEN at \cup {end} ELSE at
    BY <1>1, <1>2
  <1> HIDE DEF at, now, end
  <1>6. Cardinality(at \cup {end}) = Cardinality(at) + 1
    BY <1>3, <1>4, FS_AddElement
  <1>7. Cardinality(now) = Cardinality(at) + (IF e = kind THEN 1 ELSE 0)
    BY <1>3, <1>5, <1>6
  <1> QED
    BY <1>3, <1>7 DEF Times, at, now

LEMMA ShapeAppend ==
    ASSUME NEW s \in Chunks, NEW opened \in BOOLEAN, Shape(s, opened, FALSE)
    PROVE  /\ \A kind \in {"text", "finish"} : Shape(Append(s, kind), opened, FALSE)
           /\ ~opened => Shape(Append(s, "role"), TRUE, FALSE)
           /\ Shape(Append(Append(s, "usage"), "done"), opened, TRUE)
  <1>1. ASSUME NEW kind \in ChunkKinds \ {"usage", "done"}
        PROVE  Unended(Append(s, kind))
    BY AppendProperties, LenProperties DEF Shape, Unended, Chunks
  <1>2. ASSUME NEW kind \in {"text", "finish"}
        PROVE  Shape(Append(s, kind), opened, FALSE)
    BY <1>1, TimesAppend DEF Shape, ChunkKinds
  <1>3. ~opened => Shape(Append(s, "role"), TRUE, FALSE)
    BY <1>1, TimesAppend DEF Shape, ChunkKinds
  <1>4. Shape(Append(Append(s, "usage"), "done"), opened, TRUE)
    <2> DEFINE u == Append(s, "usage")
               d == Append(u, "done")
               n == Len(s)
    <2>1. /\ u \in Chunks /\ Len(u) = n + 1 /\ n \in Nat
          /\ \A i \in 1 .. n : u[i] = s[i]
          /\ u[n + 1] = "usage"
      BY AppendProperties, LenProperties DEF Chunks, ChunkKinds
    <2>2. /\ Len(d) = n + 2
          /\ \A i \in 1 .. n + 1 : d[i] = u[i]
          /\ d[n + 2] = "done"
      <3>1. /\ Len(d) = Len(u) + 1
            /\ \A i \in 1 .. Len(u) : d[i] = u[i]
            /\ d[Len(u) + 1] = "done"
        BY <2>1, AppendProperties DEF Chunks, ChunkKinds
      <3> QED
        BY <2>1, <3>1
    <2>3. Unended(s)
      BY DEF Shape
    <2>4. Ended(d)
      <3> HIDE DEF u, d
      <3> QED
        BY <2>1, <2>2, <2>3 DEF Ended, Unended, n
    <2>5. ASSUME NEW kind \in {"role", "done"}
          PROVE  Times(d, kind) = Times(s, kind) + (IF kind = "done" THEN 1 ELSE 0)
                 /\ Times(s, kind) \in Nat
      <3>1. Times(u, kind) = Times(s, kind) /\ Times(s, kind) \in Nat
        BY TimesAppend DEF ChunkKinds
      <3>2. Times(d, kind) = Times(u, kind) + (IF "done" = kind THEN 1 ELSE 0)
        BY <2>1, TimesAppend DEF ChunkKinds
      <3> QED
        BY <3>1, <3>2
    <2> HIDE DEF u, d
    <2> QED
      BY <2>4, <2>5 DEF Shape, d, u
  <1> QED
    BY <1>2, <1>3, <1>4

-----------------------------------------------------------------------------
(* A translated stream while an event is dispatched                        *)

\* What the client has been sent and what is ready for it.
Whole(t) == t.sent \o t.out

TextIn(e) == IF e.type = "text" THEN 1 ELSE 0

TextsOf(t) == Times(Whole(t), "text")

UsageReady(t) == \E i \in DOMAIN t.out : t.out[i] = "usage"

\* The chunks have their shape, and when the usage chunk is out, the tracker has it or
\* will find it.
Sound(t) ==
    /\ Shape(Whole(t), t.sentRole, t.done)
    /\ t.done => UsageReady(t) \/ t.tracked = t.usage

\* `u' is what `t' has become: still sound, with so many texts more and this usage.
Becomes(t, u, texts, usage) ==
    /\ u \in StreamType /\ Sound(u)
    /\ u.dialect = t.dialect /\ u.data = t.data /\ u.said = t.said
    /\ u.closed = t.closed /\ u.tracked = t.tracked /\ u.sent = t.sent
    /\ u.usage = usage /\ TextsOf(u) = TextsOf(t) + texts /\ TextsOf(t) \in Nat

LEMMA WholeFacts ==
    ASSUME NEW t \in StreamType
    PROVE  /\ Whole(t) \in Chunks /\ TextsOf(t) \in Nat
           /\ \A kind \in ChunkKinds : t.sent \o Append(t.out, kind) = Append(Whole(t), kind)
  <1>1. t.sent \in Seq(ChunkKinds) /\ t.out \in Seq(ChunkKinds)
    BY DEF StreamType, Chunks
  <1>2. Whole(t) \in Seq(ChunkKinds)
    BY <1>1, ConcatProperties DEF Whole
  <1>3. ASSUME NEW kind \in ChunkKinds
        PROVE  t.sent \o Append(t.out, kind) = Append(Whole(t), kind)
    <2>1. <<kind>> \in Seq(ChunkKinds)
      BY <1>3
    <2>2. Append(t.out, kind) = t.out \o <<kind>> /\ Append(Whole(t), kind) = Whole(t) \o <<kind>>
      BY <1>1, <1>2, AppendIsConcat
    <2> DEFINE T == Seq(ChunkKinds)
    <2>3. \A a, b, c \in T : (a \o b) \o c = a \o (b \o c)
      BY ConcatAssociative
    <2>4. t.sent \in T /\ t.out \in T /\ <<kind>> \in T
      BY <1>1, <2>1
    <2> HIDE DEF T
    <2>5. (t.sent \o t.out) \o <<kind>> = t.sent \o (t.out \o <<kind>>)
      BY <2>3, <2>4, Zenon
    <2> QED
      BY <2>2, <2>5, Zenon DEF Whole
  <1>4. TextsOf(t) \in Nat
    BY <1>2, TimesAppend DEF TextsOf, ChunkKinds, Chunks
  <1> QED
    BY <1>2, <1>3, <1>4 DEF Chunks

\* What Emit leaves alone.
Framed(t, u) ==
    /\ u.dialect = t.dialect /\ u.data = t.data /\ u.said = t.said
    /\ u.closed = t.closed /\ u.tracked = t.tracked /\ u.sent = t.sent
    /\ u.usage = t.usage /\ u.sentRole = t.sentRole /\ u.done = t.done

LEMMA EmitFacts ==
    ASSUME NEW t \in StreamType, NEW kind \in ChunkKinds
    PROVE  /\ Emit(t, kind) \in StreamType
           /\ Whole(Emit(t, kind)) = Append(Whole(t), kind)
           /\ TextsOf(Emit(t, kind)) = TextsOf(t) + (IF kind = "text" THEN 1 ELSE 0)
           /\ Framed(t, Emit(t, kind))
  <1>1. Emit(t, kind) \in StreamType
    BY EmitType
  <1>2. Whole(Emit(t, kind)) = t.sent \o Append(t.out, kind)
    BY DEF Emit, Whole, StreamType
  <1>3. Whole(Emit(t, kind)) = Append(Whole(t), kind)
    BY <1>2, WholeFacts
  <1>4. TextsOf(Emit(t, kind)) = TextsOf(t) + (IF kind = "text" THEN 1 ELSE 0)
    <2>1. Whole(t) \in Chunks
      BY WholeFacts
    <2>2. Times(Append(Whole(t), kind), "text")
          = Times(Whole(t), "text") + (IF kind = "text" THEN 1 ELSE 0)
      BY <2>1, TimesAppend
    <2> QED
      BY <1>3, <2>2 DEF TextsOf
  <1>5. Framed(t, Emit(t, kind))
    BY DEF Emit, StreamType, Framed
  <1> QED
    BY <1>1, <1>3, <1>4, <1>5

LEMMA EmitBecomes ==
    ASSUME NEW t \in StreamType, Sound(t), ~t.done, NEW kind \in {"text", "finish"}
    PROVE  Becomes(t, Emit(t, kind), TextIn([type |-> kind]), t.usage) /\ ~Emit(t, kind).done
  <1> DEFINE u == Emit(t, kind)
  <1>1. kind \in ChunkKinds /\ t.sentRole \in BOOLEAN
    BY DEF ChunkKinds, StreamType
  <1>2. /\ u \in StreamType /\ Whole(u) = Append(Whole(t), kind)
        /\ TextsOf(u) = TextsOf(t) + (IF kind = "text" THEN 1 ELSE 0) /\ TextsOf(t) \in Nat
        /\ u.dialect = t.dialect /\ u.data = t.data /\ u.said = t.said
        /\ u.closed = t.closed /\ u.tracked = t.tracked /\ u.sent = t.sent
        /\ u.usage = t.usage /\ u.sentRole = t.sentRole /\ ~u.done
    <2>1. TextsOf(t) \in Nat
      BY WholeFacts
    <2>2. /\ u \in StreamType /\ Whole(u) = Append(Whole(t), kind)
          /\ TextsOf(u) = TextsOf(t) + (IF kind = "text" THEN 1 ELSE 0) /\ Framed(t, u)
      BY <1>1, EmitFacts
    <2> HIDE DEF u
    <2> QED
      BY <2>1, <2>2 DEF Framed
  <1> HIDE DEF u
  <1>3. Shape(Whole(t), t.sentRole, FALSE) /\ Whole(t) \in Chunks
    BY WholeFacts DEF Sound, Shape
  <1>4. Shape(Append(Whole(t), kind), t.sentRole, FALSE)
    BY <1>1, <1>3, ShapeAppend
  <1>5. Sound(u)
    BY <1>2, <1>4 DEF Sound, Shape
  <1> QED
    BY <1>2, <1>5 DEF Becomes, TextIn, u

LEMMA EmitRoleBecomes ==
    ASSUME NEW t \in StreamType, Sound(t), ~t.done
    PROVE  Becomes(t, EmitRole(t), 0, t.usage) /\ ~EmitRole(t).done
  <1>1. CASE t.sentRole
    <2>1. EmitRole(t) = t
      BY <1>1 DEF EmitRole
    <2>2. TextsOf(t) \in Nat
      BY WholeFacts
    <2>3. Becomes(t, t, 0, t.usage)
      BY <2>2 DEF Becomes
    <2> QED
      BY <2>1, <2>3
  <1>2. CASE ~t.sentRole
    <2> DEFINE u == Emit(t, "role")
               r == [u EXCEPT !.sentRole = TRUE]
    <2>1. /\ u \in StreamType /\ Whole(u) = Append(Whole(t), "role")
          /\ TextsOf(u) = TextsOf(t) + 0 /\ TextsOf(t) \in Nat
          /\ u.dialect = t.dialect /\ u.data = t.data /\ u.said = t.said
          /\ u.closed = t.closed /\ u.tracked = t.tracked /\ u.sent = t.sent
          /\ u.usage = t.usage /\ ~u.done
      BY EmitFacts, WholeFacts DEF ChunkKinds, Framed
    <2>2. EmitRole(t) = r
      BY <1>2 DEF EmitRole
    <2> HIDE DEF u
    <2>3. /\ r \in StreamType /\ Whole(r) = Whole(u) /\ TextsOf(r) = TextsOf(u)
          /\ r.dialect = u.dialect /\ r.data = u.data /\ r.said = u.said
          /\ r.closed = u.closed /\ r.tracked = u.tracked /\ r.sent = u.sent
          /\ r.usage = u.usage /\ ~r.done /\ r.sentRole
      BY <2>1 DEF StreamType, Whole, TextsOf
    <2> HIDE DEF r
    <2>4. Shape(Whole(t), FALSE, FALSE)
      BY <1>2 DEF Sound, Shape
    <2>5. Shape(Append(Whole(t), "role"), TRUE, FALSE)
      BY <2>4, WholeFacts, ShapeAppend
    <2>6. Sound(r)
      BY <2>1, <2>3, <2>5 DEF Sound, Shape
    <2> QED
      BY <2>1, <2>2, <2>3, <2>6 DEF Becomes
  <1> QED
    BY <1>1, <1>2

LEMMA EmitEndBecomes ==
    ASSUME NEW t \in StreamType, Sound(t), ~t.done
    PROVE  Becomes(t, EmitUsageAndDone(t), 0, t.usage) /\ EmitUsageAndDone(t).done
  <1> DEFINE u == Emit(t, "usage")
             d == Emit(u, "done")
             r == [d EXCEPT !.done = TRUE]
  <1>1. /\ u \in StreamType /\ Whole(u) = Append(Whole(t), "usage")
        /\ TextsOf(u) = TextsOf(t) + 0 /\ TextsOf(t) \in Nat
        /\ u.dialect = t.dialect /\ u.data = t.data /\ u.said = t.said
        /\ u.closed = t.closed /\ u.tracked = t.tracked /\ u.sent = t.sent
        /\ u.usage = t.usage /\ u.sentRole = t.sentRole
    BY EmitFacts, WholeFacts DEF ChunkKinds, Framed
  <1>2. u.out = Append(t.out, "usage")
    BY DEF Emit, StreamType
  <1>3. d.out = Append(u.out, "done")
    BY <1>1 DEF Emit, StreamType
  <1> HIDE DEF u
  <1>4. /\ d \in StreamType /\ Whole(d) = Append(Whole(u), "done")
        /\ TextsOf(d) = TextsOf(u) + 0
        /\ d.dialect = u.dialect /\ d.data = u.data /\ d.said = u.said
        /\ d.closed = u.closed /\ d.tracked = u.tracked /\ d.sent = u.sent
        /\ d.usage = u.usage /\ d.sentRole = u.sentRole
    BY <1>1, EmitFacts DEF ChunkKinds, Framed
  <1>5. UsageReady(d)
    <2>1. t.out \in Seq(ChunkKinds) /\ Len(t.out) \in Nat
      BY LenProperties DEF StreamType, Chunks
    <2>2. /\ u.out \in Seq(ChunkKinds) /\ Len(u.out) = Len(t.out) + 1
          /\ u.out[Len(t.out) + 1] = "usage"
      BY <1>2, <2>1, AppendProperties DEF ChunkKinds
    <2> DEFINE o == u.out
               n == Len(t.out)
    <2>3. /\ Append(o, "done") \in Seq(ChunkKinds)
          /\ Len(Append(o, "done")) = Len(o) + 1
          /\ \A i \in 1 .. Len(o) : Append(o, "done")[i] = o[i]
      BY <2>2, AppendProperties DEF ChunkKinds
    <2>4. n \in Nat /\ Len(o) = n + 1 /\ o[n + 1] = "usage"
      BY <2>1, <2>2
    <2> HIDE DEF n, o
    <2>5. n + 1 \in DOMAIN Append(o, "done") /\ Append(o, "done")[n + 1] = "usage"
      BY <2>3, <2>4, LenProperties
    <2> QED
      BY <1>3, <2>5 DEF UsageReady, o
  <1>6. EmitUsageAndDone(t) = r
    BY DEF EmitUsageAndDone, u
  <1> HIDE DEF d
  <1>7. /\ r \in StreamType /\ Whole(r) = Whole(d) /\ TextsOf(r) = TextsOf(d)
        /\ r.dialect = d.dialect /\ r.data = d.data /\ r.said = d.said
        /\ r.closed = d.closed /\ r.tracked = d.tracked /\ r.sent = d.sent
        /\ r.usage = d.usage /\ r.done /\ r.sentRole = d.sentRole /\ UsageReady(r)
    BY <1>4, <1>5 DEF StreamType, Whole, TextsOf, UsageReady
  <1> HIDE DEF r
  <1>8. Shape(Whole(t), t.sentRole, FALSE) /\ t.sentRole \in BOOLEAN
    BY DEF Sound, Shape, StreamType
  <1>9. Shape(Append(Append(Whole(t), "usage"), "done"), t.sentRole, TRUE)
    BY <1>8, WholeFacts, ShapeAppend
  <1>10. Sound(r)
    BY <1>1, <1>4, <1>7, <1>9 DEF Sound, Shape
  <1> QED
    BY <1>1, <1>4, <1>6, <1>7, <1>10 DEF Becomes

LEMMA BecomesTransitive ==
    ASSUME NEW t, NEW u, NEW w, NEW g, NEW h, NEW a \in Nat, NEW b \in Nat,
           Becomes(t, u, a, g), Becomes(u, w, b, h)
    PROVE  Becomes(t, w, a + b, h)
  <1>1. TextsOf(t) \in Nat /\ TextsOf(u) = TextsOf(t) + a /\ TextsOf(w) = TextsOf(u) + b
    BY DEF Becomes
  <1>2. TextsOf(w) = TextsOf(t) + (a + b)
    BY <1>1
  <1> QED
    BY <1>1, <1>2 DEF Becomes

LEMMA CountedBecomes ==
    ASSUME NEW t \in StreamType, Sound(t), ~t.done, NEW g \in Usages
    PROVE  Becomes(t, [t EXCEPT !.usage = g], 0, g) /\ ~[t EXCEPT !.usage = g].done
  <1> DEFINE u == [t EXCEPT !.usage = g]
  <1>1. /\ u \in StreamType /\ u.usage = g /\ Whole(u) = Whole(t)
        /\ u.dialect = t.dialect /\ u.data = t.data /\ u.said = t.said
        /\ u.closed = t.closed /\ u.tracked = t.tracked /\ u.sent = t.sent
        /\ u.sentRole = t.sentRole /\ ~u.done /\ u.done = t.done
    BY DEF StreamType, Whole
  <1> HIDE DEF u
  <1>2. Sound(u)
    BY <1>1 DEF Sound
  <1>3. TextsOf(u) = TextsOf(t) + 0 /\ TextsOf(t) \in Nat
    <2>1. TextsOf(u) = TextsOf(t)
      BY <1>1 DEF TextsOf
    <2>2. TextsOf(t) \in Nat
      BY WholeFacts
    <2> QED
      BY <2>1, <2>2
  <1> QED
    BY <1>1, <1>2, <1>3 DEF Becomes, u

LEMMA AnthropicBecomes ==
    ASSUME NEW t \in StreamType, Sound(t), ~t.done, NEW e \in AnthropicEvents
    PROVE  Becomes(t, AnthropicEvent(t, e), TextIn(e), Reported(t.usage, e))
  <1> DEFINE g == Reported(t.usage, e)
             counted == [t EXCEPT !.usage = g]
  <1>1. e \in AllEvents /\ t.usage \in Usages
    BY DEF AllEvents, StreamType
  <1>2. g \in Usages
    BY <1>1, ReportedUsage
  <1>3. e.type \in {"text", "message_stop", "other"} => g = t.usage
    BY DEF Reported, AnthropicEvents
  <1>4. [t EXCEPT !.usage = Reported(@, e)] = counted
    BY <1>1 DEF StreamType
  <1> HIDE DEF g, counted
  <1>5. Becomes(t, counted, 0, g) /\ ~counted.done
    BY <1>2, CountedBecomes DEF counted
  <1>6. counted \in StreamType /\ Sound(counted) /\ counted.usage = g
    BY <1>5 DEF Becomes
  <1>7. CASE e.type = "message_start"
    <2>1. Becomes(counted, EmitRole(counted), 0, g)
      BY <1>5, <1>6, EmitRoleBecomes
    <2>2. Becomes(t, EmitRole(counted), 0 + 0, g)
      BY <1>5, <2>1, BecomesTransitive
    <2>3. AnthropicEvent(t, e) = EmitRole(counted) /\ TextIn(e) = 0 + 0
      BY <1>4, <1>7 DEF AnthropicEvent, TextIn
    <2> QED
      BY <2>2, <2>3 DEF g
  <1>8. CASE e.type = "text"
    <2>1. Becomes(t, Emit(t, "text"), TextIn([type |-> "text"]), t.usage)
      BY EmitBecomes
    <2>2. AnthropicEvent(t, e) = Emit(t, "text") /\ TextIn(e) = TextIn([type |-> "text"])
      BY <1>8 DEF AnthropicEvent, TextIn
    <2> QED
      BY <1>3, <1>8, <2>1, <2>2 DEF g
  <1>9. CASE e.type = "message_delta"
    <2>1. TextIn(e) = 0 /\ TextIn([type |-> "finish"]) = 0
      BY <1>9 DEF TextIn
    <2>2. CASE e.stop
      <3>1. Becomes(counted, Emit(counted, "finish"), 0, g)
        BY <1>5, <1>6, <2>1, EmitBecomes
      <3>2. Becomes(t, Emit(counted, "finish"), 0 + 0, g)
        BY <1>5, <3>1, BecomesTransitive
      <3>3. AnthropicEvent(t, e) = Emit(counted, "finish")
        BY <1>4, <1>9, <2>2 DEF AnthropicEvent
      <3> QED
        BY <2>1, <3>2, <3>3 DEF g
    <2>3. CASE ~e.stop
      <3>1. AnthropicEvent(t, e) = counted
        BY <1>4, <1>9, <2>3 DEF AnthropicEvent
      <3> QED
        BY <1>5, <2>1, <3>1 DEF g
    <2> QED
      BY <2>2, <2>3
  <1>10. CASE e.type = "message_stop"
    <2>1. Becomes(t, EmitUsageAndDone(t), 0, t.usage)
      BY EmitEndBecomes
    <2>2. AnthropicEvent(t, e) = EmitUsageAndDone(t) /\ TextIn(e) = 0
      BY <1>10 DEF AnthropicEvent, TextIn
    <2> QED
      BY <1>3, <1>10, <2>1, <2>2 DEF g
  <1>11. CASE e.type = "other"
    <2>1. AnthropicEvent(t, e) = t /\ TextIn(e) = 0
      BY <1>11 DEF AnthropicEvent, TextIn
    <2>2. Becomes(t, t, 0, t.usage)
      <3>1. TextsOf(t) \in Nat
        BY WholeFacts
      <3> QED
        BY <3>1 DEF Becomes
    <2> QED
      BY <1>3, <1>11, <2>1, <2>2 DEF g
  <1>12. e.type \in {"message_start", "text", "message_delta", "message_stop", "other"}
    BY DEF AnthropicEvents
  <1> QED
    BY <1>7, <1>8, <1>9, <1>10, <1>11, <1>12

LEMMA GeminiBecomes ==
    ASSUME NEW t \in StreamType, Sound(t), ~t.done, NEW e \in GeminiEvents
    PROVE  /\ Becomes(t, GeminiEvent(t, e), TextIn(e), Reported(t.usage, e))
           /\ ~GeminiEvent(t, e).done
  <1> DEFINE g == Reported(t.usage, e)
             counted == [t EXCEPT !.usage = g]
             opened == EmitRole(counted)
             said == IF e.type = "text" THEN Emit(opened, "text") ELSE opened
  <1>1. e \in AllEvents /\ t.usage \in Usages
    BY DEF AllEvents, StreamType
  <1>2. g \in Usages
    BY <1>1, ReportedUsage
  <1>3. [t EXCEPT !.usage = Reported(@, e)] = counted
    BY <1>1 DEF StreamType
  <1> HIDE DEF g, counted
  <1>4. Becomes(t, counted, 0, g) /\ ~counted.done
    BY <1>2, CountedBecomes DEF counted
  <1>5. counted \in StreamType /\ Sound(counted) /\ counted.usage = g
    BY <1>4 DEF Becomes
  <1>6. Becomes(counted, opened, 0, g) /\ ~opened.done
    BY <1>4, <1>5, EmitRoleBecomes
  <1> HIDE DEF opened
  <1>7. Becomes(t, opened, 0 + 0, g) /\ opened \in StreamType /\ Sound(opened) /\ opened.usage = g
    BY <1>4, <1>6, BecomesTransitive DEF Becomes
  <1>8. Becomes(t, said, TextIn(e), g) /\ ~said.done
    <2>1. CASE e.type = "text"
      <3>1. /\ Becomes(opened, Emit(opened, "text"), TextIn([type |-> "text"]), g)
            /\ ~Emit(opened, "text").done
        BY <1>6, <1>7, EmitBecomes
      <3>2. TextIn([type |-> "text"]) = 1 /\ TextIn(e) = 0 + 0 + 1
        BY <2>1 DEF TextIn
      <3>3. Becomes(t, Emit(opened, "text"), 0 + 0 + 1, g)
        BY <1>7, <3>1, <3>2, BecomesTransitive
      <3> QED
        BY <2>1, <3>1, <3>2, <3>3
    <2>2. CASE e.type # "text"
      <3>1. TextIn(e) = 0 + 0
        BY <2>2 DEF TextIn
      <3> QED
        BY <1>6, <1>7, <2>2, <3>1
    <2> QED
      BY <2>1, <2>2
  <1>9. GeminiEvent(t, e) = IF e.type = "metadata" THEN counted
                            ELSE IF e.stop THEN Emit(said, "finish") ELSE said
    BY <1>3 DEF GeminiEvent, opened
  <1> HIDE DEF said
  <1>10. CASE e.type = "metadata"
    BY <1>4, <1>9, <1>10 DEF TextIn, g
  <1>11. CASE e.type # "metadata" /\ ~e.stop
    BY <1>8, <1>9, <1>11 DEF g
  <1>12. CASE e.type # "metadata" /\ e.stop
    <2>1. said \in StreamType /\ Sound(said) /\ said.usage = g
      BY <1>8 DEF Becomes
    <2>2. TextIn([type |-> "finish"]) = 0 /\ TextIn(e) \in Nat
      BY DEF TextIn
    <2>3. Becomes(said, Emit(said, "finish"), 0, g) /\ ~Emit(said, "finish").done
      BY <1>8, <2>1, <2>2, EmitBecomes
    <2>4. Becomes(t, Emit(said, "finish"), TextIn(e) + 0, g)
      BY <1>8, <2>2, <2>3, BecomesTransitive
    <2>5. TextIn(e) + 0 = TextIn(e)
      BY <2>2
    <2> QED
      BY <1>9, <1>12, <2>3, <2>4, <2>5 DEF g
  <1> QED
    BY <1>10, <1>11, <1>12

LEMMA DispatchBecomes ==
    ASSUME NEW t \in StreamType, Sound(t), ~t.done, t.dialect # "openai",
           NEW e \in EventsOf(t.dialect), t.data = e, e # NoEvent
    PROVE  /\ Becomes([t EXCEPT !.data = NoEvent], Dispatch(t), TextIn(e), Reported(t.usage, e))
           /\ t.dialect = "gemini" => ~Dispatch(t).done
  <1> DEFINE clear == [t EXCEPT !.data = NoEvent]
  <1>1. /\ clear \in StreamType /\ Whole(clear) = Whole(t) /\ clear.sentRole = t.sentRole
        /\ clear.done = t.done /\ clear.usage = t.usage /\ ~clear.done
        /\ clear.tracked = t.tracked
    BY DEF StreamType, Data, Whole
  <1>2. Dispatch(t) = IF t.dialect = "anthropic" THEN AnthropicEvent(clear, e)
                      ELSE GeminiEvent(clear, e)
    BY DEF Dispatch
  <1> HIDE DEF clear
  <1>3. Sound(clear)
    BY <1>1 DEF Sound
  <1>4. t.dialect \in {"anthropic", "gemini"}
    BY DEF StreamType, Dialects
  <1>5. CASE t.dialect = "anthropic"
    <2>1. e \in AnthropicEvents
      BY <1>5 DEF EventsOf
    <2> QED
      BY <1>1, <1>2, <1>3, <1>5, <2>1, AnthropicBecomes DEF clear
  <1>6. CASE t.dialect = "gemini"
    <2>1. e \in GeminiEvents
      BY <1>6 DEF EventsOf
    <2>2. Becomes(clear, GeminiEvent(clear, e), TextIn(e), Reported(clear.usage, e))
          /\ ~GeminiEvent(clear, e).done
      BY <1>1, <1>3, <2>1, GeminiBecomes
    <2>3. Dispatch(t) = GeminiEvent(clear, e)
      BY <1>2, <1>6
    <2> QED
      BY <1>1, <2>2, <2>3 DEF clear
  <1> QED
    BY <1>4, <1>5, <1>6

-----------------------------------------------------------------------------
(* Between the steps of the loop                                           *)

\* The usage that will be known when the event at hand has been dispatched.
Due(t) == IF t.data = NoEvent THEN t.usage ELSE Reported(t.usage, t.data)

\* An OpenAI stream goes through as it is.
Plain(t) ==
    /\ t.data = NoEvent /\ ~t.done
    /\ t.tracked = t.said.usage /\ t.usage = t.said.usage
    /\ Times(t.sent, "text") = t.said.texts

\* A translated one owes what is in the event at hand, and no more.
Translated(t) ==
    /\ Shape(t.sent, t.sentRole, t.done)
    /\ t.data \in EventsOf(t.dialect) \cup {NoEvent}
    /\ Times(t.sent, "text") + TextIn(t.data) = t.said.texts
    /\ Due(t) = t.said.usage
    /\ t.done => t.data = NoEvent /\ t.tracked = t.usage
    /\ t.closed => t.done

Good(t) ==
    /\ t \in StreamType /\ t.out = <<>>
    /\ IF t.dialect = "openai" THEN Plain(t) ELSE Translated(t)

LEMMA SentIsWhole ==
    ASSUME NEW t \in StreamType, t.out = <<>>
    PROVE  Whole(t) = t.sent /\ TextsOf(t) = Times(t.sent, "text") /\ ~UsageReady(t)
           /\ Times(t.sent, "text") \in Nat
  <1>1. t.sent \in Seq(ChunkKinds)
    BY DEF StreamType, Chunks
  <1>2. Whole(t) = t.sent
    BY <1>1, ConcatEmptySeq DEF Whole
  <1>3. ~UsageReady(t)
    BY EmptySeq DEF UsageReady
  <1>4. TextsOf(t) \in Nat
    BY WholeFacts
  <1> QED
    BY <1>2, <1>3, <1>4 DEF TextsOf

LEMMA NewIsGood ==
    ASSUME NEW dialect \in Dialects
    PROVE  Good(NewStream(dialect))
  <1> DEFINE t == NewStream(dialect)
  <1>1. t \in StreamType
    BY NewStreamType
  <1>2. /\ t.dialect = dialect /\ t.data = NoEvent /\ t.out = <<>> /\ t.usage = NoUsage
        /\ ~t.sentRole /\ ~t.done /\ ~t.closed /\ t.tracked = NoUsage /\ t.sent = <<>>
        /\ t.said.texts = 0 /\ t.said.usage = NoUsage
    BY DEF NewStream
  <1>3. TextIn(NoEvent) = 0
    BY DEF TextIn, NoEvent
  <1>4. \A kind : Times(<<>>, kind) = 0
    BY TimesNone
  <1> HIDE DEF t
  <1>5. Unended(<<>>)
    BY EmptySeq DEF Unended
  <1>6. Plain(t)
    BY <1>2, <1>4 DEF Plain
  <1>7. Translated(t)
    BY <1>2, <1>3, <1>4, <1>5 DEF Translated, Shape, Due
  <1> QED
    BY <1>1, <1>2, <1>6, <1>7 DEF Good, t

\* What Written does to a sound stream.
LEMMA WrittenFacts ==
    ASSUME NEW t \in StreamType, Sound(t)
    PROVE  LET w == Written(t)
           IN  /\ w \in StreamType /\ w.out = <<>>
               /\ Shape(w.sent, w.sentRole, w.done) /\ Times(w.sent, "text") = TextsOf(t)
               /\ w.done => w.tracked = w.usage
               /\ w.dialect = t.dialect /\ w.data = t.data /\ w.said = t.said
               /\ w.closed = t.closed /\ w.usage = t.usage /\ w.done = t.done
  <1> DEFINE w == Written(t)
  <1>1. w \in StreamType
    BY WrittenType
  <1>2. /\ w.out = <<>> /\ w.sent = Whole(t) /\ w.sentRole = t.sentRole
        /\ w.tracked = UsageSeen(t)
        /\ w.dialect = t.dialect /\ w.data = t.data /\ w.said = t.said
        /\ w.closed = t.closed /\ w.usage = t.usage /\ w.done = t.done
    BY DEF Written, Whole, StreamType
  <1> HIDE DEF w
  <1>3. t.done => UsageSeen(t) = t.usage
    BY DEF Sound, UsageSeen, UsageReady
  <1> QED
    BY <1>1, <1>2, <1>3 DEF w, Sound, TextsOf

\* A translated stream with nothing left to dispatch, before it is written.
LEMMA Dispatched ==
    ASSUME NEW t, Good(t), ~t.done, t.dialect # "openai"
    PROVE  LET u == Dispatch(t)
           IN  /\ u \in StreamType /\ Sound(u) /\ u.data = NoEvent
               /\ u.dialect = t.dialect /\ u.said = t.said /\ u.closed = t.closed
               /\ TextsOf(u) = t.said.texts /\ u.usage = t.said.usage
  <1> DEFINE u == Dispatch(t)
             e == t.data
  <1>1. /\ t \in StreamType /\ t.out = <<>>
        /\ Shape(t.sent, t.sentRole, t.done) /\ e \in EventsOf(t.dialect) \cup {NoEvent}
        /\ Times(t.sent, "text") + TextIn(e) = t.said.texts /\ Due(t) = t.said.usage
    BY DEF Good, Translated
  <1>2. Whole(t) = t.sent /\ TextsOf(t) = Times(t.sent, "text") /\ TextsOf(t) \in Nat
    BY <1>1, SentIsWhole
  <1>3. Sound(t)
    BY <1>1, <1>2 DEF Sound
  <1> HIDE DEF e
  <1>4. CASE e = NoEvent
    <2>1. u = t /\ TextIn(e) = 0
      BY <1>4 DEF Dispatch, TextIn, NoEvent, e
    <2>2. t.usage = t.said.usage
      BY <1>1, <1>4 DEF Due, e
    <2>3. TextsOf(t) = t.said.texts
      BY <1>1, <1>2, <2>1
    <2> QED
      BY <1>1, <1>3, <1>4, <2>1, <2>2, <2>3 DEF e
  <1>5. CASE e # NoEvent
    <2> DEFINE clear == [t EXCEPT !.data = NoEvent]
    <2>1. Becomes(clear, u, TextIn(e), Reported(t.usage, e))
      BY <1>1, <1>3, <1>5, DispatchBecomes DEF e
    <2>2. /\ clear.dialect = t.dialect /\ clear.said = t.said /\ clear.closed = t.closed
          /\ clear.data = NoEvent /\ Whole(clear) = Whole(t)
      BY <1>1 DEF StreamType, Whole
    <2> HIDE DEF clear, u
    <2>3. TextsOf(clear) = TextsOf(t)
      BY <2>2 DEF TextsOf
    <2>4. TextsOf(u) = t.said.texts
      BY <1>1, <1>2, <2>1, <2>3 DEF Becomes
    <2>5. Reported(t.usage, e) = t.said.usage
      BY <1>1, <1>5 DEF Due, e
    <2> QED
      BY <2>1, <2>2, <2>4, <2>5 DEF Becomes, u
  <1> QED
    BY <1>4, <1>5

LEMMA SeparatedIsGood ==
    ASSUME NEW t, Good(t), ~t.done, ~t.closed, t.data # NoEvent
    PROVE  Good(Separated(t))
  <1> DEFINE u == Dispatch(t)
             w == Written(u)
  <1>1. t.dialect # "openai"
    BY DEF Good, Plain
  <1>2. /\ u \in StreamType /\ Sound(u) /\ u.data = NoEvent
        /\ u.dialect = t.dialect /\ u.said = t.said /\ u.closed = t.closed
        /\ TextsOf(u) = t.said.texts /\ u.usage = t.said.usage
    BY <1>1, Dispatched
  <1> HIDE DEF u
  <1>3. /\ w \in StreamType /\ w.out = <<>>
        /\ Shape(w.sent, w.sentRole, w.done) /\ Times(w.sent, "text") = TextsOf(u)
        /\ w.done => w.tracked = w.usage
        /\ w.dialect = u.dialect /\ w.data = u.data /\ w.said = u.said
        /\ w.closed = u.closed /\ w.usage = u.usage /\ w.done = u.done
    BY <1>2, WrittenFacts
  <1> HIDE DEF w
  <1>4. TextIn(NoEvent) = 0 /\ TextsOf(u) \in Nat
    BY <1>2, WholeFacts DEF TextIn, NoEvent
  <1>5. Times(w.sent, "text") + TextIn(w.data) = w.said.texts
    BY <1>2, <1>3, <1>4
  <1>6. Due(w) = w.said.usage
    BY <1>2, <1>3 DEF Due
  <1>7. Translated(w)
    BY <1>2, <1>3, <1>5, <1>6 DEF Translated
  <1> QED
    BY <1>1, <1>2, <1>3, <1>7 DEF Good, Separated, w, u

LEMMA OverIsGood ==
    ASSUME NEW t, Good(t), ~t.closed
    PROVE  Good(Over(t))
  <1> DEFINE v == IF t.done THEN t ELSE Written(AtEnd(t))
             o == [v EXCEPT !.closed = TRUE]
  <1>1. t \in StreamType /\ t.out = <<>>
    BY DEF Good
  <1>2. CASE t.dialect = "openai"
    <2>1. Plain(t)
      BY <1>2 DEF Good
    <2>2. AtEnd(t) = t
      BY <1>2, <2>1 DEF AtEnd, Dispatch, Plain
    <2>3. t.sent \o t.out = t.sent
      BY <1>1, ConcatEmptySeq DEF StreamType, Chunks
    <2>4. UsageSeen(t) = t.tracked
      BY <1>1, EmptySeq DEF UsageSeen
    <2>5. Written(t) = t
      BY <1>1, <2>3, <2>4 DEF Written, StreamType
    <2>6. v = t
      BY <2>2, <2>5
    <2>7. o \in StreamType /\ o.out = <<>> /\ Plain(o) /\ o.dialect = t.dialect
      BY <1>1, <2>1, <2>6 DEF StreamType, Plain
    <2> QED
      BY <1>2, <2>7 DEF Good, Over
  <1>3. CASE t.dialect # "openai"
    <2>1. v \in StreamType /\ v.out = <<>> /\ v.dialect = t.dialect /\ Translated(v) /\ v.done
      <3>1. CASE t.done
        BY <1>1, <1>3, <3>1 DEF Good
      <3>2. CASE ~t.done
        <4> DEFINE u == Dispatch(t)
                   a == IF u.done THEN u ELSE EmitUsageAndDone(u)
        <4>1. /\ u \in StreamType /\ Sound(u) /\ u.data = NoEvent
              /\ u.dialect = t.dialect /\ u.said = t.said /\ u.closed = t.closed
              /\ TextsOf(u) = t.said.texts /\ u.usage = t.said.usage
          BY <1>3, <3>2, Dispatched
        <4>2. AtEnd(t) = a
          BY <1>3, <4>1 DEF AtEnd
        <4> HIDE DEF u
        <4>3. TextsOf(u) \in Nat
          BY <4>1, WholeFacts
        <4>4. /\ a \in StreamType /\ Sound(a) /\ a.data = NoEvent /\ a.done
              /\ a.dialect = t.dialect /\ a.said = t.said /\ a.closed = t.closed
              /\ TextsOf(a) = t.said.texts /\ a.usage = t.said.usage
          <5>1. CASE u.done
            BY <4>1, <5>1
          <5>2. CASE ~u.done
            <6>1. Becomes(u, EmitUsageAndDone(u), 0, u.usage) /\ EmitUsageAndDone(u).done
              BY <4>1, <5>2, EmitEndBecomes
            <6> QED
              BY <4>1, <4>3, <5>2, <6>1 DEF Becomes
          <5> QED
            BY <5>1, <5>2
        <4> HIDE DEF a
        <4> DEFINE w == Written(a)
        <4>5. /\ w \in StreamType /\ w.out = <<>>
              /\ Shape(w.sent, w.sentRole, w.done) /\ Times(w.sent, "text") = TextsOf(a)
              /\ w.done => w.tracked = w.usage
              /\ w.dialect = a.dialect /\ w.data = a.data /\ w.said = a.said
              /\ w.closed = a.closed /\ w.usage = a.usage /\ w.done = a.done
          BY <4>4, WrittenFacts
        <4>6. v = w
          BY <3>2, <4>2
        <4> HIDE DEF w, v
        <4>7. TextIn(NoEvent) = 0 /\ TextsOf(a) \in Nat
          BY <4>4, WholeFacts DEF TextIn, NoEvent
        <4>8. Times(w.sent, "text") + TextIn(w.data) = w.said.texts
          BY <4>4, <4>5, <4>7
        <4>9. Due(w) = w.said.usage
          BY <4>4, <4>5 DEF Due
        <4> QED
          BY <4>4, <4>5, <4>6, <4>8, <4>9 DEF Translated
      <3> QED
        BY <3>1, <3>2
    <2> HIDE DEF v
    <2>2. /\ o \in StreamType /\ o.out = <<>> /\ o.dialect = t.dialect
          /\ o.data = v.data /\ o.sent = v.sent /\ o.sentRole = v.sentRole /\ o.done = v.done
          /\ o.said = v.said /\ o.usage = v.usage /\ o.tracked = v.tracked
      BY <2>1 DEF StreamType
    <2> HIDE DEF o
    <2>3. Due(o) = Due(v)
      BY <2>2 DEF Due
    <2>4. Translated(o)
      BY <2>1, <2>2, <2>3 DEF Translated
    <2> QED
      BY <1>3, <2>2, <2>4 DEF Good, Over, o, v
  <1> QED
    BY <1>2, <1>3

LEMMA HearsIsGood ==
    ASSUME NEW t, Good(t), ~t.done, ~t.closed, t.data = NoEvent,
           NEW e \in EventsOf(t.dialect)
    PROVE  Good(Hears(t, e))
  <1> DEFINE d == DataLine(t, e)
             w == Written(d)
             told == [events |-> w.said.events + 1, usage |-> Reported(w.said.usage, e),
                      texts |-> IF e.type = "text" THEN w.said.texts + 1 ELSE w.said.texts]
             h == [w EXCEPT !.said = told]
             g == Reported(t.usage, e)
  <1>1. t \in StreamType /\ t.out = <<>> /\ t.sent \in Chunks /\ t.said.texts \in Nat
    BY DEF Good, StreamType, Told
  <1>2. Hears(t, e) = h /\ h \in StreamType
    BY <1>1, HearsType DEF Hears, Heard
  <1>3. e \in AllEvents /\ e # NoEvent
    BY <1>1 DEF EventsOf, AllEvents, StreamType, Dialects, NoEvent, OpenAIEvents,
               AnthropicEvents, GeminiEvents
  <1>4. g \in Usages
    BY <1>1, <1>3, ReportedUsage DEF StreamType
  <1>5. w \in StreamType
    <2>1. d \in StreamType
      BY <1>1, DataLineType
    <2> QED
      BY <2>1, WrittenType
  <1>6. /\ h.out = w.out /\ h.dialect = w.dialect /\ h.data = w.data /\ h.sent = w.sent
        /\ h.sentRole = w.sentRole /\ h.done = w.done /\ h.closed = w.closed
        /\ h.usage = w.usage /\ h.tracked = w.tracked
        /\ h.said.usage = Reported(w.said.usage, e)
        /\ h.said.texts = IF e.type = "text" THEN w.said.texts + 1 ELSE w.said.texts
    BY <1>5 DEF StreamType
  <1> HIDE DEF h
  <1>7. CASE t.dialect = "openai"
    <2> DEFINE m == Emit(t, e.type)
    <2>1. Plain(t) /\ e \in OpenAIEvents
      BY <1>7 DEF Good, EventsOf
    <2>2. e.type \in ChunkKinds
      BY <2>1 DEF OpenAIEvents, ChunkKinds
    <2>3. /\ d = [m EXCEPT !.usage = g] /\ m.out = Append(<<>>, e.type) /\ m \in StreamType
          /\ Framed(t, m) /\ Whole(m) = Append(Whole(t), e.type)
      BY <1>1, <1>7, <2>2, EmitFacts DEF DataLine, Emit, StreamType
    <2> HIDE DEF m
    <2>4. /\ d.out = <<e.type>> /\ d.usage = g /\ Whole(d) = Append(Whole(t), e.type)
          /\ d.data = NoEvent /\ ~d.done /\ d.tracked = t.tracked /\ d.said = t.said
          /\ d.dialect = t.dialect /\ d.closed = t.closed
      <3>1. m.out = <<e.type>>
        BY <2>3
      <3>2. /\ d.out = m.out /\ d.usage = g /\ d.sent = m.sent /\ d.data = m.data
            /\ d.done = m.done /\ d.tracked = m.tracked /\ d.said = m.said
            /\ d.dialect = m.dialect /\ d.closed = m.closed
        BY <2>3 DEF StreamType
      <3> HIDE DEF d
      <3>3. Whole(d) = Append(Whole(t), e.type)
        BY <2>3, <3>2 DEF Whole
      <3> QED
        BY <1>1, <2>3, <3>1, <3>2, <3>3 DEF Framed
    <2> HIDE DEF d
    <2>5. /\ w.out = <<>> /\ w.sent = Whole(d) /\ w.tracked = UsageSeen(d)
          /\ w.data = NoEvent /\ ~w.done /\ w.said = t.said /\ w.usage = g
          /\ w.dialect = t.dialect
      BY <1>5, <2>4 DEF Written, Whole, StreamType
    <2> HIDE DEF w
    <2>6. Whole(t) = t.sent
      BY <1>1, SentIsWhole
    <2>7. Times(w.sent, "text") = Times(t.sent, "text") + TextIn(e) /\ Times(t.sent, "text") \in Nat
      BY <1>1, <2>2, <2>4, <2>5, <2>6, TimesAppend DEF TextIn
    <2>8. UsageSeen(d) = g
      <3>1. CASE e.type = "usage"
        <4>1. 1 \in DOMAIN d.out /\ d.out[1] = "usage"
          BY <2>4, <3>1
        <4> QED
          BY <2>4, <4>1 DEF UsageSeen
      <3>2. CASE e.type # "usage"
        <4>1. \A i \in DOMAIN d.out : d.out[i] # "usage"
          BY <2>4, <3>2
        <4>2. g = t.usage
          BY <2>1, <3>2 DEF Reported, OpenAIEvents
        <4> QED
          BY <2>1, <2>4, <4>1, <4>2 DEF UsageSeen, Plain
      <3> QED
        BY <3>1, <3>2
    <2>9. h.said.texts = Times(h.sent, "text")
      BY <1>1, <1>6, <2>1, <2>5, <2>7 DEF Plain, TextIn
    <2>10. h.tracked = h.said.usage /\ h.usage = h.said.usage
      BY <1>6, <2>1, <2>5, <2>8 DEF Plain
    <2>11. Plain(h)
      BY <1>6, <2>5, <2>9, <2>10 DEF Plain
    <2> QED
      BY <1>2, <1>6, <1>7, <2>5, <2>11 DEF Good
  <1>8. CASE t.dialect # "openai"
    <2>1. Translated(t)
      BY <1>8 DEF Good
    <2>2. /\ d = [t EXCEPT !.data = e] /\ d \in StreamType
          /\ d.sent = t.sent /\ d.out = <<>> /\ d.data = e /\ d.sentRole = t.sentRole
          /\ d.done = t.done /\ d.said = t.said /\ d.usage = t.usage
          /\ d.dialect = t.dialect /\ d.closed = t.closed
      BY <1>1, <1>3, <1>8 DEF DataLine, StreamType, Data
    <2> HIDE DEF d
    <2>3. Whole(d) = t.sent /\ TextsOf(d) = Times(t.sent, "text") /\ Times(t.sent, "text") \in Nat
      BY <2>2, SentIsWhole
    <2>4. Sound(d)
      BY <2>1, <2>2, <2>3 DEF Sound, Translated
    <2>5. /\ w.out = <<>>
          /\ Shape(w.sent, w.sentRole, w.done) /\ Times(w.sent, "text") = TextsOf(d)
          /\ w.dialect = d.dialect /\ w.data = d.data /\ w.said = d.said
          /\ w.closed = d.closed /\ w.usage = d.usage /\ w.done = d.done
      BY <2>2, <2>4, WrittenFacts
    <2> HIDE DEF w
    <2>6. TextIn(NoEvent) = 0
      BY DEF TextIn, NoEvent
    <2>7. Times(t.sent, "text") = t.said.texts /\ t.usage = t.said.usage
      BY <2>1, <2>3, <2>6 DEF Translated, Due
    <2>8. Times(h.sent, "text") + TextIn(h.data) = h.said.texts
      BY <1>1, <1>6, <2>2, <2>3, <2>5, <2>7 DEF TextIn
    <2>9. Due(h) = h.said.usage
      BY <1>3, <1>6, <2>2, <2>5, <2>7 DEF Due
    <2>10. Shape(h.sent, h.sentRole, h.done) /\ ~h.done /\ ~h.closed /\ h.out = <<>>
           /\ h.dialect = t.dialect /\ h.data = e
      BY <1>6, <2>2, <2>5
    <2>11. Translated(h)
      BY <2>8, <2>9, <2>10 DEF Translated
    <2> QED
      BY <1>2, <1>8, <2>10, <2>11 DEF Good
  <1> QED
    BY <1>7, <1>8

LEMMA GoodIsWellFormed ==
    ASSUME NEW t, Good(t)
    PROVE  WellFormed(t)
  <1>1. SUFFICES ASSUME t.dialect # "openai"
                 PROVE  /\ Times(t.sent, "role") <= 1
                        /\ \A i \in DOMAIN t.sent :
                              /\ t.sent[i] = "done" => i = Len(t.sent)
                              /\ t.sent[i] = "usage"
                                 <=> i + 1 \in DOMAIN t.sent /\ t.sent[i + 1] = "done"
                        /\ t.closed => Times(t.sent, "done") = 1
    BY DEF WellFormed
  <1>2. Shape(t.sent, t.sentRole, t.done) /\ (t.closed => t.done)
    BY <1>1 DEF Good, Translated
  <1> DEFINE s == t.sent
             n == Len(s)
  <1>3. DOMAIN s = 1 .. n /\ n \in Nat
    BY LenProperties DEF Good, StreamType, Chunks
  <1>4. Times(s, "role") <= 1
    BY <1>2 DEF Shape
  <1>5. t.closed => Times(s, "done") = 1
    BY <1>2 DEF Shape
  <1> HIDE DEF s, n
  <1>6. ASSUME NEW i \in 1 .. n
        PROVE  /\ s[i] = "done" => i = n
               /\ s[i] = "usage" <=> i + 1 \in 1 .. n /\ s[i + 1] = "done"
    <2>1. CASE Unended(s)
      BY <1>3, <2>1 DEF Unended, n
    <2>2. CASE Ended(s)
      <3>1. n >= 2 /\ s[n - 1] = "usage" /\ s[n] = "done"
            /\ \A j \in 1 .. n - 2 : s[j] # "usage" /\ s[j] # "done"
        BY <2>2 DEF Ended, n
      <3>2. i \in 1 .. n - 2 \/ i = n - 1 \/ i = n
        BY <1>3
      <3>3. CASE i \in 1 .. n - 2
        <4>1. i + 1 \in 1 .. n - 2 \/ i + 1 = n - 1
          BY <1>3, <3>3
        <4>2. s[i + 1] # "done"
          BY <3>1, <4>1
        <4> QED
          BY <3>1, <3>3, <4>2
      <3>4. CASE i = n - 1
        BY <1>3, <3>1, <3>4
      <3>5. CASE i = n
        BY <1>3, <3>1, <3>5
      <3> QED
        BY <3>2, <3>3, <3>4, <3>5
    <2> QED
      BY <1>2, <2>1, <2>2 DEF Shape, s
  <1> QED
    BY <1>3, <1>4, <1>5, <1>6 DEF s, n

LEMMA GoodIsFaithful ==
    ASSUME NEW t, Good(t)
    PROVE  Faithful(t)
  <1>1. SUFFICES ASSUME t.closed
                 PROVE  Times(t.sent, "text") = t.said.texts /\ t.tracked = t.said.usage
    BY DEF Faithful
  <1>2. CASE t.dialect = "openai"
    BY <1>2 DEF Good, Plain
  <1>3. CASE t.dialect # "openai"
    <2>1. Translated(t) /\ t.data = NoEvent /\ t.tracked = t.usage
      BY <1>1, <1>3 DEF Good, Translated
    <2>2. Times(t.sent, "text") \in Nat /\ TextIn(NoEvent) = 0
      BY SentIsWhole DEF Good, TextIn, NoEvent
    <2>3. Times(t.sent, "text") = t.said.texts
      BY <2>1, <2>2 DEF Translated
    <2> QED
      BY <2>1, <2>3 DEF Translated, Due
  <1> QED
    BY <1>2, <1>3
=============================================================================
