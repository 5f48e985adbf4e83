------------------------- MODULE Management_proofs -------------------------
(***************************************************************************)
(* Proofs about the management stream, for any clients and any messages,   *)
(* and however the stream is cut.                                          *)
(***************************************************************************)
EXTENDS Management, InductionBySets, FiniteSetTheorems, SequenceTheorems

IsSeq(s) == \E S : s \in Seq(S)

\* s comes first in t.
Begins(s, t) == IsSeq(s) /\ IsSeq(t) /\ Len(s) <= Len(t) /\ \A i \in 1 .. Len(s) : s[i] = t[i]

\* What Append does, whatever the elements are.
LEMMA AppendAny ==
  ASSUME NEW s, IsSeq(s), NEW e
  PROVE  /\ IsSeq(Append(s, e)) /\ Len(s) \in Nat /\ DOMAIN s = 1 .. Len(s)
         /\ Len(Append(s, e)) = Len(s) + 1 /\ DOMAIN Append(s, e) = 1 .. Len(s) + 1
         /\ Append(s, e)[Len(s) + 1] = e
         /\ \A i \in 1 .. Len(s) : Append(s, e)[i] = s[i]
<1>1. PICK S : s \in Seq(S)
  BY DEF IsSeq
<1>2. s \in Seq(S \cup {e}) /\ e \in S \cup {e}
  BY <1>1, SeqMonotonic
<1> DEFINE U == S \cup {e}
<1>3. s \in Seq(U) /\ e \in U
  BY <1>2
<1> HIDE DEF U
<1>4. /\ Append(s, e) \in Seq(U) /\ Len(s) \in Nat /\ DOMAIN s = 1 .. Len(s)
      /\ Len(Append(s, e)) = Len(s) + 1 /\ DOMAIN Append(s, e) = 1 .. Len(s) + 1
      /\ Append(s, e)[Len(s) + 1] = e
      /\ \A i \in 1 .. Len(s) : Append(s, e)[i] = s[i]
  BY <1>3
<1> QED BY <1>4 DEF IsSeq

\* A sequence comes first in what is appended to it.
LEMMA BeginsAppend ==
  ASSUME NEW s, IsSeq(s), NEW e
  PROVE  Begins(s, Append(s, e))
BY AppendAny DEF Begins

\* Coming first is transitive.
LEMMA BeginsTransitive ==
  ASSUME NEW s, NEW t, NEW u, Begins(s, t), Begins(t, u)
  PROVE  Begins(s, u)
<1>1. Len(s) \in Nat /\ Len(t) \in Nat /\ Len(u) \in Nat
  BY AppendAny DEF Begins
<1> QED BY <1>1 DEF Begins

-----------------------------------------------------------------------------
(***************************************************************************)
(* Chunks.                                                                 *)
(***************************************************************************)

\* f are the states of the worker in the course of n words.
Steps(f, w, words, now, n) ==
  f[0] = w /\ \A k \in 1 .. n : f[k] = onWord(f[k - 1], words[k], now)

\* ... and of nothing else.
Run(f, w, words, now, n) ==
  Steps(f, w, words, now, n) /\ f = [k \in 0 .. n |-> f[k]]

\* Words can be read one by one: the recursive function in Received exists.
LEMMA RunExists ==
  ASSUME NEW w, NEW words, NEW now
  PROVE  \A n \in Nat : \E f : Run(f, w, words, now, n)
<1> DEFINE T == {n \in Nat : \E f : Run(f, w, words, now, n)}
<1>1. 0 \in T
  <2> DEFINE f == [k \in 0 .. 0 |-> w]
  <2>1. Run(f, w, words, now, 0)
    BY DEF Run, Steps
  <2> QED BY <2>1
<1>2. ASSUME NEW n \in T PROVE n + 1 \in T
  <2>1. PICK f : Steps(f, w, words, now, n)
    BY DEF Run
  <2> DEFINE g == [k \in 0 .. n + 1 |-> IF k <= n THEN f[k] ELSE onWord(f[n], words[n + 1], now)]
  <2>2. g[0] = w
    BY <2>1 DEF Steps
  <2>3. ASSUME NEW k \in 1 .. n + 1 PROVE g[k] = onWord(g[k - 1], words[k], now)
    <3>1. CASE k = n + 1
      BY <3>1
    <3>2. CASE k # n + 1
      <4>1. k \in 1 .. n /\ k - 1 \in 0 .. n
        BY <3>2
      <4>2. g[k] = f[k] /\ g[k - 1] = f[k - 1]
        BY <4>1
      <4> QED BY <2>1, <4>1, <4>2 DEF Steps
    <3> QED BY <3>1, <3>2
  <2>4. Run(g, w, words, now, n + 1)
    BY <2>2, <2>3 DEF Run, Steps
  <2> QED BY <2>4
<1>3. T = Nat
  BY <1>1, <1>2, SetInduction
<1> QED BY <1>3

\* There is one way to read them.
LEMMA StepsAgree ==
  ASSUME NEW w, NEW words, NEW now, NEW n \in Nat, NEW f, NEW g,
         Steps(f, w, words, now, n), Steps(g, w, words, now, n)
  PROVE  \A k \in 0 .. n : f[k] = g[k]
<1> DEFINE T == {k \in Nat : k <= n => f[k] = g[k]}
<1>1. 0 \in T
  BY DEF Steps
<1>2. ASSUME NEW k \in T PROVE k + 1 \in T
  <2>1. CASE k + 1 <= n
    <3>1. k + 1 \in 1 .. n /\ (k + 1) - 1 = k /\ f[k] = g[k]
      BY <2>1
    <3>2. /\ f[k + 1] = onWord(f[(k + 1) - 1], words[k + 1], now)
          /\ g[k + 1] = onWord(g[(k + 1) - 1], words[k + 1], now)
      BY <3>1 DEF Steps
    <3> QED BY <3>1, <3>2
  <2>2. CASE ~(k + 1 <= n)
    BY <2>2
  <2> QED BY <2>1, <2>2
<1>3. T = Nat
  BY <1>1, <1>2, SetInduction
<1> QED BY <1>3

\* Received() is the last of them.
LEMMA ReceivedIs ==
  ASSUME NEW w, NEW words, NEW now, Len(words) \in Nat, NEW f,
         Steps(f, w, words, now, Len(words))
  PROVE  Received(w, words, now) = f[Len(words)]
<1> DEFINE n == Len(words)
           Is(h) == h = [k \in 0 .. n |-> IF k = 0 THEN w ELSE onWord(h[k - 1], words[k], now)]
           g == CHOOSE h : Is(h)
<1>1. PICK h : Run(h, w, words, now, n)
  <2>1. n \in Nat
    OBVIOUS
  <2> HIDE DEF n
  <2> QED BY <2>1, RunExists, Zenon
<1>2. Is(h)
  BY <1>1 DEF Run, Steps
<1>3. Is(g)
  BY <1>2
<1>4. Received(w, words, now) = g[n]
  BY DEF Received
<1> HIDE DEF g
<1>5. Steps(g, w, words, now, n)
  BY <1>3 DEF Steps
<1> QED BY <1>4, <1>5, StepsAgree

\* An empty chunk changes nothing.
LEMMA NothingReceived ==
  ASSUME NEW w, NEW now
  PROVE  Received(w, <<>>, now) = w
<1> DEFINE f == [k \in 0 .. 0 |-> w]
<1>1. Steps(f, w, <<>>, now, 0) /\ f[0] = w
  BY DEF Steps
<1> HIDE DEF f
<1>2. Len(<<>>) = 0
  OBVIOUS
<1>3. Received(w, <<>>, now) = f[Len(<<>>)]
  BY <1>1, <1>2, ReceivedIs
<1> QED BY <1>1, <1>2, <1>3

\* Cuts do not matter.
LEMMA ReceivedConcat ==
  ASSUME NEW S, NEW s \in Seq(S), NEW t \in Seq(S), NEW w, NEW now
  PROVE  Received(w, s \o t, now) = Received(Received(w, s, now), t, now)
<1> DEFINE m == Len(s)
           n == Len(t)
<1>1. /\ m \in Nat /\ n \in Nat /\ Len(s \o t) = m + n
      /\ \A i \in 1 .. m + n : (s \o t)[i] = IF i <= m THEN s[i] ELSE t[i - m]
  BY ConcatProperties, LenProperties
<1>2. PICK f : Steps(f, w, s \o t, now, m + n)
  <2> DEFINE st == s \o t
             mn == m + n
  <2>1. mn \in Nat
    BY <1>1
  <2> HIDE DEF st, mn
  <2>2. \E f : Steps(f, w, st, now, mn)
    BY <2>1, RunExists, Zenon DEF Run
  <2> QED BY <2>2 DEF st, mn
<1> DEFINE g == [k \in 0 .. n |-> f[m + k]]
<1>3. Steps(f, w, s, now, m)
  <2>1. \A k \in 1 .. m : k \in 1 .. m + n /\ (s \o t)[k] = s[k]
    BY <1>1
  <2> QED BY <1>2, <2>1 DEF Steps
<1>4. Steps(g, f[m], t, now, n)
  <2>1. g[0] = f[m]
    BY <1>1
  <2>2. ASSUME NEW k \in 1 .. n PROVE g[k] = onWord(g[k - 1], t[k], now)
    <3>1. m + k \in 1 .. m + n /\ (m + k) - 1 = m + (k - 1) /\ (s \o t)[m + k] = t[k]
      BY <1>1
    <3>2. f[m + k] = onWord(f[(m + k) - 1], (s \o t)[m + k], now)
      BY <1>2, <3>1 DEF Steps
    <3>3. g[k] = f[m + k] /\ g[k - 1] = f[m + (k - 1)]
      BY <1>1
    <3> QED BY <3>1, <3>2, <3>3
  <2> QED BY <2>1, <2>2 DEF Steps
<1>5. Received(w, s, now) = f[m]
  BY <1>1, <1>3, ReceivedIs
<1>6. Received(f[m], t, now) = g[n]
  BY <1>1, <1>4, ReceivedIs
<1>7. Received(w, s \o t, now) = f[m + n]
  <2>1. Steps(f, w, s \o t, now, Len(s \o t)) /\ Len(s \o t) \in Nat
    BY <1>1, <1>2
  <2>2. Received(w, s \o t, now) = f[Len(s \o t)]
    BY <2>1, ReceivedIs
  <2> QED BY <1>1, <2>2
<1>8. g[n] = f[m + n]
  BY <1>1
<1> QED BY <1>5, <1>6, <1>7, <1>8

-----------------------------------------------------------------------------
(***************************************************************************)
(* What the parser does to a worker, whatever the words are.               *)
(***************************************************************************)
IsWorker(w) ==
  /\ w = [buf |-> w.buf, collecting |-> w.collecting, emitted |-> w.emitted,
          clientCache |-> w.clientCache, rxBytes |-> w.rxBytes, sampled |-> w.sampled]
  /\ IsSeq(w.emitted)

\* v is w, but for the parser's own state.
SameAccounts(w, v) ==
  /\ v.emitted = w.emitted /\ v.clientCache = w.clientCache
  /\ v.rxBytes = w.rxBytes /\ v.sampled = w.sampled

\* v is w for the parser.
SameParser(w, v) == v.buf = w.buf /\ v.collecting = w.collecting /\ v.emitted = w.emitted

\* The handlers of an event leave the parser alone and the event is noted.
LEMMA EmitShape ==
  ASSUME NEW w, IsWorker(w), NEW e, NEW now
  PROVE  /\ IsWorker(emit(w, e, now))
         /\ emit(w, e, now).buf = w.buf /\ emit(w, e, now).collecting = w.collecting
         /\ emit(w, e, now).emitted = Append(w.emitted, e)
<1> DEFINE told == [w EXCEPT !.emitted = Append(@, e)]
<1>1. /\ IsWorker(told) /\ told.buf = w.buf /\ told.collecting = w.collecting
      /\ told.emitted = Append(w.emitted, e)
  BY AppendAny DEF IsWorker
<1> HIDE DEF told
<1>2. CASE e.event = "ESTABLISHED"
  <2>1. emit(w, e, now) = established(told, e.cid, e.env["common_name"], now)
    BY <1>2 DEF emit, told
  <2> QED BY <1>1, <2>1 DEF established, IsWorker
<1>3. CASE e.event = "BYTECOUNT_CLI"
  <2>1. emit(w, e, now) = writeBandwidthMetrics(told, e.cid, e.bytes, now)
    BY <1>3 DEF emit, told
  <2> QED BY <1>1, <2>1 DEF writeBandwidthMetrics, IsWorker
<1>4. CASE e.event \notin {"ESTABLISHED", "BYTECOUNT_CLI"}
  <2>1. emit(w, e, now) = told
    BY <1>4 DEF emit, told
  <2> QED BY <1>1, <2>1
<1> QED BY <1>2, <1>3, <1>4

\* The events of a worker are a sequence.
LEMMA EmittedIsSeq ==
  ASSUME NEW w, IsWorker(w)
  PROVE  IsSeq(w.emitted) /\ Begins(w.emitted, w.emitted)
<1>1. IsSeq(w.emitted)
  BY DEF IsWorker
<1> QED BY <1>1, AppendAny DEF Begins

\* The cases of dataHandler.
LEMMA DataHandlerIs ==
  ASSUME NEW w, NEW line, NEW now
  PROVE  /\ line[1] = "LOG" => dataHandler(w, line, now) = emit(w, [event |-> "LOG"], now)
         /\ line[1] \in EventTypes =>
              dataHandler(w, line, now) =
                [w EXCEPT !.collecting = [event |-> line[1], cid |-> line[2], env |-> <<>>]]
         /\ line[1] = "BYTECOUNT_CLI" =>
              dataHandler(w, line, now) = emit(w, Bytecount(line[2], line[3]), now)
         /\ line[1] \notin EventTypes \cup {"LOG", "BYTECOUNT_CLI"} => dataHandler(w, line, now) = w
<1>1. ASSUME line[1] = "LOG" PROVE dataHandler(w, line, now) = emit(w, [event |-> "LOG"], now)
  BY <1>1 DEF dataHandler, EventTypes
<1>2. ASSUME line[1] \in EventTypes
      PROVE  dataHandler(w, line, now) =
               [w EXCEPT !.collecting = [event |-> line[1], cid |-> line[2], env |-> <<>>]]
  BY <1>2 DEF dataHandler, EventTypes
<1>3. ASSUME line[1] = "BYTECOUNT_CLI"
      PROVE  dataHandler(w, line, now) = emit(w, Bytecount(line[2], line[3]), now)
  BY <1>3 DEF dataHandler, EventTypes, Bytecount
<1>4. ASSUME line[1] \notin EventTypes \cup {"LOG", "BYTECOUNT_CLI"} PROVE dataHandler(w, line, now) = w
  BY <1>4 DEF dataHandler, EventTypes
<1> QED BY <1>1, <1>2, <1>3, <1>4

\* A line of which there is more to come, as the worker notes it.
Collects(w, line) == [w EXCEPT !.collecting = [event |-> line[1], cid |-> line[2], env |-> <<>>]]

\* To begin an event touches neither the accounts nor the buffer.
LEMMA CollectsShape ==
  ASSUME NEW w, IsWorker(w), NEW line
  PROVE  /\ IsWorker(Collects(w, line)) /\ SameAccounts(w, Collects(w, line))
         /\ Collects(w, line).buf = w.buf
         /\ Collects(w, line).collecting = [event |-> line[1], cid |-> line[2], env |-> <<>>]
BY DEF IsWorker, SameAccounts, Collects

\* dataHandler keeps the buffer and only adds to the events.
LEMMA DataHandlerShape ==
  ASSUME NEW w, IsWorker(w), NEW line, NEW now
  PROVE  /\ IsWorker(dataHandler(w, line, now))
         /\ dataHandler(w, line, now).buf = w.buf
         /\ Begins(w.emitted, dataHandler(w, line, now).emitted)
<1>1. Begins(w.emitted, w.emitted)
  BY EmittedIsSeq
<1>2. ASSUME NEW e
      PROVE  /\ IsWorker(emit(w, e, now)) /\ emit(w, e, now).buf = w.buf
             /\ Begins(w.emitted, emit(w, e, now).emitted)
  <2>1. IsWorker(emit(w, e, now)) /\ emit(w, e, now).buf = w.buf
    BY EmitShape
  <2>2. emit(w, e, now).emitted = Append(w.emitted, e)
    BY EmitShape
  <2>3. Begins(w.emitted, Append(w.emitted, e))
    BY EmittedIsSeq, BeginsAppend
  <2> QED BY <2>1, <2>2, <2>3
<1>3. CASE line[1] = "LOG"
  <2>1. dataHandler(w, line, now) = emit(w, [event |-> "LOG"], now)
    BY <1>3, DataHandlerIs
  <2> QED BY <1>2, <2>1
<1>4. CASE line[1] \in EventTypes
  <2>1. dataHandler(w, line, now) = Collects(w, line)
    BY <1>4, DataHandlerIs DEF Collects
  <2>2. IsWorker(Collects(w, line)) /\ Collects(w, line).buf = w.buf
    BY CollectsShape
  <2>3. Collects(w, line).emitted = w.emitted
    BY CollectsShape DEF SameAccounts
  <2> QED BY <1>1, <2>1, <2>2, <2>3
<1>5. CASE line[1] = "BYTECOUNT_CLI"
  <2>1. dataHandler(w, line, now) = emit(w, Bytecount(line[2], line[3]), now)
    BY <1>5, DataHandlerIs
  <2> QED BY <1>2, <2>1
<1>6. CASE line[1] \notin EventTypes \cup {"LOG", "BYTECOUNT_CLI"}
  <2>1. dataHandler(w, line, now) = w
    BY <1>6, DataHandlerIs
  <2> QED BY <1>1, <2>1
<1> QED BY <1>3, <1>4, <1>5, <1>6

\* The event that was held is emitted before the next line is looked at.
Free(w) == [w EXCEPT !.collecting = NoEvent]
Told(w, now) == emit(Free(w), w.collecting, now)

\* To end an event emits it and takes the listener off.
LEMMA ToldShape ==
  ASSUME NEW w, IsWorker(w), NEW now
  PROVE  /\ IsWorker(Free(w)) /\ SameAccounts(w, Free(w))
         /\ Free(w).buf = w.buf /\ Free(w).collecting = NoEvent
         /\ IsWorker(Told(w, now)) /\ Told(w, now).buf = w.buf /\ Told(w, now).collecting = NoEvent
         /\ Told(w, now).emitted = Append(w.emitted, w.collecting)
<1>1. /\ IsWorker(Free(w)) /\ SameAccounts(w, Free(w)) /\ Free(w).buf = w.buf
      /\ Free(w).collecting = NoEvent
  BY DEF IsWorker, SameAccounts, Free
<1>2. /\ IsWorker(Told(w, now)) /\ Told(w, now).buf = w.buf /\ Told(w, now).collecting = NoEvent
      /\ Told(w, now).emitted = Append(w.emitted, w.collecting)
  BY <1>1, EmitShape DEF SameAccounts, Told
<1> QED BY <1>1, <1>2

\* The event that is held gets another line of its environment.
Grown(w, line) ==
  [w EXCEPT !.collecting = [w.collecting EXCEPT !.env = Put(w.collecting.env, line[2], line[3])]]

\* A line of the environment touches only the event that is held.
LEMMA GrownShape ==
  ASSUME NEW w, IsWorker(w), NEW line
  PROVE  /\ IsWorker(Grown(w, line)) /\ SameAccounts(w, Grown(w, line))
         /\ Grown(w, line).buf = w.buf
         /\ Grown(w, line).collecting =
              [w.collecting EXCEPT !.env = Put(w.collecting.env, line[2], line[3])]
BY DEF IsWorker, SameAccounts, Grown

\* The cases of a line: no event is held, or the line is one of its
\* environment, its end, or the next message.
LEMMA OnLineIs ==
  ASSUME NEW w, IsWorker(w), NEW line, NEW now
  PROVE  /\ w.collecting = NoEvent => onLine(w, line, now) = dataHandler(w, line, now)
         /\ w.collecting # NoEvent /\ line[1] = "ENV" => onLine(w, line, now) = Grown(w, line)
         /\ w.collecting # NoEvent /\ line[1] = "END" => onLine(w, line, now) = Told(w, now)
         /\ w.collecting # NoEvent /\ line[1] \notin {"ENV", "END"} =>
              onLine(w, line, now) = dataHandler(Told(w, now), line, now)
<1>1. w.collecting = NoEvent => onLine(w, line, now) = dataHandler(w, line, now)
  BY DEF onLine
<1>2. ASSUME w.collecting # NoEvent, line[1] = "ENV" PROVE onLine(w, line, now) = Grown(w, line)
  BY <1>2 DEF onLine, emitter, Grown, IsWorker
<1>3. w.collecting # NoEvent /\ line[1] = "END" => onLine(w, line, now) = Told(w, now)
  BY DEF onLine, emitter, Told, Free
<1>4. w.collecting # NoEvent /\ line[1] \notin {"ENV", "END"} =>
        onLine(w, line, now) = dataHandler(Told(w, now), line, now)
  BY DEF onLine, emitter, Told, Free
<1> QED BY <1>1, <1>2, <1>3, <1>4

\* A line keeps the buffer and only adds to the events.
LEMMA LineShape ==
  ASSUME NEW w, IsWorker(w), NEW line, NEW now
  PROVE  /\ IsWorker(onLine(w, line, now))
         /\ onLine(w, line, now).buf = w.buf
         /\ Begins(w.emitted, onLine(w, line, now).emitted)
<1>1. Begins(w.emitted, w.emitted)
  BY EmittedIsSeq
<1>2. /\ IsWorker(Told(w, now)) /\ Told(w, now).buf = w.buf
      /\ Begins(w.emitted, Told(w, now).emitted)
  BY ToldShape, EmittedIsSeq, BeginsAppend
<1>3. CASE w.collecting = NoEvent
  BY <1>3, DataHandlerShape, OnLineIs
<1>4. CASE w.collecting # NoEvent /\ line[1] = "ENV"
  <2>1. IsWorker(Grown(w, line)) /\ Grown(w, line).buf = w.buf
    BY GrownShape
  <2>2. Grown(w, line).emitted = w.emitted
    BY GrownShape DEF SameAccounts
  <2>3. onLine(w, line, now) = Grown(w, line)
    BY <1>4, OnLineIs
  <2> QED BY <1>1, <2>1, <2>2, <2>3
<1>5. CASE w.collecting # NoEvent /\ line[1] = "END"
  BY <1>2, <1>5, OnLineIs
<1>6. CASE w.collecting # NoEvent /\ line[1] \notin {"ENV", "END"}
  <2>1. onLine(w, line, now) = dataHandler(Told(w, now), line, now)
    BY <1>6, OnLineIs
  <2>2. /\ IsWorker(dataHandler(Told(w, now), line, now))
        /\ dataHandler(Told(w, now), line, now).buf = w.buf
        /\ Begins(Told(w, now).emitted, dataHandler(Told(w, now), line, now).emitted)
    BY <1>2, DataHandlerShape
  <2> QED BY <1>2, <2>1, <2>2, BeginsTransitive
<1> QED BY <1>3, <1>4, <1>5, <1>6

\* A word only adds to the events.
LEMMA WordShape ==
  ASSUME NEW w, IsWorker(w), NEW word, NEW now
  PROVE  /\ IsWorker(onWord(w, word, now))
         /\ Begins(w.emitted, onWord(w, word, now).emitted)
<1>1. CASE word = NL
  <2> DEFINE v == [w EXCEPT !.buf = <<>>]
  <2>1. IsWorker(v) /\ v.emitted = w.emitted /\ onWord(w, word, now) = onLine(v, w.buf, now)
    BY <1>1 DEF IsWorker, onWord
  <2> HIDE DEF v
  <2> QED BY <2>1, LineShape
<1>2. CASE word # NL
  <2>1. Begins(w.emitted, w.emitted)
    BY EmittedIsSeq
  <2>2. onWord(w, word, now) = [w EXCEPT !.buf = Append(@, word)]
    BY <1>2 DEF onWord
  <2> QED BY <2>1, <2>2 DEF IsWorker
<1> QED BY <1>1, <1>2

\* In the course of the words the events only grow.
LEMMA RunShape ==
  ASSUME NEW w, IsWorker(w), NEW words, NEW now, NEW n \in Nat, NEW f, Steps(f, w, words, now, n)
  PROVE  /\ \A k \in 0 .. n : IsWorker(f[k])
         /\ \A k \in 0 .. n : Begins(f[k].emitted, f[n].emitted)
<1>1. ASSUME NEW k \in Nat, k + 1 <= n, IsWorker(f[k])
      PROVE  IsWorker(f[k + 1]) /\ Begins(f[k].emitted, f[k + 1].emitted)
  <2>1. k + 1 \in 1 .. n /\ (k + 1) - 1 = k
    BY <1>1
  <2>2. f[k + 1] = onWord(f[(k + 1) - 1], words[k + 1], now)
    BY <2>1 DEF Steps
  <2>3. f[k + 1] = onWord(f[k], words[k + 1], now)
    BY <2>1, <2>2
  <2> QED BY <1>1, <2>3, WordShape
<1>2. \A k \in 0 .. n : IsWorker(f[k])
  <2> DEFINE T == {k \in Nat : k <= n => IsWorker(f[k])}
  <2>1. 0 \in T
    BY DEF Steps
  <2>2. ASSUME NEW k \in T PROVE k + 1 \in T
    BY <1>1
  <2>3. T = Nat
    BY <2>1, <2>2, SetInduction
  <2> QED BY <2>3
<1>3. \A k \in 0 .. n : Begins(f[k].emitted, f[n].emitted)
  <2> DEFINE T == {k \in Nat : k <= n => \A j \in 0 .. k : Begins(f[j].emitted, f[k].emitted)}
  <2>1. 0 \in T
    <3>1. Begins(f[0].emitted, f[0].emitted)
      BY <1>2, EmittedIsSeq
    <3>2. \A j \in 0 .. 0 : j = 0
      OBVIOUS
    <3> QED BY <3>1, <3>2
  <2>2. ASSUME NEW k \in T PROVE k + 1 \in T
    <3> SUFFICES ASSUME k + 1 <= n, NEW j \in 0 .. k + 1
                 PROVE  Begins(f[j].emitted, f[k + 1].emitted)
      OBVIOUS
    <3>1. k \in 0 .. n /\ k + 1 \in 0 .. n /\ k \in Nat
      OBVIOUS
    <3>2. CASE j = k + 1
      BY <1>2, <3>1, <3>2, EmittedIsSeq
    <3>3. CASE j # k + 1
      <4>1. Begins(f[j].emitted, f[k].emitted)
        BY <3>3
      <4>2. Begins(f[k].emitted, f[k + 1].emitted)
        BY <1>1, <1>2, <3>1
      <4> QED BY <4>1, <4>2, BeginsTransitive
    <3> QED BY <3>2, <3>3
  <2>3. T = Nat
    BY <2>1, <2>2, SetInduction
  <2> QED BY <2>3
<1> QED BY <1>2, <1>3

\* Received is where reading word by word ends.
LEMMA ReceivedRun ==
  ASSUME NEW w, NEW words, NEW now, Len(words) \in Nat
  PROVE  \E f : Steps(f, w, words, now, Len(words)) /\ Received(w, words, now) = f[Len(words)]
<1>1. PICK f : Run(f, w, words, now, Len(words))
  <2> DEFINE n == Len(words)
  <2>1. n \in Nat
    OBVIOUS
  <2> HIDE DEF n
  <2>2. \E f : Run(f, w, words, now, n)
    BY <2>1, RunExists, Zenon
  <2> QED BY <2>2 DEF n
<1>2. Steps(f, w, words, now, Len(words))
  BY <1>1 DEF Run
<1> QED BY <1>2, ReceivedIs

\* A chunk only adds to the events.
LEMMA ReceivedShape ==
  ASSUME NEW w, IsWorker(w), NEW words, NEW now, Len(words) \in Nat
  PROVE  IsWorker(Received(w, words, now)) /\ Begins(w.emitted, Received(w, words, now).emitted)
<1>1. PICK f : Steps(f, w, words, now, Len(words)) /\ Received(w, words, now) = f[Len(words)]
  BY ReceivedRun
<1> DEFINE n == Len(words)
<1>2. n \in Nat /\ Steps(f, w, words, now, n)
  BY <1>1
<1> HIDE DEF n
<1>3. /\ \A k \in 0 .. n : IsWorker(f[k])
      /\ \A k \in 0 .. n : Begins(f[k].emitted, f[n].emitted)
  BY <1>2, RunShape
<1>4. IsWorker(f[n]) /\ Begins(f[0].emitted, f[n].emitted) /\ f[0] = w
  BY <1>2, <1>3 DEF Steps
<1> QED BY <1>1, <1>4 DEF n

-----------------------------------------------------------------------------
(***************************************************************************)
(* What the parser does is the same at any time.                           *)
(***************************************************************************)

\* The handlers of an event do not touch what the parser goes by,
LEMMA EmitSame ==
  ASSUME NEW w, IsWorker(w), NEW v, IsWorker(v), SameParser(w, v), NEW e, NEW now, NEW later
  PROVE  SameParser(emit(w, e, now), emit(v, e, later))
<1>1. /\ emit(w, e, now).buf = w.buf /\ emit(w, e, now).collecting = w.collecting
      /\ emit(w, e, now).emitted = Append(w.emitted, e)
  BY EmitShape
<1>2. /\ emit(v, e, later).buf = v.buf /\ emit(v, e, later).collecting = v.collecting
      /\ emit(v, e, later).emitted = Append(v.emitted, e)
  BY EmitShape
<1> QED BY <1>1, <1>2 DEF SameParser

\* ... nor does dataHandler,
LEMMA DataHandlerSame ==
  ASSUME NEW w, IsWorker(w), NEW v, IsWorker(v), SameParser(w, v), NEW line, NEW now, NEW later
  PROVE  SameParser(dataHandler(w, line, now), dataHandler(v, line, later))
<1>1. CASE line[1] = "LOG"
  BY <1>1, DataHandlerIs, EmitSame
<1>2. CASE line[1] \in EventTypes
  <2>1. dataHandler(w, line, now) = Collects(w, line) /\ dataHandler(v, line, later) = Collects(v, line)
    BY <1>2, DataHandlerIs DEF Collects
  <2>2. SameParser(Collects(w, line), Collects(v, line))
    <3>1. /\ Collects(w, line).buf = w.buf /\ Collects(w, line).emitted = w.emitted
          /\ Collects(w, line).collecting = [event |-> line[1], cid |-> line[2], env |-> <<>>]
      BY CollectsShape DEF SameAccounts
    <3>2. /\ Collects(v, line).buf = v.buf /\ Collects(v, line).emitted = v.emitted
          /\ Collects(v, line).collecting = [event |-> line[1], cid |-> line[2], env |-> <<>>]
      BY CollectsShape DEF SameAccounts
    <3> QED BY <3>1, <3>2 DEF SameParser
  <2> QED BY <2>1, <2>2
<1>3. CASE line[1] = "BYTECOUNT_CLI"
  BY <1>3, DataHandlerIs, EmitSame
<1>4. CASE line[1] \notin EventTypes \cup {"LOG", "BYTECOUNT_CLI"}
  BY <1>4, DataHandlerIs
<1> QED BY <1>1, <1>2, <1>3, <1>4

\* ... nor a line,
LEMMA LineSame ==
  ASSUME NEW w, IsWorker(w), NEW v, IsWorker(v), SameParser(w, v), NEW line, NEW now, NEW later
  PROVE  SameParser(onLine(w, line, now), onLine(v, line, later))
<1>1. v.collecting = w.collecting
  BY DEF SameParser
<1>2. /\ IsWorker(Told(w, now)) /\ IsWorker(Told(v, later))
      /\ SameParser(Told(w, now), Told(v, later))
  <2>1. /\ IsWorker(Told(w, now)) /\ Told(w, now).buf = w.buf /\ Told(w, now).collecting = NoEvent
        /\ Told(w, now).emitted = Append(w.emitted, w.collecting)
    BY ToldShape
  <2>2. /\ IsWorker(Told(v, later)) /\ Told(v, later).buf = v.buf
        /\ Told(v, later).collecting = NoEvent
        /\ Told(v, later).emitted = Append(v.emitted, v.collecting)
    BY ToldShape
  <2> QED BY <2>1, <2>2 DEF SameParser
<1>3. CASE w.collecting = NoEvent
  BY <1>1, <1>3, OnLineIs, DataHandlerSame
<1>4. CASE w.collecting # NoEvent /\ line[1] = "ENV"
  <2>1. onLine(w, line, now) = Grown(w, line) /\ onLine(v, line, later) = Grown(v, line)
    BY <1>1, <1>4, OnLineIs
  <2>2. SameParser(Grown(w, line), Grown(v, line))
    <3>1. /\ Grown(w, line).buf = w.buf /\ Grown(w, line).emitted = w.emitted
          /\ Grown(w, line).collecting = [w.collecting EXCEPT !.env = Put(w.collecting.env, line[2], line[3])]
      BY GrownShape DEF SameAccounts
    <3>2. /\ Grown(v, line).buf = v.buf /\ Grown(v, line).emitted = v.emitted
          /\ Grown(v, line).collecting = [v.collecting EXCEPT !.env = Put(v.collecting.env, line[2], line[3])]
      BY GrownShape DEF SameAccounts
    <3> QED BY <1>1, <3>1, <3>2 DEF SameParser
  <2> QED BY <2>1, <2>2
<1>5. CASE w.collecting # NoEvent /\ line[1] = "END"
  BY <1>1, <1>2, <1>5, OnLineIs
<1>6. CASE w.collecting # NoEvent /\ line[1] \notin {"ENV", "END"}
  <2>1. /\ onLine(w, line, now) = dataHandler(Told(w, now), line, now)
        /\ onLine(v, line, later) = dataHandler(Told(v, later), line, later)
    BY <1>1, <1>6, OnLineIs
  <2> QED BY <1>2, <2>1, DataHandlerSame
<1> QED BY <1>3, <1>4, <1>5, <1>6

\* A worker whose buffer is empty.
Emptied(w) == [w EXCEPT !.buf = <<>>]

\* The cases of a word: it ends the line or is buffered.
LEMMA OnWordIs ==
  ASSUME NEW w, IsWorker(w), NEW word, NEW now
  PROVE  /\ IsWorker(Emptied(w)) /\ SameAccounts(w, Emptied(w))
         /\ Emptied(w).buf = <<>> /\ Emptied(w).collecting = w.collecting
         /\ word = NL => onWord(w, word, now) = onLine(Emptied(w), w.buf, now)
         /\ word # NL => /\ SameAccounts(w, onWord(w, word, now))
                         /\ onWord(w, word, now).buf = Append(w.buf, word)
                         /\ onWord(w, word, now).collecting = w.collecting
<1>1. /\ IsWorker(Emptied(w)) /\ SameAccounts(w, Emptied(w))
      /\ Emptied(w).buf = <<>> /\ Emptied(w).collecting = w.collecting
  BY DEF IsWorker, SameAccounts, Emptied
<1>2. word = NL => onWord(w, word, now) = onLine(Emptied(w), w.buf, now)
  BY DEF onWord, Emptied
<1>3. ASSUME word # NL
      PROVE  /\ SameAccounts(w, onWord(w, word, now))
             /\ onWord(w, word, now).buf = Append(w.buf, word)
             /\ onWord(w, word, now).collecting = w.collecting
  BY <1>3 DEF onWord, IsWorker, SameAccounts
<1> QED BY <1>1, <1>2, <1>3

\* ... nor a word.
LEMMA WordSame ==
  ASSUME NEW w, IsWorker(w), NEW v, IsWorker(v), SameParser(w, v), NEW word, NEW now, NEW later
  PROVE  SameParser(onWord(w, word, now), onWord(v, word, later))
<1>1. CASE word = NL
  <2>1. /\ IsWorker(Emptied(w)) /\ IsWorker(Emptied(v))
        /\ onWord(w, word, now) = onLine(Emptied(w), w.buf, now)
        /\ onWord(v, word, later) = onLine(Emptied(v), v.buf, later)
    BY <1>1, OnWordIs
  <2>2. SameParser(Emptied(w), Emptied(v)) /\ v.buf = w.buf
    BY OnWordIs DEF SameParser, SameAccounts
  <2> QED BY <2>1, <2>2, LineSame
<1>2. CASE word # NL
  <2>1. /\ onWord(w, word, now).buf = Append(w.buf, word)
        /\ onWord(w, word, now).collecting = w.collecting
        /\ onWord(w, word, now).emitted = w.emitted
    BY <1>2, OnWordIs DEF SameAccounts
  <2>2. /\ onWord(v, word, later).buf = Append(v.buf, word)
        /\ onWord(v, word, later).collecting = v.collecting
        /\ onWord(v, word, later).emitted = v.emitted
    BY <1>2, OnWordIs DEF SameAccounts
  <2> QED BY <2>1, <2>2 DEF SameParser
<1> QED BY <1>1, <1>2

\* So what a chunk is parsed to does not depend on when it comes.
LEMMA ReceivedSame ==
  ASSUME NEW w, IsWorker(w), NEW words, Len(words) \in Nat, NEW now, NEW later
  PROVE  SameParser(Received(w, words, now), Received(w, words, later))
<1>1. PICK f : Steps(f, w, words, now, Len(words)) /\ Received(w, words, now) = f[Len(words)]
  BY ReceivedRun
<1>2. PICK g : Steps(g, w, words, later, Len(words)) /\ Received(w, words, later) = g[Len(words)]
  BY ReceivedRun
<1> DEFINE n == Len(words)
<1>3. n \in Nat /\ Steps(f, w, words, now, n) /\ Steps(g, w, words, later, n)
  BY <1>1, <1>2
<1>4. Received(w, words, now) = f[n] /\ Received(w, words, later) = g[n]
  BY <1>1, <1>2
<1> HIDE DEF n
<1>5. \A k \in 0 .. n : IsWorker(f[k]) /\ IsWorker(g[k])
  BY <1>3, RunShape
<1> DEFINE T == {k \in Nat : k <= n => SameParser(f[k], g[k])}
<1>6. 0 \in T
  BY <1>3 DEF Steps, SameParser
<1>7. ASSUME NEW k \in T PROVE k + 1 \in T
  <2> SUFFICES ASSUME k + 1 <= n PROVE SameParser(f[k + 1], g[k + 1])
    OBVIOUS
  <2>1. k \in 0 .. n /\ k + 1 \in 1 .. n /\ (k + 1) - 1 = k /\ SameParser(f[k], g[k])
    BY <1>3
  <2>2. /\ f[k + 1] = onWord(f[(k + 1) - 1], words[k + 1], now)
        /\ g[k + 1] = onWord(g[(k + 1) - 1], words[k + 1], later)
    BY <1>3, <2>1 DEF Steps
  <2>3. f[k + 1] = onWord(f[k], words[k + 1], now) /\ g[k + 1] = onWord(g[k], words[k + 1], later)
    BY <2>1, <2>2
  <2> QED BY <1>5, <2>1, <2>3, WordSame
<1>8. T = Nat
  BY <1>6, <1>7, SetInduction
<1> QED BY <1>3, <1>4, <1>8

-----------------------------------------------------------------------------
(***************************************************************************)
(* What is read of a line, and of a message.                               *)
(***************************************************************************)

\* What may be in a line.
Words ==
  Cids \cup {UuidOf[c] : c \in Cids} \cup (0 .. MaxBytes) \cup {1}
    \cup {"LOG", "message", "BYTECOUNT_CLI", "ENV", "common_name", "time_duration", "END",
          "ESTABLISHED", "ADDRESS", "DISCONNECT", "REAUTH"}

\* No word is a line break.
LEMMA NoBreak == NL \notin Words
BY ManagementAssumption DEF Words

\* The words are buffered until the line ends.
Buffered(v, buf) == [v EXCEPT !.buf = buf]

\* Buffering replaces the buffer and nothing else.
LEMMA BufferedShape ==
  ASSUME NEW v, IsWorker(v), NEW buf
  PROVE  /\ IsWorker(Buffered(v, buf)) /\ Buffered(v, buf).buf = buf
         /\ \A more : Buffered(Buffered(v, buf), more) = Buffered(v, more)
         /\ v.buf = buf => Buffered(v, buf) = v
<1>1. IsWorker(Buffered(v, buf)) /\ Buffered(v, buf).buf = buf
  BY DEF IsWorker, Buffered
<1>2. ASSUME NEW more PROVE Buffered(Buffered(v, buf), more) = Buffered(v, more)
  BY DEF IsWorker, Buffered
<1>3. ASSUME v.buf = buf PROVE Buffered(v, buf) = v
  BY <1>3 DEF IsWorker, Buffered
<1> QED BY <1>1, <1>2, <1>3

\* A prefix grows by a word at a time.
LEMMA PrefixGrows ==
  ASSUME NEW S, NEW s \in Seq(S)
  PROVE  /\ Len(s) \in Nat /\ SubSeq(s, 1, 0) = <<>> /\ SubSeq(s, 1, Len(s)) = s
         /\ \A k \in 1 .. Len(s) : Append(SubSeq(s, 1, k - 1), s[k]) = SubSeq(s, 1, k)
<1>1. Len(s) \in Nat
  OBVIOUS
<1>2. SubSeq(s, 1, 0) = <<>>
  OBVIOUS
<1>3. SubSeq(s, 1, Len(s)) = s
  BY SubSeqFull
<1>4. ASSUME NEW k \in 1 .. Len(s) PROVE Append(SubSeq(s, 1, k - 1), s[k]) = SubSeq(s, 1, k)
  <2> DEFINE p == SubSeq(s, 1, k - 1)
             q == SubSeq(s, 1, k)
             r == Append(p, s[k])
  <2>1. s[k] \in S
    BY ElementOfSeq
  <2>2. p \in Seq(S) /\ Len(p) = k - 1 /\ \A i \in 1 .. k - 1 : p[i] = s[i]
    BY <1>1, SubSeqProperties
  <2>3. q \in Seq(S) /\ Len(q) = k /\ \A i \in 1 .. k : q[i] = s[i]
    BY <1>1, SubSeqProperties
  <2> HIDE DEF p, q
  <2>4. r \in Seq(S) /\ Len(r) = k /\ \A i \in 1 .. k : r[i] = s[i]
    BY <1>1, <2>1, <2>2
  <2> HIDE DEF r
  <2>5. r = q
    BY <1>1, <2>3, <2>4, SeqEqual
  <2> QED BY <2>5 DEF p, q, r
<1> QED BY <1>1, <1>2, <1>3, <1>4

\* A line that comes when the buffer is empty is handed on whole.
LEMMA LineReceived ==
  ASSUME NEW v, IsWorker(v), v.buf = <<>>, NEW line \in Seq(Words), NEW now
  PROVE  /\ Received(v, Line(line), now) = onLine(v, line, now)
         /\ IsWorker(onLine(v, line, now)) /\ onLine(v, line, now).buf = <<>>
<1> DEFINE n == Len(line)
           f == [k \in 0 .. n + 1 |-> IF k <= n THEN Buffered(v, SubSeq(line, 1, k))
                                                ELSE onLine(v, line, now)]
<1>1. /\ n \in Nat /\ Line(line) \in Seq(Words \cup {NL}) /\ Len(Line(line)) = n + 1
      /\ Line(line)[n + 1] = NL /\ \A i \in 1 .. n : Line(line)[i] = line[i] /\ line[i] \in Words
  <2>1. line \in Seq(Words \cup {NL})
    BY SeqMonotonic
  <2> QED BY <2>1, ElementOfSeq DEF Line
<1>2. f[0] = v
  <2>1. SubSeq(line, 1, 0) = <<>>
    BY PrefixGrows
  <2>2. f[0] = Buffered(v, SubSeq(line, 1, 0))
    BY <1>1
  <2> HIDE DEF f
  <2> QED BY <2>1, <2>2, BufferedShape
<1>3. ASSUME NEW k \in 1 .. n + 1 PROVE f[k] = onWord(f[k - 1], Line(line)[k], now)
  <2> DEFINE u == Buffered(v, SubSeq(line, 1, k - 1))
  <2>1. f[k - 1] = u
    BY <1>1
  <2>2. IsWorker(u) /\ u.buf = SubSeq(line, 1, k - 1) /\ \A more : Buffered(u, more) = Buffered(v, more)
    BY BufferedShape
  <2> HIDE DEF u
  <2>3. CASE k <= n
    <3>1. k \in 1 .. n /\ Line(line)[k] = line[k] /\ line[k] # NL
      BY <1>1, <2>3, NoBreak
    <3>2. onWord(u, line[k], now) = Buffered(u, Append(SubSeq(line, 1, k - 1), line[k]))
      BY <2>2, <3>1 DEF onWord, Buffered
    <3>3. Append(SubSeq(line, 1, k - 1), line[k]) = SubSeq(line, 1, k)
      BY <3>1, PrefixGrows
    <3>4. f[k] = Buffered(v, SubSeq(line, 1, k))
      BY <1>1, <3>1
    <3> HIDE DEF f
    <3> QED BY <2>1, <2>2, <3>1, <3>2, <3>3, <3>4
  <2>4. CASE k = n + 1
    <3>1. Line(line)[k] = NL /\ f[k] = onLine(v, line, now)
      BY <1>1, <2>4
    <3>2. u.buf = line
      <4>1. k - 1 = n
        BY <1>1, <2>4
      <4>2. SubSeq(line, 1, n) = line
        BY PrefixGrows
      <4> QED BY <2>2, <4>1, <4>2
    <3>3. onWord(u, NL, now) = onLine(Buffered(u, <<>>), u.buf, now)
      BY DEF onWord, Buffered
    <3>4. Buffered(u, <<>>) = v
      BY <2>2, BufferedShape
    <3> HIDE DEF f
    <3> QED BY <2>1, <3>1, <3>2, <3>3, <3>4
  <2> QED BY <1>1, <2>3, <2>4
<1>4. Steps(f, v, Line(line), now, n + 1)
  <2> HIDE DEF f
  <2> QED BY <1>2, <1>3 DEF Steps
<1>5. f[n + 1] = onLine(v, line, now)
  BY <1>1
<1>6. Len(Line(line)) \in Nat /\ Steps(f, v, Line(line), now, Len(Line(line)))
  <2> HIDE DEF f
  <2> QED BY <1>1, <1>4
<1>7. Received(v, Line(line), now) = f[Len(Line(line))]
  <2> HIDE DEF f
  <2> QED BY <1>6, ReceivedIs
<1>8. Received(v, Line(line), now) = onLine(v, line, now)
  <2> HIDE DEF f
  <2> QED BY <1>1, <1>5, <1>7
<1> QED BY <1>8, LineShape

Text == Words \cup {NL}

\* A line is part of what OpenVPN sends.
LEMMA LineIsText ==
  ASSUME NEW line \in Seq(Words)
  PROVE  Line(line) \in Seq(Text)
<1>1. line \in Seq(Text)
  BY SeqMonotonic DEF Text
<1>2. NL \in Text
  BY DEF Text
<1> QED BY <1>1, <1>2 DEF Line

\* A worker that holds no event.
IsFree(v, events) ==
  IsWorker(v) /\ v.buf = <<>> /\ v.collecting = NoEvent /\ v.emitted = events

\* One that holds an event and its environment so far.
Holds(v, events, type, cid, env) ==
  /\ IsWorker(v) /\ v.buf = <<>> /\ v.emitted = events
  /\ v.collecting = [event |-> type, cid |-> cid, env |-> env]

\* A worker that holds nothing has read all.
LEMMA FreeAllIsRead ==
  ASSUME NEW v, NEW events, IsFree(v, events)
  PROVE  AllIsRead(v, events)
BY DEF IsFree, AllIsRead

\* The first line of a message ends an ADDRESS that is held.
LEMMA FirstLine ==
  ASSUME NEW w, IsWorker(w), NEW events, AllIsRead(w, events), NEW now,
         NEW line \in Seq(Words), line[1] \notin {"ENV", "END"}
  PROVE  \E v : IsFree(v, events) /\ Received(w, Line(line), now) = dataHandler(v, line, now)
<1>1. w.buf = <<>>
  BY DEF AllIsRead
<1>2. Received(w, Line(line), now) = onLine(w, line, now)
  BY <1>1, LineReceived
<1>3. CASE w.collecting = NoEvent
  <2>1. IsFree(w, events)
    BY <1>1, <1>3 DEF AllIsRead, IsFree, NoEvent
  <2>2. onLine(w, line, now) = dataHandler(w, line, now)
    BY <1>3, OnLineIs
  <2> QED BY <1>2, <2>1, <2>2
<1>4. CASE w.collecting # NoEvent
  <2>1. events = Append(w.emitted, w.collecting)
    BY <1>4 DEF AllIsRead
  <2>2. /\ IsWorker(Told(w, now)) /\ Told(w, now).buf = w.buf /\ Told(w, now).collecting = NoEvent
        /\ Told(w, now).emitted = Append(w.emitted, w.collecting)
    BY ToldShape
  <2>3. IsFree(Told(w, now), events)
    BY <1>1, <2>1, <2>2 DEF IsFree
  <2>4. onLine(w, line, now) = dataHandler(Told(w, now), line, now)
    BY <1>4, OnLineIs
  <2> QED BY <1>2, <2>3, <2>4
<1> QED BY <1>3, <1>4

\* Lines while no event is held.
LEMMA LineOfOther ==
  ASSUME NEW v, NEW events, IsFree(v, events), NEW now, NEW line \in Seq(Words),
         line[1] \notin EventTypes \cup {"LOG", "BYTECOUNT_CLI"}
  PROVE  dataHandler(v, line, now) = v /\ Received(v, Line(line), now) = v
<1>1. IsWorker(v) /\ v.buf = <<>> /\ v.collecting = NoEvent
  BY DEF IsFree
<1>2. dataHandler(v, line, now) = v
  BY DataHandlerIs
<1> QED BY <1>1, <1>2, LineReceived, OnLineIs

\* An event that needs no environment is emitted at once.
LEMMA Emits ==
  ASSUME NEW v, NEW events, IsFree(v, events), NEW e, NEW now
  PROVE  IsFree(emit(v, e, now), Append(events, e))
<1>1. IsWorker(v) /\ v.buf = <<>> /\ v.collecting = NoEvent /\ v.emitted = events
  BY DEF IsFree
<1>2. /\ IsWorker(emit(v, e, now))
      /\ emit(v, e, now).buf = v.buf /\ emit(v, e, now).collecting = v.collecting
      /\ emit(v, e, now).emitted = Append(v.emitted, e)
  BY <1>1, EmitShape
<1> QED BY <1>1, <1>2 DEF IsFree

\* The first line of a client event installs the listener.
LEMMA StartsToHold ==
  ASSUME NEW v, NEW events, IsFree(v, events), NEW type \in EventTypes, NEW cid, NEW now
  PROVE  Holds(dataHandler(v, <<type, cid>>, now), events, type, cid, <<>>)
<1> DEFINE line == <<type, cid>>
<1>1. IsWorker(v) /\ v.buf = <<>> /\ v.emitted = events
  BY DEF IsFree
<1>2. line[1] = type /\ line[2] = cid
  OBVIOUS
<1> HIDE DEF line
<1>3. dataHandler(v, line, now) = Collects(v, line)
  BY <1>2, DataHandlerIs DEF Collects
<1>4. /\ IsWorker(Collects(v, line)) /\ Collects(v, line).emitted = v.emitted
      /\ Collects(v, line).buf = v.buf
      /\ Collects(v, line).collecting = [event |-> line[1], cid |-> line[2], env |-> <<>>]
  BY <1>1, CollectsShape DEF SameAccounts
<1>5. Holds(dataHandler(v, line, now), events, type, cid, <<>>)
  BY <1>1, <1>2, <1>3, <1>4 DEF Holds
<1> QED BY <1>5 DEF line

\* A line of the environment is added to the event that is held.
LEMMA HoldsMore ==
  ASSUME NEW v, NEW events, NEW type, NEW cid, NEW env, Holds(v, events, type, cid, env), NEW now,
         NEW line \in Seq(Words), line[1] = "ENV", type # "none"
  PROVE  Holds(Received(v, Line(line), now), events, type, cid, Put(env, line[2], line[3]))
<1>1. IsWorker(v) /\ v.buf = <<>> /\ v.emitted = events
  BY DEF Holds
<1>2. v.collecting = [event |-> type, cid |-> cid, env |-> env]
  BY DEF Holds
<1>3. v.collecting # NoEvent
  BY <1>2 DEF NoEvent
<1>4. Received(v, Line(line), now) = onLine(v, line, now)
  BY <1>1, LineReceived
<1>5. Received(v, Line(line), now) = Grown(v, line)
  BY <1>1, <1>3, <1>4, OnLineIs
<1>6. /\ IsWorker(Grown(v, line)) /\ Grown(v, line).emitted = v.emitted /\ Grown(v, line).buf = v.buf
      /\ Grown(v, line).collecting =
           [v.collecting EXCEPT !.env = Put(v.collecting.env, line[2], line[3])]
  BY <1>1, GrownShape DEF SameAccounts
<1> DEFINE more == Put(env, line[2], line[3])
<1>7. Grown(v, line).collecting = [v.collecting EXCEPT !.env = more]
  BY <1>2, <1>6
<1> HIDE DEF more
<1>8. Grown(v, line).collecting = [event |-> type, cid |-> cid, env |-> more]
  BY <1>2, <1>7
<1>9. Holds(Grown(v, line), events, type, cid, more)
  BY <1>1, <1>6, <1>8 DEF Holds
<1> QED BY <1>5, <1>9 DEF more

\* The END line emits it with all of its environment.
LEMMA HoldsUntilEnd ==
  ASSUME NEW v, NEW events, NEW type, NEW cid, NEW env, Holds(v, events, type, cid, env), NEW now,
         type # "none"
  PROVE  IsFree(Received(v, Line(<<"END">>), now),
                Append(events, [event |-> type, cid |-> cid, env |-> env]))
<1> DEFINE line == <<"END">>
<1>1. IsWorker(v) /\ v.buf = <<>> /\ v.emitted = events
  BY DEF Holds
<1>2. v.collecting = [event |-> type, cid |-> cid, env |-> env]
  BY DEF Holds
<1>3. v.collecting # NoEvent
  BY <1>2 DEF NoEvent
<1>4. line \in Seq(Words) /\ line[1] = "END"
  BY DEF Words
<1> HIDE DEF line
<1>5. Received(v, Line(line), now) = onLine(v, line, now)
  BY <1>1, <1>4, LineReceived
<1>6. Received(v, Line(line), now) = Told(v, now)
  BY <1>1, <1>3, <1>4, <1>5, OnLineIs
<1>7. /\ IsWorker(Told(v, now)) /\ Told(v, now).buf = v.buf /\ Told(v, now).collecting = NoEvent
      /\ Told(v, now).emitted = Append(v.emitted, v.collecting)
  BY <1>1, ToldShape
<1>8. IsFree(Told(v, now), Append(events, [event |-> type, cid |-> cid, env |-> env]))
  BY <1>1, <1>2, <1>7 DEF IsFree
<1> QED BY <1>6, <1>8 DEF line

\* The lines OpenVPN sends are made of words.
LEMMA MessageWords ==
  ASSUME NEW cid \in Cids
  PROVE  /\ \A type \in Notices : <<type, cid>> \in Seq(Words)
         /\ <<"ENV", "common_name", UuidOf[cid]>> \in Seq(Words)
         /\ <<"ENV", "time_duration", 1>> \in Seq(Words)
         /\ <<"END">> \in Seq(Words)
         /\ \A n \in 0 .. MaxBytes : <<"BYTECOUNT_CLI", cid, n>> \in Seq(Words)
<1>1. cid \in Words /\ UuidOf[cid] \in Words /\ 1 \in Words /\ 0 .. MaxBytes \subseteq Words
  BY DEF Words
<1>2. {"ENV", "common_name", "time_duration", "END", "BYTECOUNT_CLI"} \cup Notices \subseteq Words
  BY DEF Words, Notices
<1> QED BY <1>1, <1>2

\* Its messages are text.
LEMMA EnvIsText ==
  ASSUME NEW cid \in Cids
  PROVE  /\ \A type \in Notices : EnvLines(type, cid) \in Seq(Text)
         /\ \A type \in Notices :
              Line(<<type, cid>>) \in Seq(Text) /\ Line(<<type, cid>>) \o EnvLines(type, cid) \in Seq(Text)
         /\ Line(<<"ENV", "common_name", UuidOf[cid]>>) \in Seq(Text)
         /\ Line(<<"ENV", "time_duration", 1>>) \in Seq(Text)
         /\ Line(<<"END">>) \in Seq(Text)
<1>1. /\ Line(<<"ENV", "common_name", UuidOf[cid]>>) \in Seq(Text)
      /\ Line(<<"ENV", "time_duration", 1>>) \in Seq(Text)
      /\ Line(<<"END">>) \in Seq(Text)
      /\ \A type \in Notices : Line(<<type, cid>>) \in Seq(Text)
  BY MessageWords, LineIsText
<1>2. ASSUME NEW type \in Notices PROVE EnvLines(type, cid) \in Seq(Text)
  <2>1. CASE type = "ADDRESS"
    BY <2>1 DEF EnvLines
  <2>2. CASE type = "DISCONNECT"
    <3>1. EnvLines(type, cid) = Line(<<"ENV", "common_name", UuidOf[cid]>>)
                                \o Line(<<"ENV", "time_duration", 1>>) \o Line(<<"END">>)
      BY <2>2 DEF EnvLines
    <3> QED BY <1>1, <3>1, ConcatProperties
  <2>3. CASE type \notin {"ADDRESS", "DISCONNECT"}
    <3>1. EnvLines(type, cid) = Line(<<"ENV", "common_name", UuidOf[cid]>>) \o Line(<<"END">>)
      BY <2>3 DEF EnvLines
    <3> QED BY <1>1, <3>1, ConcatProperties
  <2> QED BY <2>1, <2>2, <2>3
<1>3. ASSUME NEW type \in Notices
      PROVE  Line(<<type, cid>>) \o EnvLines(type, cid) \in Seq(Text)
  BY <1>1, <1>2, ConcatProperties
<1> QED BY <1>1, <1>2, <1>3

\* A LOG message is read as one event.
LEMMA LogRead ==
  ASSUME NEW w, IsWorker(w), NEW events, AllIsRead(w, events), NEW now
  PROVE  AllIsRead(Received(w, Line(<<"LOG", "message">>), now), Append(events, [event |-> "LOG"]))
<1> DEFINE line == <<"LOG", "message">>
           e == [event |-> "LOG"]
<1>1. line \in Seq(Words) /\ line[1] = "LOG"
  BY DEF Words
<1> HIDE DEF line
<1>2. PICK v : IsFree(v, events) /\ Received(w, Line(line), now) = dataHandler(v, line, now)
  BY <1>1, FirstLine
<1>3. dataHandler(v, line, now) = emit(v, e, now)
  BY <1>1, DataHandlerIs
<1> HIDE DEF e
<1>4. IsFree(emit(v, e, now), Append(events, e))
  BY <1>2, Emits
<1>5. AllIsRead(Received(w, Line(line), now), Append(events, e))
  BY <1>2, <1>3, <1>4, FreeAllIsRead
<1> QED BY <1>5 DEF line, e

\* A BYTECOUNT_CLI message is read as one event.
LEMMA BytecountRead ==
  ASSUME NEW w, IsWorker(w), NEW events, AllIsRead(w, events), NEW now,
         NEW cid \in Cids, NEW n \in 0 .. MaxBytes
  PROVE  AllIsRead(Received(w, Line(<<"BYTECOUNT_CLI", cid, n>>), now), Append(events, Bytecount(cid, n)))
<1> DEFINE line == <<"BYTECOUNT_CLI", cid, n>>
<1>1. line \in Seq(Words) /\ line[1] = "BYTECOUNT_CLI" /\ line[2] = cid /\ line[3] = n
  BY MessageWords
<1> HIDE DEF line
<1>2. PICK v : IsFree(v, events) /\ Received(w, Line(line), now) = dataHandler(v, line, now)
  BY <1>1, FirstLine
<1>3. dataHandler(v, line, now) = emit(v, Bytecount(cid, n), now)
  BY <1>1, DataHandlerIs
<1>4. IsFree(emit(v, Bytecount(cid, n), now), Append(events, Bytecount(cid, n)))
  BY <1>2, Emits
<1>5. AllIsRead(Received(w, Line(line), now), Append(events, Bytecount(cid, n)))
  BY <1>2, <1>3, <1>4, FreeAllIsRead
<1> QED BY <1>5 DEF line

\* A client event is read to its end.
LEMMA NoticeRead ==
  ASSUME NEW w, IsWorker(w), NEW events, AllIsRead(w, events), NEW now,
         NEW cid \in Cids, NEW type \in EventTypes \cap Notices
  PROVE  AllIsRead(Received(w, Line(<<type, cid>>) \o EnvLines(type, cid), now),
                   Append(events, Notice(type, cid)))
<1> DEFINE line == <<type, cid>>
           name == <<"ENV", "common_name", UuidOf[cid]>>
           time == <<"ENV", "time_duration", 1>>
           end == <<"END">>
           u == Received(w, Line(line), now)
<1>1. type \in Notices /\ type \in EventTypes /\ type # "none"
  BY DEF EventTypes
<1>2. line \in Seq(Words) /\ line[1] = type /\ type \notin {"ENV", "END"}
  BY <1>1, MessageWords DEF EventTypes
<1>3. /\ name \in Seq(Words) /\ name[1] = "ENV" /\ name[2] = "common_name" /\ name[3] = UuidOf[cid]
      /\ time \in Seq(Words) /\ time[1] = "ENV" /\ time[2] = "time_duration" /\ time[3] = 1
  BY MessageWords
<1>4. /\ Line(line) \in Seq(Text) /\ EnvLines(type, cid) \in Seq(Text)
      /\ Line(name) \in Seq(Text) /\ Line(time) \in Seq(Text) /\ Line(end) \in Seq(Text)
  BY <1>1, EnvIsText
<1>5. Received(w, Line(line) \o EnvLines(type, cid), now) = Received(u, EnvLines(type, cid), now)
  <2> HIDE DEF line
  <2> QED BY <1>4, ReceivedConcat
<1>6. Holds(u, events, type, cid, <<>>)
  <2>1. PICK v : IsFree(v, events) /\ Received(w, Line(line), now) = dataHandler(v, line, now)
    <3> HIDE DEF line
    <3> QED BY <1>2, FirstLine
  <2>2. Holds(dataHandler(v, line, now), events, type, cid, <<>>)
    BY <1>1, <2>1, StartsToHold
  <2> QED BY <2>1, <2>2
<1> HIDE DEF line, u, name, time, end
<1>7. CASE type = "ADDRESS"
  <2>1. EnvLines(type, cid) = <<>> /\ EnvOf(type, cid) = <<>>
    BY <1>7 DEF EnvLines, EnvOf
  <2>2. u.collecting = Notice(type, cid) /\ u.collecting.event = "ADDRESS" /\ u.buf = <<>>
    BY <1>6, <1>7, <2>1 DEF Holds, Notice
  <2>3. u.emitted = events
    BY <1>6 DEF Holds
  <2>4. AllIsRead(u, Append(events, Notice(type, cid)))
    BY <2>2, <2>3 DEF AllIsRead
  <2>5. Received(u, <<>>, now) = u
    BY NothingReceived
  <2> QED BY <1>5, <2>1, <2>4, <2>5 DEF line
<1>8. CASE type = "DISCONNECT"
  <2> DEFINE v == Received(u, Line(name), now)
             x == Received(v, Line(time), now)
  <2>1. /\ EnvLines(type, cid) = Line(name) \o Line(time) \o Line(end)
        /\ EnvOf(type, cid) = Put(Put(<<>>, "common_name", UuidOf[cid]), "time_duration", 1)
    BY <1>8 DEF EnvLines, EnvOf, name, time, end
  <2>2. Holds(v, events, type, cid, Put(<<>>, name[2], name[3]))
    BY <1>1, <1>3, <1>6, HoldsMore
  <2>3. Received(u, Line(name) \o Line(time), now) = x /\ Line(name) \o Line(time) \in Seq(Text)
    BY <1>4, ReceivedConcat, ConcatProperties
  <2>4. Received(u, EnvLines(type, cid), now) = Received(x, Line(end), now)
    <3> DEFINE first == Line(name) \o Line(time)
    <3>1. first \in Seq(Text) /\ Received(u, first, now) = x /\ EnvLines(type, cid) = first \o Line(end)
      BY <2>1, <2>3
    <3> HIDE DEF x, first
    <3>2. Received(u, first \o Line(end), now) = Received(Received(u, first, now), Line(end), now)
      BY <1>4, <3>1, ReceivedConcat
    <3> QED BY <3>1, <3>2
  <2>5. Holds(x, events, type, cid, Put(Put(<<>>, name[2], name[3]), time[2], time[3]))
    <3> HIDE DEF v
    <3> QED BY <1>1, <1>3, <2>2, HoldsMore
  <2> HIDE DEF x
  <2>6. Holds(x, events, type, cid, EnvOf(type, cid))
    BY <1>3, <2>1, <2>5
  <2>7. IsFree(Received(x, Line(end), now), Append(events, Notice(type, cid)))
    BY <1>1, <2>6, HoldsUntilEnd DEF Notice, end
  <2> QED BY <1>5, <2>4, <2>7, FreeAllIsRead DEF line
<1>9. CASE type \notin {"ADDRESS", "DISCONNECT"}
  <2> DEFINE v == Received(u, Line(name), now)
  <2>1. /\ EnvLines(type, cid) = Line(name) \o Line(end)
        /\ EnvOf(type, cid) = Put(<<>>, "common_name", UuidOf[cid])
    BY <1>9 DEF EnvLines, EnvOf, name, end
  <2>2. Holds(v, events, type, cid, Put(<<>>, name[2], name[3]))
    BY <1>1, <1>3, <1>6, HoldsMore
  <2>3. Received(u, EnvLines(type, cid), now) = Received(v, Line(end), now)
    BY <1>4, <2>1, ReceivedConcat
  <2> HIDE DEF v
  <2>4. Holds(v, events, type, cid, EnvOf(type, cid))
    BY <1>3, <2>1, <2>2
  <2>5. IsFree(Received(v, Line(end), now), Append(events, Notice(type, cid)))
    BY <1>1, <2>4, HoldsUntilEnd DEF Notice, end
  <2> QED BY <1>5, <2>3, <2>5, FreeAllIsRead DEF line
<1> QED BY <1>7, <1>8, <1>9

\* A client event that is not listened for leaves no trace.
LEMMA ReauthRead ==
  ASSUME NEW w, IsWorker(w), NEW events, AllIsRead(w, events), NEW now,
         NEW cid \in Cids, NEW type \in Notices \ EventTypes
  PROVE  AllIsRead(Received(w, Line(<<type, cid>>) \o EnvLines(type, cid), now), events)
<1> DEFINE line == <<type, cid>>
           name == <<"ENV", "common_name", UuidOf[cid]>>
           end == <<"END">>
<1>1. type = "REAUTH"
  BY DEF Notices, EventTypes
<1>2. /\ line \in Seq(Words) /\ line[1] \notin {"ENV", "END"}
      /\ line[1] \notin EventTypes \cup {"LOG", "BYTECOUNT_CLI"}
  BY <1>1, MessageWords DEF EventTypes
<1>3. /\ name \in Seq(Words) /\ name[1] \notin EventTypes \cup {"LOG", "BYTECOUNT_CLI"}
      /\ end \in Seq(Words) /\ end[1] \notin EventTypes \cup {"LOG", "BYTECOUNT_CLI"}
  BY MessageWords DEF EventTypes
<1>4. /\ Line(line) \in Seq(Text) /\ EnvLines(type, cid) \in Seq(Text)
      /\ Line(name) \in Seq(Text) /\ Line(end) \in Seq(Text)
  BY EnvIsText
<1>5. EnvLines(type, cid) = Line(name) \o Line(end)
  BY <1>1 DEF EnvLines
<1> HIDE DEF line, name, end
<1>6. PICK v : IsFree(v, events) /\ Received(w, Line(line), now) = dataHandler(v, line, now)
  BY <1>2, FirstLine
<1>7. dataHandler(v, line, now) = v
  BY <1>2, <1>6, LineOfOther
<1>8. Received(v, Line(name), now) = v /\ Received(v, Line(end), now) = v
  BY <1>3, <1>6, LineOfOther
<1>9. Received(v, EnvLines(type, cid), now) = v
  BY <1>4, <1>5, <1>8, ReceivedConcat
<1>10. Received(w, Line(line) \o EnvLines(type, cid), now) = v
  BY <1>4, <1>6, <1>7, <1>9, ReceivedConcat
<1> QED BY <1>6, <1>10, FreeAllIsRead DEF line

-----------------------------------------------------------------------------
(***************************************************************************)
(* The accounts of the clients.                                            *)
(***************************************************************************)
AccountsOK(w) ==
  /\ DOMAIN w.clientCache \subseteq Cids
  /\ \A c \in DOMAIN w.clientCache : w.clientCache[c] \in Entry
  /\ w.rxBytes \in Nat
  /\ w.sampled \in [Cids -> [bytes : Nat, time : Nat]]

Counted(w) == w.rxBytes = Cardinality(Reported(w))

Good(w, now) ==
  AccountsOK(w) /\ CacheFollowsEvents(w) /\ SamplesFollowCache(w, now) /\ Counted(w)

\* What leaves the accounts alone keeps them right.
LEMMA SameIsGood ==
  ASSUME NEW w, NEW v, NEW now, SameAccounts(w, v), Good(w, now)
  PROVE  Good(v, now)
<1>1. AccountsOK(v)
  BY DEF Good, AccountsOK, SameAccounts
<1>2. CacheFollowsEvents(v)
  BY DEF Good, CacheFollowsEvents, SameAccounts
<1>3. SamplesFollowCache(v, now)
  BY DEF Good, SamplesFollowCache, SameAccounts
<1>4. Counted(v)
  BY DEF Good, Counted, Reported, SameAccounts
<1> QED BY <1>1, <1>2, <1>3, <1>4 DEF Good

\* t is s and then e.
Grows(s, t, e) ==
  /\ \A k \in DOMAIN s : k \in DOMAIN t /\ k # Len(s) + 1 /\ t[k] = s[k]
  /\ \A k \in DOMAIN t : k # Len(s) + 1 => k \in DOMAIN s
  /\ Len(s) + 1 \in DOMAIN t /\ t[Len(s) + 1] = e

\* Append adds one element.
LEMMA AppendGrows ==
  ASSUME NEW s, IsSeq(s), NEW e
  PROVE  Grows(s, Append(s, e), e)
<1> DEFINE t == Append(s, e)
<1>1. /\ Len(s) \in Nat /\ DOMAIN s = 1 .. Len(s) /\ DOMAIN t = 1 .. Len(s) + 1
      /\ t[Len(s) + 1] = e /\ \A i \in 1 .. Len(s) : t[i] = s[i]
  BY AppendAny
<1> HIDE DEF t
<1>2. Grows(s, t, e)
  BY <1>1 DEF Grows
<1> QED BY <1>2 DEF t

\* An event that is of no concern to the accounts.
LEMMA EmitsOther ==
  ASSUME NEW w, IsWorker(w), NEW v, NEW e, NEW now, Good(w, now),
         v.emitted = Append(w.emitted, e), v.clientCache = w.clientCache,
         v.rxBytes = w.rxBytes, v.sampled = w.sampled,
         e.event # "ESTABLISHED",
         e.event # "BYTECOUNT_CLI" \/ e.cid \notin DOMAIN w.clientCache
  PROVE  Good(v, now)
<1> DEFINE s == w.emitted
           t == v.emitted
<1>1. IsSeq(s) /\ t = Append(s, e)
  BY EmittedIsSeq
<1>2. Grows(s, t, e)
  BY <1>1, AppendGrows
<1>3. AccountsOK(v)
  BY DEF Good, AccountsOK
<1>4. SamplesFollowCache(v, now)
  BY DEF Good, SamplesFollowCache
<1>5. Counted(v)
  BY DEF Good, Counted, Reported
<1>6. CacheFollowsEvents(w) /\ DOMAIN w.clientCache \subseteq Cids
  BY DEF Good, AccountsOK
<1>7. CacheFollowsEvents(v)
  <2>1. \A c \in Cids : c \in DOMAIN w.clientCache <=> \E j \in DOMAIN s : IsOf(s, "ESTABLISHED", c, j)
    BY <1>6 DEF CacheFollowsEvents
  <2>2. ASSUME NEW c \in DOMAIN w.clientCache
        PROVE  /\ \A j, k \in DOMAIN s :
                    /\ j < k
                    /\ IsOf(s, "ESTABLISHED", c, j)
                    /\ IsOf(s, "BYTECOUNT_CLI", c, k)
                    => s[k].bytes <= w.clientCache[c].bytes
               /\ \/ w.clientCache[c].bytes = 0
                  \/ \E k \in DOMAIN s : /\ IsOf(s, "BYTECOUNT_CLI", c, k)
                                         /\ s[k].bytes = w.clientCache[c].bytes
    BY <1>6 DEF CacheFollowsEvents
  <2> HIDE DEF s, t
  <2>3. ASSUME NEW c, NEW j \in DOMAIN t, IsOf(t, "ESTABLISHED", c, j)
        PROVE  j \in DOMAIN s /\ IsOf(s, "ESTABLISHED", c, j)
    BY <1>2, <2>3 DEF Grows, IsOf
  <2>4. ASSUME NEW c \in DOMAIN w.clientCache, NEW k \in DOMAIN t, IsOf(t, "BYTECOUNT_CLI", c, k)
        PROVE  k \in DOMAIN s /\ IsOf(s, "BYTECOUNT_CLI", c, k) /\ t[k] = s[k]
    BY <1>2, <2>4 DEF Grows, IsOf
  <2>5. ASSUME NEW c \in Cids
        PROVE  c \in DOMAIN w.clientCache <=> \E j \in DOMAIN t : IsOf(t, "ESTABLISHED", c, j)
    BY <1>2, <2>1, <2>3 DEF Grows, IsOf
  <2>6. ASSUME NEW c \in DOMAIN w.clientCache
        PROVE  \A j, k \in DOMAIN t :
                    /\ j < k
                    /\ IsOf(t, "ESTABLISHED", c, j)
                    /\ IsOf(t, "BYTECOUNT_CLI", c, k)
                    => t[k].bytes <= w.clientCache[c].bytes
    BY <2>2, <2>3, <2>4
  <2>7. ASSUME NEW c \in DOMAIN w.clientCache
        PROVE  \/ w.clientCache[c].bytes = 0
               \/ \E k \in DOMAIN t : /\ IsOf(t, "BYTECOUNT_CLI", c, k)
                                      /\ t[k].bytes = w.clientCache[c].bytes
    BY <1>2, <2>2 DEF Grows, IsOf
  <2> QED BY <2>5, <2>6, <2>7 DEF CacheFollowsEvents, t
<1> QED BY <1>3, <1>4, <1>5, <1>7 DEF Good

\* A client is established, which it was not before.
LEMMA EmitsEstablished ==
  ASSUME NEW w, IsWorker(w), NEW v, NEW e, NEW now \in 0 .. MaxClock, Good(w, now),
         NEW cid \in Cids \ DOMAIN w.clientCache,
         v.emitted = Append(w.emitted, e),
         v.clientCache = Put(w.clientCache, cid, [uuid |-> UuidOf[cid], bytes |-> 0, ts |-> now]),
         v.rxBytes = w.rxBytes, v.sampled = w.sampled,
         e.event = "ESTABLISHED", e.cid = cid
  PROVE  Good(v, now)
<1> DEFINE s == w.emitted
           t == v.emitted
           cache == w.clientCache
           D == DOMAIN w.clientCache
<1>1. IsSeq(s) /\ t = Append(s, e) /\ Len(s) \in Nat /\ DOMAIN t = 1 .. Len(s) + 1
  BY EmittedIsSeq, AppendAny
<1>2. Grows(s, t, e)
  BY <1>1, AppendGrows
<1>3. /\ DOMAIN v.clientCache = D \cup {cid}
      /\ v.clientCache[cid] = [uuid |-> UuidOf[cid], bytes |-> 0, ts |-> now]
      /\ \A c \in D : c # cid /\ v.clientCache[c] = cache[c]
  BY DEF Put
<1>4. D \subseteq Cids /\ \A c \in D : cache[c] \in Entry
  BY DEF Good, AccountsOK
<1>5. AccountsOK(v)
  <2>1. v.clientCache[cid] \in Entry
    BY <1>3, ManagementAssumption DEF Entry
  <2>2. \A c \in DOMAIN v.clientCache : v.clientCache[c] \in Entry
    BY <1>3, <1>4, <2>1
  <2> QED BY <1>3, <1>4, <2>2 DEF Good, AccountsOK
<1>6. SamplesFollowCache(v, now)
  <2>1. /\ \A c \in Cids \ D : w.sampled[c].bytes = 0 /\ w.sampled[c].time = 0
        /\ \A c \in D : /\ cache[c].ts <= now
                        /\ w.sampled[c].bytes <= cache[c].bytes
                        /\ w.sampled[c].time <= cache[c].ts
    BY DEF Good, SamplesFollowCache
  <2>2. ASSUME NEW c \in DOMAIN v.clientCache
        PROVE  /\ v.clientCache[c].ts <= now
               /\ v.sampled[c].bytes <= v.clientCache[c].bytes
               /\ v.sampled[c].time <= v.clientCache[c].ts
    <3>1. CASE c \in D
      BY <1>3, <2>1, <3>1
    <3>2. CASE c = cid
      BY <1>3, <2>1, <3>2
    <3> QED BY <1>3, <3>1, <3>2
  <2>3. \A c \in Cids \ DOMAIN v.clientCache : v.sampled[c].bytes = 0 /\ v.sampled[c].time = 0
    BY <1>3, <2>1
  <2> QED BY <2>2, <2>3 DEF SamplesFollowCache
<1>7. Counted(v)
  <2>1. ASSUME NEW p \in Cids \X (1 .. MaxBytes)
        PROVE  p[1] \in DOMAIN v.clientCache /\ p[2] <= v.clientCache[p[1]].bytes
                 <=> p[1] \in D /\ p[2] <= cache[p[1]].bytes
    <3>1. p[2] \in 1 .. MaxBytes /\ ~(p[2] <= 0)
      BY ManagementAssumption
    <3>2. CASE p[1] = cid
      BY <1>3, <3>1, <3>2
    <3>3. CASE p[1] # cid
      BY <1>3, <3>3
    <3> QED BY <3>2, <3>3
  <2>2. Reported(v) = Reported(w)
    BY <2>1 DEF Reported
  <2> QED BY <2>2 DEF Good, Counted
<1>8. CacheFollowsEvents(v)
  <2>1. \A c \in Cids : c \in D <=> \E j \in DOMAIN s : IsOf(s, "ESTABLISHED", c, j)
    BY DEF Good, CacheFollowsEvents
  <2>2. ASSUME NEW c \in D
        PROVE  /\ \A j, k \in DOMAIN s :
                    /\ j < k
                    /\ IsOf(s, "ESTABLISHED", c, j)
                    /\ IsOf(s, "BYTECOUNT_CLI", c, k)
                    => s[k].bytes <= cache[c].bytes
               /\ \/ cache[c].bytes = 0
                  \/ \E k \in DOMAIN s : /\ IsOf(s, "BYTECOUNT_CLI", c, k)
                                         /\ s[k].bytes = cache[c].bytes
    BY DEF Good, CacheFollowsEvents
  <2> HIDE DEF s, t, cache, D
  <2>3. ASSUME NEW c, NEW k \in DOMAIN t, IsOf(t, "BYTECOUNT_CLI", c, k)
        PROVE  k \in DOMAIN s /\ k # Len(s) + 1 /\ IsOf(s, "BYTECOUNT_CLI", c, k) /\ t[k] = s[k]
    BY <1>2, <2>3 DEF Grows, IsOf
  <2>4. ASSUME NEW c \in D, NEW j \in DOMAIN t, IsOf(t, "ESTABLISHED", c, j)
        PROVE  j \in DOMAIN s /\ IsOf(s, "ESTABLISHED", c, j)
    BY <1>2, <1>3, <2>4 DEF Grows, IsOf
  <2>5. ASSUME NEW j \in DOMAIN t, IsOf(t, "ESTABLISHED", cid, j)
        PROVE  j = Len(s) + 1
    BY <1>2, <2>1, <2>5 DEF Grows, IsOf, D
  <2>6. ASSUME NEW c \in Cids
        PROVE  c \in DOMAIN v.clientCache <=> \E j \in DOMAIN t : IsOf(t, "ESTABLISHED", c, j)
    <3>1. CASE c = cid
      BY <1>2, <1>3, <3>1 DEF Grows, IsOf
    <3>2. CASE c # cid
      BY <1>2, <1>3, <2>1, <3>2 DEF Grows, IsOf
    <3> QED BY <3>1, <3>2
  <2>7. ASSUME NEW c \in DOMAIN v.clientCache
        PROVE  \A j, k \in DOMAIN t :
                    /\ j < k
                    /\ IsOf(t, "ESTABLISHED", c, j)
                    /\ IsOf(t, "BYTECOUNT_CLI", c, k)
                    => t[k].bytes <= v.clientCache[c].bytes
    <3>1. CASE c \in D
      BY <1>3, <2>2, <2>3, <2>4, <3>1
    <3>2. CASE c = cid
      <4>1. ASSUME NEW j \in DOMAIN t, NEW k \in DOMAIN t, j < k,
                   IsOf(t, "ESTABLISHED", c, j), IsOf(t, "BYTECOUNT_CLI", c, k)
            PROVE  FALSE
        <5>1. j = Len(s) + 1 /\ k \in DOMAIN t /\ k # Len(s) + 1
          BY <2>3, <2>5, <3>2, <4>1
        <5> QED BY <1>1, <4>1, <5>1
      <4> QED BY <4>1
    <3> QED BY <1>3, <3>1, <3>2
  <2>8. ASSUME NEW c \in DOMAIN v.clientCache
        PROVE  \/ v.clientCache[c].bytes = 0
               \/ \E k \in DOMAIN t : /\ IsOf(t, "BYTECOUNT_CLI", c, k)
                                      /\ t[k].bytes = v.clientCache[c].bytes
    <3>1. CASE c \in D
      BY <1>2, <1>3, <2>2, <3>1 DEF Grows, IsOf
    <3>2. CASE c = cid
      BY <1>3, <3>2
    <3> QED BY <1>3, <3>1, <3>2
  <2> QED BY <2>6, <2>7, <2>8 DEF CacheFollowsEvents, t
<1> QED BY <1>5, <1>6, <1>7, <1>8 DEF Good

\* The bytes between two reports of a client are counted once.
LEMMA ReportedGrows ==
  ASSUME NEW w, NEW v, AccountsOK(w), NEW cid \in DOMAIN w.clientCache, NEW n \in 0 .. MaxBytes,
         w.clientCache[cid].bytes <= n,
         DOMAIN v.clientCache = DOMAIN w.clientCache, v.clientCache[cid].bytes = n,
         \A c \in DOMAIN w.clientCache : c # cid => v.clientCache[c] = w.clientCache[c]
  PROVE  Cardinality(Reported(v)) = Cardinality(Reported(w)) + (n - w.clientCache[cid].bytes)
<1> DEFINE b == w.clientCache[cid].bytes
           I == (b + 1) .. n
           New == {cid} \X I
           All == Cids \X (1 .. MaxBytes)
<1>1. cid \in Cids /\ b \in 0 .. MaxBytes /\ b \in Nat /\ n \in Nat /\ b <= n
  BY ManagementAssumption DEF AccountsOK, Entry
<1>2. IsFiniteSet(I) /\ Cardinality(I) = n - b
  <2>1. b + 1 \in Int /\ n \in Int
    BY <1>1
  <2> HIDE DEF b
  <2>2. IsFiniteSet(I) /\ Cardinality(I) = IF b + 1 > n THEN 0 ELSE n - (b + 1) + 1
    BY <2>1, FS_Interval
  <2> QED BY <1>1, <2>2
<1>3. IsFiniteSet(New) /\ Cardinality(New) = n - b
  <2> HIDE DEF I, b
  <2>1. IsFiniteSet({cid}) /\ Cardinality({cid}) = 1
    BY FS_Singleton
  <2>2. IsFiniteSet(New) /\ Cardinality(New) = Cardinality({cid}) * Cardinality(I)
    BY <1>2, <2>1, FS_Product
  <2> QED BY <1>1, <1>2, <2>1, <2>2
<1>4. IsFiniteSet(All)
  <2>1. IsFiniteSet(1 .. MaxBytes)
    <3>1. 1 \in Int /\ MaxBytes \in Int
      BY ManagementAssumption
    <3> QED BY <3>1, FS_Interval
  <2> QED BY <2>1, ManagementAssumption, FS_Product
<1>5. IsFiniteSet(Reported(w))
  BY <1>4, FS_Subset DEF Reported
<1>6. Reported(v) = Reported(w) \cup New
  <2>1. ASSUME NEW p \in Reported(v) PROVE p \in Reported(w) \cup New
    <3>1. p \in All /\ p[1] \in DOMAIN w.clientCache /\ p[2] <= v.clientCache[p[1]].bytes
      BY DEF Reported
    <3>2. p = <<p[1], p[2]>> /\ p[1] \in Cids /\ p[2] \in 1 .. MaxBytes
      BY <3>1
    <3>3. CASE p[1] = cid
      <4>1. p[2] <= n
        BY <3>1, <3>3
      <4>2. CASE p[2] <= b
        BY <3>1, <3>3, <4>2 DEF Reported
      <4>3. CASE ~(p[2] <= b)
        <5>1. p[2] \in I
          BY <1>1, <3>2, <4>1, <4>3
        <5> QED BY <3>2, <3>3, <5>1
      <4> QED BY <4>2, <4>3
    <3>4. CASE p[1] # cid
      BY <3>1, <3>4 DEF Reported
    <3> QED BY <3>3, <3>4
  <2>2. ASSUME NEW p \in Reported(w) PROVE p \in Reported(v)
    <3>1. p \in All /\ p[1] \in DOMAIN w.clientCache /\ p[2] <= w.clientCache[p[1]].bytes
      BY DEF Reported
    <3>2. p[2] \in 1 .. MaxBytes
      BY <3>1
    <3>3. CASE p[1] = cid
      <4>1. p[2] <= n
        BY <1>1, <3>1, <3>2, <3>3
      <4> QED BY <3>1, <3>3, <4>1 DEF Reported
    <3>4. CASE p[1] # cid
      BY <3>1, <3>4 DEF Reported
    <3> QED BY <3>3, <3>4
  <2>3. ASSUME NEW p \in New PROVE p \in Reported(v)
    <3>1. p = <<p[1], p[2]>> /\ p[1] = cid /\ p[2] \in I
      OBVIOUS
    <3>2. p[2] \in 1 .. MaxBytes /\ p[2] <= n
      BY <1>1, <3>1, ManagementAssumption
    <3>3. p \in All
      BY <1>1, <3>1, <3>2
    <3> QED BY <3>1, <3>2, <3>3 DEF Reported
  <2> QED BY <2>1, <2>2, <2>3
<1>7. Reported(w) \cap New = {}
  <2>1. ASSUME NEW p \in Reported(w), p \in New PROVE FALSE
    <3>1. p[1] = cid /\ p[2] \in I /\ p[2] <= w.clientCache[p[1]].bytes
      BY <2>1 DEF Reported
    <3> QED BY <1>1, <3>1
  <2> QED BY <2>1
<1> HIDE DEF b, I, New, All
<1>8. Cardinality(Reported(v)) =
        Cardinality(Reported(w)) + Cardinality(New) - Cardinality(Reported(w) \cap New)
  BY <1>3, <1>5, <1>6, FS_Union
<1>9. Cardinality(Reported(w)) \in Nat
  BY <1>5, FS_CardinalityType
<1>10. Cardinality(Reported(v)) = Cardinality(Reported(w)) + (n - b)
  <2>1. Cardinality(Reported(w) \cap New) = 0
    BY <1>7, FS_EmptySet
  <2> QED BY <1>1, <1>3, <1>8, <1>9, <2>1
<1> QED BY <1>10 DEF b

\* A client in the cache reports, no less than it has before.
LEMMA EmitsBytecount ==
  ASSUME NEW w, IsWorker(w), NEW v, NEW e, NEW now \in 0 .. MaxClock, Good(w, now),
         NEW cid \in DOMAIN w.clientCache, NEW n \in 0 .. MaxBytes, w.clientCache[cid].bytes <= n,
         \A k \in DOMAIN w.emitted : IsOf(w.emitted, "BYTECOUNT_CLI", cid, k) => w.emitted[k].bytes \in Nat,
         v.emitted = Append(w.emitted, e), e.event = "BYTECOUNT_CLI", e.cid = cid, e.bytes = n,
         v.clientCache = [w.clientCache EXCEPT ![cid] =
                            [uuid |-> w.clientCache[cid].uuid, bytes |-> n,
                             ts |-> w.clientCache[cid].ts + (now - w.clientCache[cid].ts)]],
         v.rxBytes = w.rxBytes + (n - w.clientCache[cid].bytes),
         v.sampled = [w.sampled EXCEPT ![cid] =
                        IF now - w.clientCache[cid].ts > 0
                          THEN [bytes |-> w.sampled[cid].bytes + (n - w.clientCache[cid].bytes),
                                time |-> w.sampled[cid].time + (now - w.clientCache[cid].ts)]
                          ELSE w.sampled[cid]]
  PROVE  Good(v, now)
<1> DEFINE s == w.emitted
           t == v.emitted
           cache == w.clientCache
           D == DOMAIN w.clientCache
           b == cache[cid].bytes
           ts == cache[cid].ts
<1>1. IsSeq(s) /\ t = Append(s, e) /\ Len(s) \in Nat /\ DOMAIN t = 1 .. Len(s) + 1
      /\ DOMAIN s = 1 .. Len(s)
  BY EmittedIsSeq, AppendAny
<1>2. Grows(s, t, e)
  BY <1>1, AppendGrows
<1>3. /\ D \subseteq Cids /\ cid \in Cids /\ \A c \in D : cache[c] \in Entry
      /\ w.rxBytes \in Nat /\ w.sampled \in [Cids -> [bytes : Nat, time : Nat]]
  BY DEF Good, AccountsOK
<1>4. /\ \A c \in Cids \ D : w.sampled[c].bytes = 0 /\ w.sampled[c].time = 0
      /\ \A c \in D : /\ cache[c].ts <= now
                      /\ w.sampled[c].bytes <= cache[c].bytes
                      /\ w.sampled[c].time <= cache[c].ts
  BY DEF Good, SamplesFollowCache
<1>5. /\ b \in Nat /\ ts \in Nat /\ n \in Nat /\ now \in Nat /\ b <= n /\ ts <= now
      /\ cache[cid].uuid \in {UuidOf[c] : c \in Cids}
  BY <1>3, <1>4, ManagementAssumption DEF Entry
<1>6. /\ DOMAIN v.clientCache = D
      /\ v.clientCache[cid] = [uuid |-> cache[cid].uuid, bytes |-> n, ts |-> now]
      /\ \A c \in D : c # cid => v.clientCache[c] = cache[c]
  BY <1>5
<1>7. /\ v.sampled \in [Cids -> [bytes : Nat, time : Nat]]
      /\ v.sampled[cid].bytes <= n /\ v.sampled[cid].time <= now
      /\ \A c \in Cids : c # cid => v.sampled[c] = w.sampled[c]
  <2> DEFINE old == w.sampled[cid]
  <2>1. old \in [bytes : Nat, time : Nat] /\ old.bytes <= b /\ old.time <= ts
    BY <1>3, <1>4
  <2>2. old.bytes \in Nat /\ old.time \in Nat
    BY <2>1
  <2>3. CASE now - ts > 0
    <3> DEFINE new == [bytes |-> old.bytes + (n - b), time |-> old.time + (now - ts)]
    <3>1. v.sampled = [w.sampled EXCEPT ![cid] = new]
      BY <2>3
    <3>2. new \in [bytes : Nat, time : Nat] /\ new.bytes <= n /\ new.time <= now
      <4> HIDE DEF old, b, ts
      <4>1. old.bytes + (n - b) \in Nat /\ old.bytes + (n - b) <= n
        BY <1>5, <2>1, <2>2
      <4>2. old.time + (now - ts) \in Nat /\ old.time + (now - ts) <= now
        BY <1>5, <2>1, <2>2
      <4> QED BY <4>1, <4>2
    <3> HIDE DEF new
    <3>3. v.sampled \in [Cids -> [bytes : Nat, time : Nat]] /\ v.sampled[cid] = new
      BY <1>3, <3>1, <3>2
    <3>4. \A c \in Cids : c # cid => v.sampled[c] = w.sampled[c]
      BY <1>3, <3>1
    <3> QED BY <3>2, <3>3, <3>4
  <2>4. CASE ~(now - ts > 0)
    <3>1. v.sampled = [w.sampled EXCEPT ![cid] = old]
      BY <2>4
    <3>2. v.sampled = w.sampled
      BY <1>3, <3>1
    <3>3. old.bytes <= n /\ old.time <= now
      <4> HIDE DEF old, b, ts
      <4> QED BY <1>5, <2>1, <2>2
    <3> QED BY <1>3, <3>2, <3>3
  <2> QED BY <2>3, <2>4
<1>8. AccountsOK(v)
  <2>1. v.clientCache[cid] \in Entry
    BY <1>5, <1>6 DEF Entry
  <2>2. \A c \in DOMAIN v.clientCache : v.clientCache[c] \in Entry
    BY <1>3, <1>6, <2>1
  <2>3. v.rxBytes \in Nat
    <3>1. v.rxBytes = w.rxBytes + (n - b)
      OBVIOUS
    <3> HIDE DEF b
    <3> QED BY <1>3, <1>5, <3>1
  <2> QED BY <1>3, <1>6, <1>7, <2>2, <2>3 DEF AccountsOK
<1>9. SamplesFollowCache(v, now)
  <2>1. ASSUME NEW c \in DOMAIN v.clientCache
        PROVE  /\ v.clientCache[c].ts <= now
               /\ v.sampled[c].bytes <= v.clientCache[c].bytes
               /\ v.sampled[c].time <= v.clientCache[c].ts
    <3>1. CASE c = cid
      BY <1>5, <1>6, <1>7, <3>1
    <3>2. CASE c # cid
      BY <1>3, <1>4, <1>6, <1>7, <3>2
    <3> QED BY <3>1, <3>2
  <2>2. \A c \in Cids \ DOMAIN v.clientCache : v.sampled[c].bytes = 0 /\ v.sampled[c].time = 0
    BY <1>4, <1>6, <1>7
  <2> QED BY <2>1, <2>2 DEF SamplesFollowCache
<1>10. Counted(v)
  <2>1. AccountsOK(w) /\ Counted(w) /\ v.clientCache[cid].bytes = n
    BY <1>6 DEF Good
  <2>2. Cardinality(Reported(v)) = Cardinality(Reported(w)) + (n - w.clientCache[cid].bytes)
    BY <1>6, <2>1, ReportedGrows
  <2> QED BY <2>1, <2>2 DEF Counted
<1>11. CacheFollowsEvents(v)
  <2>1. \A c \in Cids : c \in D <=> \E j \in DOMAIN s : IsOf(s, "ESTABLISHED", c, j)
    BY DEF Good, CacheFollowsEvents
  <2>2. ASSUME NEW c \in D
        PROVE  /\ \A j, k \in DOMAIN s :
                    /\ j < k
                    /\ IsOf(s, "ESTABLISHED", c, j)
                    /\ IsOf(s, "BYTECOUNT_CLI", c, k)
                    => s[k].bytes <= cache[c].bytes
               /\ \/ cache[c].bytes = 0
                  \/ \E k \in DOMAIN s : /\ IsOf(s, "BYTECOUNT_CLI", c, k)
                                         /\ s[k].bytes = cache[c].bytes
    BY DEF Good, CacheFollowsEvents
  <2>3. ASSUME NEW c \in Cids
        PROVE  c \in DOMAIN v.clientCache <=> \E j \in DOMAIN t : IsOf(t, "ESTABLISHED", c, j)
    <3> HIDE DEF s, t, cache, D
    <3> QED BY <1>2, <1>6, <2>1 DEF Grows, IsOf
  <2>4. ASSUME NEW c \in D, NEW j \in DOMAIN t, NEW k \in DOMAIN t, j < k,
               IsOf(t, "ESTABLISHED", c, j), IsOf(t, "BYTECOUNT_CLI", c, k)
        PROVE  t[k].bytes <= v.clientCache[c].bytes
    <3> HIDE DEF s, t, cache, D
    <3>1. j \in DOMAIN s /\ IsOf(s, "ESTABLISHED", c, j)
      BY <1>2, <2>4 DEF Grows, IsOf
    <3>2. CASE k = Len(s) + 1
      <4>1. t[k] = e /\ c = cid
        BY <1>2, <2>4, <3>2 DEF Grows, IsOf
      <4> QED BY <1>5, <1>6, <4>1
    <3>3. CASE k # Len(s) + 1
      <4>1. k \in DOMAIN s /\ IsOf(s, "BYTECOUNT_CLI", c, k) /\ t[k] = s[k]
        BY <1>2, <2>4, <3>3 DEF Grows, IsOf
      <4>2. s[k].bytes <= cache[c].bytes
        BY <2>2, <2>4, <3>1, <4>1
      <4>3. CASE c = cid
        <5>1. s[k].bytes \in Nat
          BY <4>1, <4>3 DEF s
        <5> QED BY <1>5, <1>6, <4>1, <4>2, <4>3, <5>1 DEF b
      <4>4. CASE c # cid
        BY <1>6, <2>4, <4>1, <4>2, <4>4
      <4> QED BY <4>3, <4>4
    <3> QED BY <3>2, <3>3
  <2>5. ASSUME NEW c \in D
        PROVE  \/ v.clientCache[c].bytes = 0
               \/ \E k \in DOMAIN t : /\ IsOf(t, "BYTECOUNT_CLI", c, k)
                                      /\ t[k].bytes = v.clientCache[c].bytes
    <3> HIDE DEF s, t, cache, D
    <3>1. CASE c = cid
      <4>1. Len(s) + 1 \in DOMAIN t /\ IsOf(t, "BYTECOUNT_CLI", c, Len(s) + 1) /\ t[Len(s) + 1].bytes = n
        BY <1>2, <3>1 DEF Grows, IsOf
      <4> QED BY <1>6, <3>1, <4>1
    <3>2. CASE c # cid
      BY <1>2, <1>6, <2>2, <3>2 DEF Grows, IsOf
    <3> QED BY <3>1, <3>2
  <2> QED BY <1>6, <2>3, <2>4, <2>5 DEF CacheFollowsEvents
<1> QED BY <1>8, <1>9, <1>10, <1>11 DEF Good

\* What is in an event.
LEMMA EventIs ==
  ASSUME NEW e \in Event
  PROVE  /\ e.event = "ESTABLISHED" => e.cid \in Cids /\ e.env["common_name"] = UuidOf[e.cid]
         /\ e.event = "BYTECOUNT_CLI" => e.cid \in Cids /\ e.bytes \in 0 .. MaxBytes
<1>1. CASE e = [event |-> "LOG"]
  BY <1>1
<1>2. ASSUME NEW type \in EventTypes, NEW cid \in Cids, e = Notice(type, cid)
      PROVE  /\ e.event = "ESTABLISHED" => e.cid \in Cids /\ e.env["common_name"] = UuidOf[e.cid]
             /\ e.event # "BYTECOUNT_CLI"
  <2>1. e.event = type /\ e.cid = cid /\ e.env = EnvOf(type, cid) /\ type # "BYTECOUNT_CLI"
    BY <1>2 DEF Notice, EventTypes
  <2>2. ASSUME type = "ESTABLISHED" PROVE EnvOf(type, cid)["common_name"] = UuidOf[cid]
    <3>1. EnvOf(type, cid) = Put(<<>>, "common_name", UuidOf[cid])
      BY <2>2 DEF EnvOf
    <3> QED BY <3>1 DEF Put
  <2> QED BY <2>1, <2>2
<1>3. ASSUME NEW cid \in Cids, NEW n \in 0 .. MaxBytes, e = Bytecount(cid, n)
      PROVE  e.event = "BYTECOUNT_CLI" /\ e.cid \in Cids /\ e.bytes \in 0 .. MaxBytes
  BY <1>3 DEF Bytecount
<1> QED BY <1>1, <1>2, <1>3 DEF Event

\* The handlers keep the accounts when events come as OpenVPN sends them.
LEMMA EmitGood ==
  ASSUME NEW w, IsWorker(w), NEW e, NEW sends, SentIsSound(sends), NEW now \in 0 .. MaxClock,
         Good(w, now), Begins(Append(w.emitted, e), sends)
  PROVE  Good(emit(w, e, now), now)
<1> DEFINE s == w.emitted
           n == Len(s)
           told == [w EXCEPT !.emitted = Append(@, e)]
           v == emit(w, e, now)
<1>1. IsSeq(s) /\ n \in Nat /\ DOMAIN s = 1 .. n /\ Len(Append(s, e)) = n + 1
  BY EmittedIsSeq, AppendAny
<1>2. /\ sends \in Seq(Event) /\ n + 1 <= Len(sends) /\ Len(sends) \in Nat /\ DOMAIN sends = 1 .. Len(sends)
      /\ \A k \in 1 .. n + 1 : Append(s, e)[k] = sends[k]
  BY <1>1 DEF Begins, SentIsSound
<1>3. /\ n + 1 \in DOMAIN sends /\ sends[n + 1] = e
      /\ \A k \in DOMAIN s : k \in DOMAIN sends /\ k < n + 1 /\ sends[k] = s[k]
  <2>1. Grows(s, Append(s, e), e)
    BY <1>1, AppendGrows
  <2> QED BY <1>1, <1>2, <2>1 DEF Grows
<1>4. e \in Event /\ \A k \in DOMAIN s : s[k] \in Event
  BY <1>2, <1>3, ElementOfSeq
<1>5. /\ told.emitted = Append(s, e) /\ told.clientCache = w.clientCache
      /\ told.rxBytes = w.rxBytes /\ told.sampled = w.sampled /\ IsWorker(told)
  BY AppendAny DEF IsWorker
<1>6. CASE e.event = "ESTABLISHED"
  <2>1. e.cid \in Cids /\ e.env["common_name"] = UuidOf[e.cid]
    BY <1>4, <1>6, EventIs
  <2>2. e.cid \notin DOMAIN w.clientCache
    <3> SUFFICES ASSUME e.cid \in DOMAIN w.clientCache PROVE FALSE
      OBVIOUS
    <3>1. PICK j \in DOMAIN s : IsOf(s, "ESTABLISHED", e.cid, j)
      BY <2>1 DEF Good, CacheFollowsEvents
    <3>2. j \in DOMAIN sends /\ j < n + 1 /\ IsOf(sends, "ESTABLISHED", e.cid, j)
      BY <1>3, <3>1 DEF IsOf
    <3>3. IsOf(sends, "ESTABLISHED", e.cid, n + 1)
      BY <1>3, <1>6 DEF IsOf
    <3>4. j = n + 1
      BY <1>3, <2>1, <3>2, <3>3 DEF SentIsSound
    <3> QED BY <1>1, <3>2, <3>4
  <2>3. v = established(told, e.cid, UuidOf[e.cid], now)
    BY <1>6, <2>1 DEF emit
  <2> HIDE DEF told, v
  <2>4. /\ v.emitted = Append(w.emitted, e) /\ v.rxBytes = w.rxBytes /\ v.sampled = w.sampled
        /\ v.clientCache =
             Put(w.clientCache, e.cid, [uuid |-> UuidOf[e.cid], bytes |-> 0, ts |-> now])
    BY <1>5, <2>3 DEF established, IsWorker
  <2>5. Good(v, now)
    BY <1>6, <2>1, <2>2, <2>4, EmitsEstablished
  <2> QED BY <2>5 DEF v
<1>7. CASE e.event = "BYTECOUNT_CLI" /\ e.cid \in DOMAIN w.clientCache
  <2> DEFINE cid == e.cid
             m == e.bytes
             entry == w.clientCache[cid]
  <2>1. cid \in Cids /\ m \in 0 .. MaxBytes
    BY <1>4, <1>7, EventIs
  <2>2. \A k \in DOMAIN s : IsOf(s, "BYTECOUNT_CLI", cid, k) => s[k].bytes \in Nat /\ s[k].bytes <= m
    <3> SUFFICES ASSUME NEW k \in DOMAIN s, IsOf(s, "BYTECOUNT_CLI", cid, k)
                 PROVE  s[k].bytes \in Nat /\ s[k].bytes <= m
      OBVIOUS
    <3>1. s[k] \in Event /\ s[k].event = "BYTECOUNT_CLI"
      BY <1>4 DEF IsOf
    <3>2. s[k].bytes \in 0 .. MaxBytes
      BY <3>1, EventIs
    <3>3. IsOf(sends, "BYTECOUNT_CLI", cid, k) /\ k < n + 1 /\ k \in DOMAIN sends /\ sends[k] = s[k]
      BY <1>3 DEF IsOf
    <3>4. IsOf(sends, "BYTECOUNT_CLI", cid, n + 1) /\ n + 1 \in DOMAIN sends
      BY <1>3, <1>7 DEF IsOf
    <3>5. sends[k].bytes <= sends[n + 1].bytes
      BY <2>1, <3>3, <3>4 DEF SentIsSound
    <3> QED BY <1>3, <3>2, <3>3, <3>5, ManagementAssumption
  <2>3. entry.bytes <= m
    <3>1. \/ entry.bytes = 0
          \/ \E k \in DOMAIN s : IsOf(s, "BYTECOUNT_CLI", cid, k) /\ s[k].bytes = entry.bytes
      BY <1>7 DEF Good, CacheFollowsEvents
    <3> QED BY <2>1, <2>2, <3>1
  <2>4. v = writeBandwidthMetrics(told, cid, m, now)
    BY <1>7 DEF emit
  <2> HIDE DEF told, v
  <2>5. /\ v.emitted = Append(w.emitted, e)
        /\ v.clientCache = [w.clientCache EXCEPT ![cid] =
                              [uuid |-> entry.uuid, bytes |-> m, ts |-> entry.ts + (now - entry.ts)]]
    BY <1>5, <1>7, <2>4 DEF writeBandwidthMetrics, IsWorker
  <2>6. v.rxBytes = w.rxBytes + (m - entry.bytes)
    BY <1>5, <1>7, <2>4 DEF writeBandwidthMetrics, IsWorker
  <2>7. v.sampled = [w.sampled EXCEPT ![cid] =
                       IF now - entry.ts > 0
                         THEN [bytes |-> w.sampled[cid].bytes + (m - entry.bytes),
                               time |-> w.sampled[cid].time + (now - entry.ts)]
                         ELSE w.sampled[cid]]
    BY <1>5, <1>7, <2>4 DEF writeBandwidthMetrics, IsWorker
  <2>8. \A k \in DOMAIN s : IsOf(s, "BYTECOUNT_CLI", cid, k) => s[k].bytes \in Nat
    BY <2>2
  <2>9. cid \in DOMAIN w.clientCache /\ e.event = "BYTECOUNT_CLI" /\ e.cid = cid /\ e.bytes = m
    BY <1>7
  <2> HIDE DEF cid, m
  <2>10. Good(v, now)
    BY <2>1, <2>3, <2>5, <2>6, <2>7, <2>8, <2>9, EmitsBytecount
  <2> QED BY <2>10 DEF v
<1>8. CASE e.event # "ESTABLISHED" /\ ~(e.event = "BYTECOUNT_CLI" /\ e.cid \in DOMAIN w.clientCache)
  <2>1. v = told
    <3>1. CASE e.event = "BYTECOUNT_CLI"
      <4>1. v = writeBandwidthMetrics(told, e.cid, e.bytes, now)
        BY <3>1 DEF emit
      <4> HIDE DEF told, v
      <4> QED BY <1>5, <1>8, <3>1, <4>1 DEF writeBandwidthMetrics
    <3>2. CASE e.event # "BYTECOUNT_CLI"
      BY <1>8, <3>2 DEF emit
    <3> QED BY <3>1, <3>2
  <2> HIDE DEF told, v
  <2>2. Good(v, now)
    BY <1>5, <1>8, <2>1, EmitsOther
  <2> QED BY <2>2 DEF v
<1> QED BY <1>6, <1>7, <1>8

\* ... and so does dataHandler,
LEMMA DataHandlerGood ==
  ASSUME NEW w, IsWorker(w), NEW line, NEW now \in 0 .. MaxClock, Good(w, now),
         NEW sends, SentIsSound(sends), Begins(dataHandler(w, line, now).emitted, sends)
  PROVE  Good(dataHandler(w, line, now), now)
<1>1. ASSUME NEW e, dataHandler(w, line, now) = emit(w, e, now) PROVE Good(dataHandler(w, line, now), now)
  <2>1. emit(w, e, now).emitted = Append(w.emitted, e)
    BY EmitShape
  <2>2. Begins(Append(w.emitted, e), sends)
    BY <1>1, <2>1
  <2> QED BY <1>1, <2>2, EmitGood
<1>2. CASE line[1] \in {"LOG", "BYTECOUNT_CLI"}
  <2>1. \E e : dataHandler(w, line, now) = emit(w, e, now)
    BY <1>2, DataHandlerIs
  <2> QED BY <1>1, <2>1
<1>3. CASE line[1] \in EventTypes
  <2>1. dataHandler(w, line, now) = Collects(w, line)
    BY <1>3, DataHandlerIs DEF Collects
  <2>2. SameAccounts(w, Collects(w, line))
    BY CollectsShape
  <2> QED BY <2>1, <2>2, SameIsGood
<1>4. CASE line[1] \notin EventTypes \cup {"LOG", "BYTECOUNT_CLI"}
  BY <1>4, DataHandlerIs
<1> QED BY <1>2, <1>3, <1>4

\* ... a line,
LEMMA LineGood ==
  ASSUME NEW w, IsWorker(w), NEW line, NEW now \in 0 .. MaxClock, Good(w, now),
         NEW sends, SentIsSound(sends), Begins(onLine(w, line, now).emitted, sends)
  PROVE  Good(onLine(w, line, now), now)
<1>1. CASE w.collecting = NoEvent
  <2>1. onLine(w, line, now) = dataHandler(w, line, now)
    BY <1>1, OnLineIs
  <2> QED BY <2>1, DataHandlerGood
<1>2. CASE w.collecting # NoEvent /\ line[1] = "ENV"
  <2>1. onLine(w, line, now) = Grown(w, line)
    BY <1>2, OnLineIs
  <2>2. SameAccounts(w, Grown(w, line))
    BY GrownShape
  <2> QED BY <2>1, <2>2, SameIsGood
<1>3. ASSUME Begins(Told(w, now).emitted, sends) PROVE Good(Told(w, now), now)
  <2>1. IsWorker(Free(w)) /\ SameAccounts(w, Free(w))
    BY ToldShape
  <2>2. Good(Free(w), now)
    BY <2>1, SameIsGood
  <2>3. Told(w, now).emitted = Append(Free(w).emitted, w.collecting)
    BY ToldShape DEF SameAccounts
  <2>4. Begins(Append(Free(w).emitted, w.collecting), sends)
    BY <1>3, <2>3
  <2> QED BY <2>1, <2>2, <2>4, EmitGood DEF Told
<1>4. CASE w.collecting # NoEvent /\ line[1] = "END"
  <2>1. onLine(w, line, now) = Told(w, now)
    BY <1>4, OnLineIs
  <2> QED BY <1>3, <2>1
<1>5. CASE w.collecting # NoEvent /\ line[1] \notin {"ENV", "END"}
  <2> DEFINE told == Told(w, now)
  <2>1. onLine(w, line, now) = dataHandler(told, line, now)
    BY <1>5, OnLineIs
  <2>2. IsWorker(told)
    BY ToldShape
  <2> HIDE DEF told
  <2>3. Begins(told.emitted, dataHandler(told, line, now).emitted)
    BY <2>2, DataHandlerShape
  <2>4. Begins(told.emitted, sends)
    BY <2>1, <2>3, BeginsTransitive
  <2>5. Good(told, now)
    BY <1>3, <2>4 DEF told
  <2> QED BY <2>1, <2>2, <2>5, DataHandlerGood
<1> QED BY <1>1, <1>2, <1>4, <1>5

\* ... a word,
LEMMA WordGood ==
  ASSUME NEW w, IsWorker(w), NEW word, NEW now \in 0 .. MaxClock, Good(w, now),
         NEW sends, SentIsSound(sends), Begins(onWord(w, word, now).emitted, sends)
  PROVE  Good(onWord(w, word, now), now)
<1>1. CASE word = NL
  <2>1. /\ IsWorker(Emptied(w)) /\ SameAccounts(w, Emptied(w))
        /\ onWord(w, word, now) = onLine(Emptied(w), w.buf, now)
    BY <1>1, OnWordIs
  <2>2. Good(Emptied(w), now)
    BY <2>1, SameIsGood
  <2> QED BY <2>1, <2>2, LineGood
<1>2. CASE word # NL
  <2>1. SameAccounts(w, onWord(w, word, now))
    BY <1>2, OnWordIs
  <2> QED BY <2>1, SameIsGood
<1> QED BY <1>1, <1>2

\* ... and a chunk, if what it emits is what OpenVPN has sent.
LEMMA ReceivedGood ==
  ASSUME NEW w, IsWorker(w), NEW words, Len(words) \in Nat, NEW now \in 0 .. MaxClock, Good(w, now),
         NEW sends, SentIsSound(sends), Begins(Received(w, words, now).emitted, sends)
  PROVE  Good(Received(w, words, now), now)
<1>1. PICK f : Steps(f, w, words, now, Len(words)) /\ Received(w, words, now) = f[Len(words)]
  BY ReceivedRun
<1> DEFINE n == Len(words)
<1>2. n \in Nat /\ Steps(f, w, words, now, n) /\ Received(w, words, now) = f[n]
  BY <1>1
<1> HIDE DEF n
<1>3. \A k \in 0 .. n : IsWorker(f[k])
  BY <1>2, RunShape
<1>4. \A k \in 0 .. n : Begins(f[k].emitted, f[n].emitted)
  BY <1>2, RunShape
<1>5. \A k \in 0 .. n : Begins(f[k].emitted, sends)
  BY <1>2, <1>4, BeginsTransitive
<1> DEFINE T == {k \in Nat : k <= n => Good(f[k], now)}
<1>6. 0 \in T
  BY <1>2 DEF Steps
<1>7. ASSUME NEW k \in T PROVE k + 1 \in T
  <2> SUFFICES ASSUME k + 1 <= n PROVE Good(f[k + 1], now)
    OBVIOUS
  <2>1. k \in 0 .. n /\ k + 1 \in 0 .. n /\ k + 1 \in 1 .. n /\ (k + 1) - 1 = k /\ Good(f[k], now)
    BY <1>2
  <2>2. f[k + 1] = onWord(f[(k + 1) - 1], words[k + 1], now)
    BY <1>2, <2>1 DEF Steps
  <2>3. f[k + 1] = onWord(f[k], words[k + 1], now)
    BY <2>1, <2>2
  <2>4. IsWorker(f[k]) /\ Begins(onWord(f[k], words[k + 1], now).emitted, sends)
    BY <1>3, <1>5, <2>1, <2>3
  <2> QED BY <2>1, <2>3, <2>4, WordGood
<1>8. T = Nat
  BY <1>6, <1>7, SetInduction
<1> QED BY <1>2, <1>8

-----------------------------------------------------------------------------
(***************************************************************************)
(* What OpenVPN sends.                                                     *)
(***************************************************************************)
LEMMA SendsOne ==
  ASSUME NEW s, SentIsSound(s), NEW e \in Event,
         \A c \in Cids, k \in DOMAIN s :
           /\ ~(e.event = "ESTABLISHED" /\ e.cid = c /\ IsOf(s, "ESTABLISHED", c, k))
           /\ e.event = "BYTECOUNT_CLI" /\ e.cid = c /\ IsOf(s, "BYTECOUNT_CLI", c, k)
                => s[k].bytes <= e.bytes
  PROVE  s \o <<e>> = Append(s, e) /\ SentIsSound(Append(s, e)) /\ Grows(s, Append(s, e), e)
<1> DEFINE t == Append(s, e)
<1>1. s \in Seq(Event)
  BY DEF SentIsSound
<1>2. t \in Seq(Event) /\ s \o <<e>> = t
  BY <1>1
<1>3. IsSeq(s)
  BY <1>1 DEF IsSeq
<1>4. Grows(s, t, e)
  BY <1>3, AppendGrows
<1>5. /\ Len(s) \in Nat /\ DOMAIN s = 1 .. Len(s) /\ DOMAIN t = 1 .. Len(s) + 1
  BY <1>3, AppendAny
<1> HIDE DEF t
<1>6. ASSUME NEW c \in Cids, NEW j \in DOMAIN t, NEW k \in DOMAIN t,
             IsOf(t, "ESTABLISHED", c, j), IsOf(t, "ESTABLISHED", c, k)
      PROVE  j = k
  <2>1. CASE j # Len(s) + 1 /\ k # Len(s) + 1
    <3>1. /\ j \in DOMAIN s /\ k \in DOMAIN s
          /\ IsOf(s, "ESTABLISHED", c, j) /\ IsOf(s, "ESTABLISHED", c, k)
      BY <1>4, <1>6, <2>1 DEF Grows, IsOf
    <3> QED BY <3>1 DEF SentIsSound
  <2>2. CASE j = Len(s) + 1 /\ k # Len(s) + 1
    <3>1. k \in DOMAIN s /\ IsOf(s, "ESTABLISHED", c, k) /\ e.event = "ESTABLISHED" /\ e.cid = c
      BY <1>4, <1>6, <2>2 DEF Grows, IsOf
    <3> QED BY <3>1
  <2>3. CASE j # Len(s) + 1 /\ k = Len(s) + 1
    <3>1. j \in DOMAIN s /\ IsOf(s, "ESTABLISHED", c, j) /\ e.event = "ESTABLISHED" /\ e.cid = c
      BY <1>4, <1>6, <2>3 DEF Grows, IsOf
    <3> QED BY <3>1
  <2> QED BY <2>1, <2>2, <2>3
<1>7. ASSUME NEW c \in Cids, NEW j \in DOMAIN t, NEW k \in DOMAIN t, j < k,
             IsOf(t, "BYTECOUNT_CLI", c, j), IsOf(t, "BYTECOUNT_CLI", c, k)
      PROVE  t[j].bytes <= t[k].bytes
  <2>1. j # Len(s) + 1
    BY <1>5, <1>7
  <2>2. j \in DOMAIN s /\ IsOf(s, "BYTECOUNT_CLI", c, j) /\ t[j] = s[j]
    BY <1>4, <1>7, <2>1 DEF Grows, IsOf
  <2>3. CASE k # Len(s) + 1
    <3>1. k \in DOMAIN s /\ IsOf(s, "BYTECOUNT_CLI", c, k) /\ t[k] = s[k]
      BY <1>4, <1>7, <2>3 DEF Grows, IsOf
    <3>2. s[j].bytes <= s[k].bytes
      BY <1>7, <2>2, <3>1 DEF SentIsSound
    <3> QED BY <2>2, <3>1, <3>2
  <2>4. CASE k = Len(s) + 1
    <3>1. t[k] = e /\ e.event = "BYTECOUNT_CLI" /\ e.cid = c
      BY <1>4, <1>7, <2>4 DEF Grows, IsOf
    <3> QED BY <2>2, <3>1
  <2> QED BY <2>3, <2>4
<1>8. SentIsSound(t)
  BY <1>2, <1>6, <1>7 DEF SentIsSound
<1> QED BY <1>2, <1>4, <1>8 DEF t

\* Events that are no reports leave the last reports as they are.
LEMMA LatestKept ==
  ASSUME NEW e, LastIsLatest, Grows(sent, sent', e), bytes' = bytes, e.event # "BYTECOUNT_CLI"
  PROVE  LastIsLatest'
<1> SUFFICES ASSUME NEW c \in Cids, NEW k \in DOMAIN sent', IsOf(sent', "BYTECOUNT_CLI", c, k)
             PROVE  /\ sent'[k].bytes <= bytes'[c]
                    /\ \E l \in DOMAIN sent' : /\ l >= k /\ IsOf(sent', "BYTECOUNT_CLI", c, l)
                                               /\ sent'[l].bytes = bytes'[c]
  BY DEF LastIsLatest
<1>1. k \in DOMAIN sent /\ IsOf(sent, "BYTECOUNT_CLI", c, k) /\ sent'[k] = sent[k]
  BY DEF Grows, IsOf
<1>2. /\ sent[k].bytes <= bytes[c]
      /\ \E l \in DOMAIN sent : /\ l >= k /\ IsOf(sent, "BYTECOUNT_CLI", c, l)
                                /\ sent[l].bytes = bytes[c]
  BY <1>1 DEF LastIsLatest
<1>3. PICK l \in DOMAIN sent : l >= k /\ IsOf(sent, "BYTECOUNT_CLI", c, l) /\ sent[l].bytes = bytes[c]
  BY <1>2
<1>4. l \in DOMAIN sent' /\ IsOf(sent', "BYTECOUNT_CLI", c, l) /\ sent'[l] = sent[l]
  BY <1>3 DEF Grows, IsOf
<1> QED BY <1>1, <1>2, <1>3, <1>4

\* A further report is the latest one.
LEMMA LatestMoves ==
  ASSUME NEW cid \in Cids, NEW n \in Nat, LastIsLatest, SentIsSound(sent),
         bytes \in [Cids -> 0 .. MaxBytes], bytes' = [bytes EXCEPT ![cid] = bytes[cid] + n],
         Grows(sent, sent', Bytecount(cid, bytes[cid] + n))
  PROVE  LastIsLatest'
<1> DEFINE e == Bytecount(cid, bytes[cid] + n)
<1>1. e.event = "BYTECOUNT_CLI" /\ e.cid = cid /\ e.bytes = bytes[cid] + n
  BY DEF Bytecount
<1>2. Grows(sent, sent', e)
  OBVIOUS
<1>3. bytes[cid] \in Nat /\ bytes'[cid] = bytes[cid] + n /\ \A c \in Cids : c # cid => bytes'[c] = bytes[c]
  BY ManagementAssumption
<1>4. Len(sent) \in Nat /\ DOMAIN sent = 1 .. Len(sent)
  BY DEF SentIsSound
<1> HIDE DEF e
<1> SUFFICES ASSUME NEW c \in Cids, NEW k \in DOMAIN sent', IsOf(sent', "BYTECOUNT_CLI", c, k)
             PROVE  /\ sent'[k].bytes <= bytes'[c]
                    /\ \E l \in DOMAIN sent' : /\ l >= k /\ IsOf(sent', "BYTECOUNT_CLI", c, l)
                                               /\ sent'[l].bytes = bytes'[c]
  BY DEF LastIsLatest
<1>5. /\ Len(sent) + 1 \in DOMAIN sent' /\ sent'[Len(sent) + 1] = e
      /\ IsOf(sent', "BYTECOUNT_CLI", cid, Len(sent) + 1)
  BY <1>1, <1>2 DEF Grows, IsOf
<1>6. CASE k = Len(sent) + 1
  <2>1. c = cid /\ sent'[k].bytes = bytes'[c]
    BY <1>1, <1>3, <1>5, <1>6 DEF IsOf
  <2>2. k >= k /\ bytes'[c] <= bytes'[c]
    BY <1>3, <1>4, <1>6, <2>1
  <2> QED BY <2>1, <2>2
<1>7. CASE k # Len(sent) + 1
  <2>1. k \in DOMAIN sent /\ IsOf(sent, "BYTECOUNT_CLI", c, k) /\ sent'[k] = sent[k]
    BY <1>2, <1>7 DEF Grows, IsOf
  <2>2. sent[k].bytes <= bytes[c]
    BY <2>1 DEF LastIsLatest
  <2>3. sent[k].bytes \in Nat
    <3>1. sent[k] \in Event /\ sent[k].event = "BYTECOUNT_CLI"
      BY <2>1, ElementOfSeq DEF SentIsSound, IsOf
    <3>2. sent[k].bytes \in 0 .. MaxBytes
      BY <3>1, EventIs
    <3> QED BY <3>2, ManagementAssumption
  <2>4. CASE c = cid
    <3>1. sent'[k].bytes <= bytes'[c]
      BY <1>3, <2>1, <2>2, <2>3, <2>4
    <3>2. Len(sent) + 1 >= k /\ sent'[Len(sent) + 1].bytes = bytes'[c]
      BY <1>1, <1>3, <1>4, <1>5, <2>1, <2>4
    <3> QED BY <1>5, <2>4, <3>1, <3>2
  <2>5. CASE c # cid
    <3>1. PICK l \in DOMAIN sent : l >= k /\ IsOf(sent, "BYTECOUNT_CLI", c, l) /\ sent[l].bytes = bytes[c]
      BY <2>1 DEF LastIsLatest
    <3>2. l \in DOMAIN sent' /\ IsOf(sent', "BYTECOUNT_CLI", c, l) /\ sent'[l] = sent[l]
      BY <1>2, <3>1 DEF Grows, IsOf
    <3> QED BY <1>3, <2>1, <2>2, <2>5, <3>1, <3>2
  <2> QED BY <2>4, <2>5
<1> QED BY <1>6, <1>7

-----------------------------------------------------------------------------
(***************************************************************************)
(* The invariant.                                                          *)
(***************************************************************************)

\* The types of what TLC cannot put into one set.
StreamOK == stream \in Seq(Text) /\ IsWorker(worker)

OthersOK ==
  messages \in 0 .. MaxMessages /\ bytes \in [Cids -> 0 .. MaxBytes] /\ clock \in 0 .. MaxClock

\* The invariant, put together from the parts the lemmas speak of.
LEMMA InvParts ==
  ManagementInv <=> /\ OthersOK /\ SentIsSound(sent) /\ LastIsLatest /\ RestIsRead
                    /\ Good(worker, clock)
BY DEF ManagementInv, TypeOK, OthersOK, Good, AccountsOK, Counted, BytesCountedOnce

\* The same of the next state.
LEMMA InvPartsPrime ==
  ManagementInv' <=> /\ OthersOK' /\ SentIsSound(sent') /\ LastIsLatest' /\ RestIsRead'
                     /\ Good(worker', clock')
BY DEF ManagementInv, TypeOK, OthersOK, Good, AccountsOK, Counted, BytesCountedOnce,
       SentIsSound, CacheFollowsEvents, SamplesFollowCache, Reported

\* What has been emitted is the beginning of what was sent.
LEMMA ReadBegins ==
  ASSUME NEW w, IsWorker(w), NEW events, AllIsRead(w, events)
  PROVE  Begins(w.emitted, events)
<1>1. IsSeq(w.emitted) /\ Begins(w.emitted, w.emitted)
  BY EmittedIsSeq
<1>2. Begins(w.emitted, Append(w.emitted, w.collecting))
  BY <1>1, BeginsAppend
<1> QED BY <1>1, <1>2 DEF AllIsRead

\* What the worker will have read in the end.
LEMMA Final ==
  ASSUME StreamOK, RestIsRead
  PROVE  /\ Len(stream) \in Nat
         /\ IsWorker(Received(worker, stream, clock))
         /\ AllIsRead(Received(worker, stream, clock), sent)
         /\ Begins(worker.emitted, sent)
<1> DEFINE final == Received(worker, stream, clock)
<1>1. Len(stream) \in Nat /\ IsWorker(worker)
  BY DEF StreamOK
<1>2. IsWorker(final) /\ Begins(worker.emitted, final.emitted)
  BY <1>1, ReceivedShape
<1>3. AllIsRead(final, sent)
  BY DEF RestIsRead
<1> HIDE DEF final
<1>4. Begins(final.emitted, sent)
  BY <1>2, <1>3, ReadBegins
<1>5. Begins(worker.emitted, sent)
  BY <1>2, <1>4, BeginsTransitive
<1> QED BY <1>1, <1>2, <1>3, <1>5 DEF final

\* At the start nothing is sent, read or counted.
LEMMA InitInv == Init => ManagementInv /\ StreamOK
<1> SUFFICES ASSUME Init PROVE ManagementInv /\ StreamOK
  OBVIOUS
<1>1. /\ worker.buf = <<>> /\ worker.collecting = NoEvent /\ worker.emitted = <<>>
      /\ worker.clientCache = <<>> /\ worker.rxBytes = 0
      /\ worker.sampled = [c \in Cids |-> [bytes |-> 0, time |-> 0]]
  BY DEF Init
<1>2. DOMAIN worker.clientCache = {}
  BY <1>1
<1>3. <<>> \in Seq(Event) /\ <<>> \in Seq(Text) /\ DOMAIN <<>> = {}
  OBVIOUS
<1>4. StreamOK
  <2>1. IsSeq(worker.emitted)
    BY <1>1, <1>3 DEF IsSeq
  <2>2. IsWorker(worker)
    BY <2>1 DEF IsWorker, Init
  <2> QED BY <1>3, <2>2 DEF StreamOK, Init
<1>5. OthersOK
  BY ManagementAssumption DEF Init, OthersOK
<1>6. SentIsSound(sent) /\ LastIsLatest
  BY <1>3 DEF Init, SentIsSound, LastIsLatest
<1>7. RestIsRead
  <2>1. stream = <<>> /\ sent = <<>>
    BY DEF Init
  <2>2. Received(worker, stream, clock) = worker
    BY <2>1, NothingReceived
  <2> QED BY <1>1, <2>1, <2>2 DEF RestIsRead, AllIsRead
<1>8. AccountsOK(worker)
  BY <1>1, <1>2 DEF AccountsOK
<1>9. CacheFollowsEvents(worker)
  BY <1>1, <1>2, <1>3 DEF CacheFollowsEvents
<1>10. SamplesFollowCache(worker, clock)
  BY <1>1, <1>2 DEF SamplesFollowCache
<1>11. Counted(worker)
  <2>1. Reported(worker) = {}
    BY <1>2 DEF Reported
  <2> QED BY <1>1, <2>1, FS_EmptySet DEF Counted
<1> QED BY <1>4, <1>5, <1>6, <1>7, <1>8, <1>9, <1>10, <1>11, InvParts DEF Good

\* A chunk takes words from the stream that were read as the same in advance.
LEMMA DataArrivesInv ==
  ASSUME ManagementInv, StreamOK, NEW n \in 1 .. Len(stream), DataArrives(n)
  PROVE  ManagementInv' /\ StreamOK'
<1> DEFINE first == SubSeq(stream, 1, n)
           rest == SubSeq(stream, n + 1, Len(stream))
<1>1. /\ OthersOK /\ SentIsSound(sent) /\ LastIsLatest /\ RestIsRead /\ Good(worker, clock)
  BY InvParts
<1>2. stream \in Seq(Text) /\ Len(stream) \in Nat /\ IsWorker(worker)
  BY DEF StreamOK
<1>3. /\ worker' = Received(worker, first, clock) /\ stream' = rest
      /\ sent' = sent /\ messages' = messages /\ bytes' = bytes /\ clock' = clock
  BY DEF DataArrives
<1>4. first \in Seq(Text) /\ rest \in Seq(Text) /\ Len(first) \in Nat /\ Len(rest) \in Nat
  BY <1>2
<1>5. first \o rest = stream
  <2>1. SubSeq(stream, 1, n) \o SubSeq(stream, n + 1, Len(stream)) = SubSeq(stream, 1, Len(stream))
    <3>1. 1 \in 1 .. Len(stream) + 1 /\ n \in 1 - 1 .. Len(stream) /\ Len(stream) \in n .. Len(stream)
      BY <1>2
    <3> QED BY <1>2, <3>1, ConcatAdjacentSubSeq
  <2> QED BY <1>2, <2>1, SubSeqFull
<1> HIDE DEF first, rest
<1>6. Received(worker, stream, clock) = Received(worker', stream', clock')
  <2>1. Received(worker, first \o rest, clock) = Received(Received(worker, first, clock), rest, clock)
    BY <1>4, ReceivedConcat
  <2> QED BY <1>3, <1>5, <2>1
<1>7. RestIsRead'
  BY <1>1, <1>3, <1>6 DEF RestIsRead, AllIsRead
<1>8. IsWorker(worker')
  BY <1>2, <1>3, <1>4, ReceivedShape
<1>9. StreamOK'
  BY <1>3, <1>4, <1>8 DEF StreamOK, IsWorker, IsSeq
<1>10. Begins(worker'.emitted, sent)
  <2>1. AllIsRead(Received(worker', stream', clock'), sent) /\ IsWorker(Received(worker', stream', clock'))
    BY <1>1, <1>6, Final
  <2>2. Begins(worker'.emitted, Received(worker', stream', clock').emitted)
    BY <1>3, <1>4, <1>8, ReceivedShape
  <2>3. Begins(Received(worker', stream', clock').emitted, sent)
    BY <2>1, ReadBegins
  <2> QED BY <2>2, <2>3, BeginsTransitive
<1>11. Good(worker', clock')
  <2>1. clock \in 0 .. MaxClock
    BY <1>1 DEF OthersOK
  <2>2. Good(Received(worker, first, clock), clock)
    BY <1>1, <1>2, <1>3, <1>4, <1>10, <2>1, ReceivedGood
  <2> QED BY <1>3, <2>2
<1>12. OthersOK' /\ SentIsSound(sent') /\ LastIsLatest'
  BY <1>1, <1>3 DEF OthersOK, LastIsLatest
<1> QED BY <1>7, <1>9, <1>11, <1>12, InvPartsPrime

\* A message keeps the invariant when it is read as the event that was sent with it.
LEMMA SendInv ==
  ASSUME ManagementInv, StreamOK, NEW words \in Seq(Text), NEW events, Send(words, events),
         bytes' \in [Cids -> 0 .. MaxBytes], SentIsSound(sent'), LastIsLatest',
         \A w : IsWorker(w) /\ AllIsRead(w, sent) => AllIsRead(Received(w, words, clock), sent')
  PROVE  ManagementInv' /\ StreamOK'
<1>1. OthersOK /\ RestIsRead /\ Good(worker, clock)
  BY InvParts
<1>2. stream \in Seq(Text) /\ IsWorker(worker)
  BY DEF StreamOK
<1>3. /\ messages < MaxMessages /\ messages' = messages + 1 /\ stream' = stream \o words
      /\ worker' = worker /\ clock' = clock
  BY DEF Send
<1>4. OthersOK'
  <2>1. messages' \in 0 .. MaxMessages
    BY <1>1, <1>3, ManagementAssumption DEF OthersOK
  <2> QED BY <1>1, <1>3, <2>1 DEF OthersOK
<1>5. StreamOK'
  <2>1. stream' \in Seq(Text)
    BY <1>2, <1>3, ConcatProperties
  <2> QED BY <1>2, <1>3, <2>1 DEF StreamOK, IsWorker
<1>6. Received(worker, stream \o words, clock) = Received(Received(worker, stream, clock), words, clock)
  BY <1>2, ReceivedConcat
<1>7. AllIsRead(Received(worker, stream \o words, clock), sent')
  BY <1>1, <1>6, Final
<1>8. RestIsRead'
  BY <1>3, <1>7 DEF RestIsRead, AllIsRead
<1>9. Good(worker', clock')
  BY <1>1, <1>3
<1> QED BY <1>4, <1>5, <1>8, <1>9, InvPartsPrime

\* A client event is one message.
LEMMA SendsNoticeInv ==
  ASSUME ManagementInv, StreamOK, NEW type \in Notices, NEW cid \in Cids, SendsNotice(type, cid)
  PROVE  ManagementInv' /\ StreamOK'
<1> DEFINE words == Line(<<type, cid>>) \o EnvLines(type, cid)
           events == IF type \in EventTypes THEN <<Notice(type, cid)>> ELSE <<>>
<1>1. OthersOK /\ SentIsSound(sent) /\ LastIsLatest
  BY InvParts
<1>2. /\ Send(words, events) /\ bytes' = bytes
      /\ type = "ESTABLISHED" => \A k \in DOMAIN sent : ~IsOf(sent, "ESTABLISHED", cid, k)
  BY DEF SendsNotice
<1>3. sent' = sent \o events
  BY <1>2 DEF Send
<1>4. words \in Seq(Text)
  BY EnvIsText
<1>5. CASE type \in EventTypes
  <2> DEFINE e == Notice(type, cid)
  <2>1. e \in Event /\ e.event = type /\ e.cid = cid /\ type # "BYTECOUNT_CLI"
    BY <1>5 DEF Event, Notice, EventTypes
  <2>2. sent' = sent \o <<e>>
    BY <1>3, <1>5
  <2>3. \A w : IsWorker(w) /\ AllIsRead(w, sent) => AllIsRead(Received(w, words, clock), Append(sent, e))
    BY <1>5, NoticeRead
  <2> HIDE DEF e, words, events
  <2>4. sent' = Append(sent, e) /\ SentIsSound(Append(sent, e)) /\ Grows(sent, Append(sent, e), e)
    BY <1>1, <1>2, <2>1, <2>2, SendsOne
  <2>5. LastIsLatest'
    BY <1>1, <1>2, <2>1, <2>4, LatestKept
  <2>6. bytes' \in [Cids -> 0 .. MaxBytes]
    BY <1>1, <1>2 DEF OthersOK
  <2> QED BY <1>2, <1>4, <2>3, <2>4, <2>5, <2>6, SendInv
<1>6. CASE type \notin EventTypes
  <2>1. sent' = sent
    <3>1. sent' = sent \o <<>> /\ sent \in Seq(Event)
      BY <1>1, <1>3, <1>6 DEF SentIsSound
    <3> QED BY <3>1, ConcatEmptySeq
  <2>2. \A w : IsWorker(w) /\ AllIsRead(w, sent) => AllIsRead(Received(w, words, clock), sent)
    BY <1>6, ReauthRead
  <2> HIDE DEF words, events
  <2>3. SentIsSound(sent') /\ bytes' \in [Cids -> 0 .. MaxBytes]
    BY <1>1, <1>2, <2>1 DEF OthersOK
  <2>4. LastIsLatest'
    BY <1>1, <1>2, <2>1 DEF LastIsLatest
  <2> QED BY <1>2, <1>4, <2>1, <2>2, <2>3, <2>4, SendInv
<1> QED BY <1>5, <1>6

\* A report is one message, of no fewer bytes than those before.
LEMMA SendsBytecountInv ==
  ASSUME ManagementInv, StreamOK, NEW cid \in Cids, NEW n \in 0 .. MaxBytes, SendsBytecount(cid, n)
  PROVE  ManagementInv' /\ StreamOK'
<1> DEFINE m == bytes[cid] + n
           words == Line(<<"BYTECOUNT_CLI", cid, m>>)
           e == Bytecount(cid, m)
<1>1. OthersOK /\ SentIsSound(sent) /\ LastIsLatest /\ bytes \in [Cids -> 0 .. MaxBytes]
  BY InvParts DEF OthersOK
<1>2. m \in 0 .. MaxBytes /\ n \in Nat /\ bytes[cid] \in Nat
  BY <1>1, ManagementAssumption DEF SendsBytecount
<1>3. Send(words, <<e>>) /\ bytes' = [bytes EXCEPT ![cid] = bytes[cid] + n]
  BY DEF SendsBytecount
<1>4. bytes' \in [Cids -> 0 .. MaxBytes]
  BY <1>1, <1>2, <1>3
<1>5. sent' = sent \o <<e>>
  BY <1>3 DEF Send
<1>6. e \in Event /\ e.event = "BYTECOUNT_CLI" /\ e.cid = cid /\ e.bytes = m
  BY <1>2 DEF Event, Bytecount
<1>7. words \in Seq(Text)
  <2> HIDE DEF m
  <2>1. <<"BYTECOUNT_CLI", cid, m>> \in Seq(Words)
    BY <1>2, MessageWords
  <2> QED BY <2>1, LineIsText
<1>8. \A w : IsWorker(w) /\ AllIsRead(w, sent) => AllIsRead(Received(w, words, clock), Append(sent, e))
  <2> HIDE DEF m
  <2> QED BY <1>2, BytecountRead
<1>9. \A c \in Cids, k \in DOMAIN sent :
        c = cid /\ IsOf(sent, "BYTECOUNT_CLI", c, k) => sent[k].bytes <= m
  <2> SUFFICES ASSUME NEW k \in DOMAIN sent, IsOf(sent, "BYTECOUNT_CLI", cid, k)
               PROVE  sent[k].bytes <= m
    OBVIOUS
  <2>1. sent[k].bytes <= bytes[cid]
    BY <1>1 DEF LastIsLatest
  <2>2. sent[k].bytes \in Nat
    <3>1. sent[k] \in Event /\ sent[k].event = "BYTECOUNT_CLI"
      BY <1>1, ElementOfSeq DEF SentIsSound, IsOf
    <3>2. sent[k].bytes \in 0 .. MaxBytes
      BY <3>1, EventIs
    <3> QED BY <3>2, ManagementAssumption
  <2> QED BY <1>2, <2>1, <2>2
<1>10. sent' = Append(sent, e) /\ SentIsSound(Append(sent, e)) /\ Grows(sent, Append(sent, e), e)
  <2> HIDE DEF e, m
  <2> QED BY <1>1, <1>5, <1>6, <1>9, SendsOne
<1>11. LastIsLatest'
  <2>1. Grows(sent, sent', Bytecount(cid, bytes[cid] + n))
    BY <1>10
  <2> QED BY <1>1, <1>2, <1>3, <2>1, LatestMoves
<1> HIDE DEF e, m, words
<1> QED BY <1>3, <1>4, <1>7, <1>8, <1>10, <1>11, SendInv

\* So is a log message.
LEMMA SendsLogInv ==
  ASSUME ManagementInv, StreamOK, SendsLog
  PROVE  ManagementInv' /\ StreamOK'
<1> DEFINE line == <<"LOG", "message">>
           words == Line(line)
           e == [event |-> "LOG"]
<1>1. OthersOK /\ SentIsSound(sent) /\ LastIsLatest /\ bytes \in [Cids -> 0 .. MaxBytes]
  BY InvParts DEF OthersOK
<1>2. Send(words, <<e>>) /\ bytes' = bytes
  BY DEF SendsLog
<1>3. sent' = sent \o <<e>>
  BY <1>2 DEF Send
<1>4. e \in Event /\ e.event \notin {"BYTECOUNT_CLI", "ESTABLISHED"}
  BY DEF Event
<1>5. words \in Seq(Text)
  <2>1. line \in Seq(Words)
    BY DEF Words
  <2> HIDE DEF line
  <2> QED BY <2>1, LineIsText
<1>6. \A w : IsWorker(w) /\ AllIsRead(w, sent) => AllIsRead(Received(w, words, clock), Append(sent, e))
  BY LogRead
<1> HIDE DEF e, words
<1>7. sent' = Append(sent, e) /\ SentIsSound(Append(sent, e)) /\ Grows(sent, Append(sent, e), e)
  BY <1>1, <1>3, <1>4, SendsOne
<1>8. LastIsLatest'
  BY <1>1, <1>2, <1>4, <1>7, LatestKept
<1> QED BY <1>1, <1>2, <1>5, <1>6, <1>7, <1>8, SendInv

\* The clock has no part in what the rest of the stream is read as.
LEMMA TickInv ==
  ASSUME ManagementInv, StreamOK, Tick
  PROVE  ManagementInv' /\ StreamOK'
<1>1. /\ OthersOK /\ SentIsSound(sent) /\ LastIsLatest /\ RestIsRead /\ Good(worker, clock)
  BY InvParts
<1>2. /\ clock < MaxClock /\ clock' = clock + 1 /\ worker' = worker /\ stream' = stream
      /\ sent' = sent /\ messages' = messages /\ bytes' = bytes
  BY DEF Tick, openvpn
<1>3. OthersOK'
  BY <1>1, <1>2, ManagementAssumption DEF OthersOK
<1>4. StreamOK'
  BY <1>2 DEF StreamOK, IsWorker
<1>5. SentIsSound(sent') /\ LastIsLatest'
  BY <1>1, <1>2 DEF LastIsLatest
<1>6. RestIsRead'
  <2>1. SameParser(Received(worker, stream, clock), Received(worker, stream, clock + 1))
    BY ReceivedSame DEF StreamOK
  <2>2. AllIsRead(Received(worker, stream, clock + 1), sent)
    BY <1>1, <2>1 DEF RestIsRead, AllIsRead, SameParser
  <2> QED BY <1>2, <2>2 DEF RestIsRead, AllIsRead
<1>7. Good(worker, clock + 1)
  <2>1. SamplesFollowCache(worker, clock + 1)
    <3>1. \A c \in DOMAIN worker.clientCache : worker.clientCache[c].ts \in Nat
      BY <1>1, ManagementAssumption DEF Good, AccountsOK, Entry
    <3>2. clock \in Nat
      BY <1>1, ManagementAssumption DEF OthersOK
    <3> QED BY <1>1, <3>1, <3>2 DEF Good, SamplesFollowCache
  <2> QED BY <1>1, <2>1 DEF Good
<1> QED BY <1>2, <1>3, <1>4, <1>5, <1>6, <1>7, InvPartsPrime

\* The two are inductive together.
LEMMA Inductive == Spec => [](ManagementInv /\ StreamOK)
<1>1. Init => ManagementInv /\ StreamOK
  BY InitInv
<1>2. ManagementInv /\ StreamOK /\ [Next]_vars => ManagementInv' /\ StreamOK'
  <2> SUFFICES ASSUME ManagementInv, StreamOK, [Next]_vars PROVE ManagementInv' /\ StreamOK'
    OBVIOUS
  <2>1. ASSUME NEW n \in 1 .. Len(stream), DataArrives(n) PROVE ManagementInv' /\ StreamOK'
    BY <2>1, DataArrivesInv
  <2>2. ASSUME NEW type \in Notices, NEW cid \in Cids, SendsNotice(type, cid)
        PROVE  ManagementInv' /\ StreamOK'
    BY <2>2, SendsNoticeInv
  <2>3. ASSUME NEW cid \in Cids, NEW n \in 0 .. MaxBytes, SendsBytecount(cid, n)
        PROVE  ManagementInv' /\ StreamOK'
    BY <2>3, SendsBytecountInv
  <2>4. CASE SendsLog
    BY <2>4, SendsLogInv
  <2>5. CASE Tick
    BY <2>5, TickInv
  <2>6. CASE UNCHANGED vars
    <3>1. /\ worker' = worker /\ stream' = stream /\ sent' = sent /\ messages' = messages
          /\ bytes' = bytes /\ clock' = clock
      BY <2>6 DEF vars, openvpn
    <3>2. StreamOK'
      BY <3>1 DEF StreamOK, IsWorker
    <3>3. /\ OthersOK /\ SentIsSound(sent) /\ LastIsLatest /\ RestIsRead /\ Good(worker, clock)
      BY InvParts
    <3>4. OthersOK' /\ SentIsSound(sent') /\ LastIsLatest' /\ Good(worker', clock')
      BY <3>1, <3>3 DEF OthersOK, LastIsLatest
    <3>5. RestIsRead'
      BY <3>1, <3>3 DEF RestIsRead, AllIsRead
    <3> QED BY <3>2, <3>4, <3>5, InvPartsPrime
  <2> QED BY <2>1, <2>2, <2>3, <2>4, <2>5, <2>6 DEF Next
<1> QED BY <1>1, <1>2, PTL DEF Spec

\* Whatever OpenVPN sends and however its stream is cut, the parser of VpnManager
\* and the accounts of the worker are what the inductive invariant says: the
\* words not yet read will be read as the events that were sent, the cache follows
\* the events, samples stay within the cache, and no byte is counted twice.
THEOREM ManagementInvariant == Spec => []ManagementInv
BY Inductive, PTL

\* No event of the stream is lost, emitted twice, out of order or with another's
\* environment by the listeners that VpnManager puts in place of one another.
THEOREM EventsAreNotLost == Spec => []NoEventLost
<1>1. ManagementInv /\ StreamOK => NoEventLost
  <2> SUFFICES ASSUME ManagementInv, StreamOK PROVE NoEventLost
    OBVIOUS
  <2>1. RestIsRead /\ SentIsSound(sent)
    BY InvParts
  <2>2. Begins(worker.emitted, sent)
    BY <2>1, Final
  <2>3. IsPrefix(worker.emitted, sent)
    <3> DEFINE e == worker.emitted
               n == Len(e)
    <3>1. sent \in Seq(Event) /\ Len(sent) \in Nat /\ n \in Nat /\ n <= Len(sent)
      BY <2>1, <2>2, AppendAny DEF Begins, SentIsSound
    <3>2. PICK S : e \in Seq(S)
      BY <2>2 DEF Begins, IsSeq
    <3>3. \A i \in 1 .. n : e[i] = sent[i] /\ e[i] \in S /\ sent[i] \in S
      BY <2>2, <3>2, ElementOfSeq DEF Begins
    <3>4. SubSeq(e, 1, n) = e
      BY <3>2, SubSeqFull
    <3> DEFINE p == SubSeq(sent, 1, n)
    <3>5. p \in Seq(S) /\ Len(p) = n /\ \A i \in 1 .. n : p[i] = sent[i]
      <4> HIDE DEF n
      <4> QED BY <3>1, <3>3, SubSeqProperties
    <3> HIDE DEF p
    <3>6. p = e
      BY <3>2, <3>3, <3>5, SeqEqual
    <3> QED BY <3>1, <3>4, <3>6 DEF IsPrefix, p
  <2>4. ASSUME stream = <<>> PROVE AllIsRead(worker, sent)
    BY <2>1, <2>4, NothingReceived DEF RestIsRead
  <2> QED BY <2>3, <2>4 DEF NoEventLost, AllIsRead
<1> QED BY <1>1, Inductive, PTL

\* RxBytes counts each byte that the latest reports of the clients are about once,
\* though a report says how many there have been and not how many are new.
THEOREM BytesAreCountedOnce == Spec => []BytesCountedOnce
<1>1. ManagementInv => BytesCountedOnce
  BY DEF ManagementInv
<1> QED BY <1>1, Inductive, PTL

\* When all has been read, a client that reported after it was established is in
\* the cache with all its bytes, those of reports that were dropped included.
THEOREM LatestAreCounted == Spec => []LatestBytesCounted
<1>1. ManagementInv /\ StreamOK => LatestBytesCounted
  <2> SUFFICES ASSUME ManagementInv, StreamOK, stream = <<>>, NEW c \in Cids,
                      NEW j \in DOMAIN sent, NEW k \in DOMAIN sent, j < k,
                      IsOf(sent, "ESTABLISHED", c, j), IsOf(sent, "BYTECOUNT_CLI", c, k)
               PROVE  c \in DOMAIN worker.clientCache /\ worker.clientCache[c].bytes = bytes[c]
    BY DEF LatestBytesCounted
  <2> DEFINE s == worker.emitted
  <2>1. OthersOK /\ SentIsSound(sent) /\ LastIsLatest /\ RestIsRead /\ Good(worker, clock)
    BY InvParts
  <2>2. AllIsRead(worker, sent)
    BY <2>1, NothingReceived DEF RestIsRead
  <2>3. IsSeq(s) /\ Len(s) \in Nat /\ DOMAIN s = 1 .. Len(s)
    BY EmittedIsSeq, AppendAny DEF StreamOK
  \* An ADDRESS that is held is neither of the two.
  <2>4. ASSUME NEW i \in DOMAIN sent, NEW type \in {"ESTABLISHED", "BYTECOUNT_CLI"}, IsOf(sent, type, c, i)
        PROVE  i \in DOMAIN s /\ IsOf(s, type, c, i) /\ s[i] = sent[i]
    <3>1. CASE sent = s
      BY <2>4, <3>1
    <3>2. CASE worker.collecting.event = "ADDRESS" /\ sent = Append(s, worker.collecting)
      <4>1. Grows(s, sent, worker.collecting)
        BY <2>3, <3>2, AppendGrows
      <4> HIDE DEF s
      <4> QED BY <2>4, <3>2, <4>1 DEF Grows, IsOf
    <3> QED BY <2>2, <3>1, <3>2 DEF AllIsRead
  <2>5. j \in DOMAIN s /\ IsOf(s, "ESTABLISHED", c, j)
    BY <2>4
  <2>6. c \in DOMAIN worker.clientCache
    BY <2>1, <2>5 DEF Good, CacheFollowsEvents
  <2>7. PICK l \in DOMAIN sent : l >= k /\ IsOf(sent, "BYTECOUNT_CLI", c, l) /\ sent[l].bytes = bytes[c]
    BY <2>1 DEF LastIsLatest
  <2>8. l \in DOMAIN s /\ IsOf(s, "BYTECOUNT_CLI", c, l) /\ s[l] = sent[l]
    BY <2>4, <2>7
  <2>9. j < l
    <3>1. k \in Nat /\ l \in Nat /\ j \in Nat
      BY <2>1 DEF SentIsSound
    <3> QED BY <2>7, <3>1
  <2>10. s[l].bytes <= worker.clientCache[c].bytes
    BY <2>1, <2>5, <2>6, <2>8, <2>9 DEF Good, CacheFollowsEvents
  <2>11. worker.clientCache[c].bytes <= bytes[c]
    <3>1. \/ worker.clientCache[c].bytes = 0
          \/ \E i \in DOMAIN s : IsOf(s, "BYTECOUNT_CLI", c, i) /\ s[i].bytes = worker.clientCache[c].bytes
      BY <2>1, <2>6 DEF Good, CacheFollowsEvents
    <3>2. CASE worker.clientCache[c].bytes = 0
      BY <2>1, <3>2, ManagementAssumption DEF OthersOK
    <3>3. ASSUME NEW i \in DOMAIN s, IsOf(s, "BYTECOUNT_CLI", c, i),
                 s[i].bytes = worker.clientCache[c].bytes
          PROVE  worker.clientCache[c].bytes <= bytes[c]
      <4>1. i \in DOMAIN sent /\ sent[i] = s[i]
        <5>1. Begins(s, sent)
          BY <2>1, Final
        <5>2. Len(sent) \in Nat /\ DOMAIN sent = 1 .. Len(sent)
          BY <2>1 DEF SentIsSound
        <5> QED BY <2>3, <5>1, <5>2 DEF Begins
      <4>2. IsOf(sent, "BYTECOUNT_CLI", c, i)
        BY <3>3, <4>1 DEF IsOf
      <4>3. sent[i].bytes <= bytes[c]
        BY <2>1, <4>1, <4>2 DEF LastIsLatest
      <4> QED BY <3>3, <4>1, <4>3
    <3> QED BY <3>1, <3>2, <3>3
  <2>12. worker.clientCache[c].bytes \in Nat /\ bytes[c] \in Nat
    BY <2>1, <2>6, ManagementAssumption DEF Good, AccountsOK, Entry, OthersOK
  <2>13. bytes[c] <= worker.clientCache[c].bytes
    BY <2>7, <2>8, <2>10
  <2> HIDE DEF s
  <2> QED BY <2>6, <2>11, <2>12, <2>13
<1> QED BY <1>1, Inductive, PTL

\* The bitrates that writeBandwidthMetrics sends to the primary claim no byte that
\* was not received and no second twice.
THEOREM BitratesTrue == Spec => []BitratesAreTrue
<1>1. ManagementInv => BitratesAreTrue
  <2> SUFFICES ASSUME ManagementInv, NEW c \in DOMAIN worker.clientCache
               PROVE  /\ worker.sampled[c].bytes <= worker.clientCache[c].bytes
                      /\ worker.sampled[c].time <= clock
    BY DEF BitratesAreTrue
  <2>1. OthersOK /\ Good(worker, clock)
    BY InvParts
  <2>2. /\ worker.clientCache[c].ts <= clock
        /\ worker.sampled[c].bytes <= worker.clientCache[c].bytes
        /\ worker.sampled[c].time <= worker.clientCache[c].ts
    BY <2>1 DEF Good, SamplesFollowCache
  <2>3. c \in Cids /\ worker.clientCache[c].ts \in Nat /\ clock \in Nat
    BY <2>1, ManagementAssumption DEF Good, AccountsOK, Entry, OthersOK
  <2>4. worker.sampled[c].time \in Nat
    BY <2>1, <2>3 DEF Good, AccountsOK
  <2> QED BY <2>2, <2>3, <2>4
<1> QED BY <1>1, Inductive, PTL

=============================================================================
