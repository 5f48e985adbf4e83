----------------------------- MODULE Management -----------------------------
(***************************************************************************)
(* What a worker makes of the stream that OpenVPN's management interface   *)
(* sends it: the VpnManager of src/utils/openvpn.ts puts lines together,   *)
(* and events out of lines; src/vpn-worker.ts keeps the clients and counts *)
(* their traffic.                                                          *)
(*                                                                         *)
(* A line is a sequence of words, its first word the kind of line: LOG,    *)
(* ENV, END (">CLIENT:ENV,END"), BYTECOUNT_CLI or a client event.  The     *)
(* stream is cut anywhere between words.  OpenVPN is external.             *)
(***************************************************************************)
EXTENDS Integers, FiniteSets, Sequences, SequencesExt

CONSTANTS
  Cids,          \* client ids, each used for one connection
  UuidOf,        \* the common name of a client
  NL,            \* the end of a line
  MaxMessages,   \* bound: messages OpenVPN sends
  MaxBytes,      \* bound: bytes a client sends
  MaxClock       \* bound: seconds that go by

ASSUME ManagementAssumption ==
  /\ MaxMessages \in Nat /\ MaxBytes \in Nat /\ MaxClock \in Nat
  /\ IsFiniteSet(Cids)
  \* No other word is a line break.
  /\ NL \notin Cids /\ \A c \in Cids : NL # UuidOf[c]
  /\ NL \notin 0 .. MaxBytes /\ NL \notin {1}
  /\ NL \notin {"LOG", "message", "BYTECOUNT_CLI", "ENV", "common_name", "time_duration", "END",
                "ESTABLISHED", "ADDRESS", "DISCONNECT", "REAUTH"}

VARIABLES
  worker,     \* the state of the VpnManager and of the worker's handlers
  stream,     \* external: words sent by OpenVPN and not received
  sent,       \* external: the events it has sent ...
  messages,   \* ... and the number of messages
  bytes,      \* external: bytes received from a client so far
  clock       \* process.hrtime()[0]

openvpn == <<stream, sent, messages, bytes>>
vars == <<worker, openvpn, clock>>

\* The events listened for, and the client events OpenVPN sends.
EventTypes == {"ESTABLISHED", "CONNECT", "ADDRESS", "DISCONNECT"}
Notices == {"ESTABLISHED", "ADDRESS", "DISCONNECT", "REAUTH"}

NoEvent == [event |-> "none"]

\* The object or map f with an entry set.
Put(f, key, value) == [x \in DOMAIN f \cup {key} |-> IF x = key THEN value ELSE f[x]]

\* buf:         the words of a line that is not complete
\* collecting:  the client event whose environment is being read, or NoEvent
\* emitted:     the events emitted so far
\* clientCache: a function on the established clients
\* rxBytes:     the counter Metrics.RxBytes (TxBytes goes the same way)
\* sampled:     bytes and seconds in the bitrate messages to the primary
Init ==
  /\ worker = [buf |-> <<>>, collecting |-> NoEvent, emitted |-> <<>>,
               clientCache |-> <<>>, rxBytes |-> 0,
               sampled |-> [c \in Cids |-> [bytes |-> 0, time |-> 0]]]
  /\ stream = <<>>
  /\ sent = <<>>
  /\ messages = 0
  /\ bytes = [c \in Cids |-> 0]
  /\ clock = 0

-----------------------------------------------------------------------------
(***************************************************************************)
(* The worker's handlers of the events, on the state w of a worker; now is *)
(* what process.hrtime() returns in them.                                  *)
(***************************************************************************)

\* on('client:established')
established(w, cid, uuid, now) ==
  [w EXCEPT !.clientCache = Put(@, cid, [uuid |-> uuid, bytes |-> 0, ts |-> now])]

\* Mutants: the entry keeps the count of the previous report; a report is
\* taken for the bytes since the last one.
writeBandwidthMetrics_NotNoted(w, cid, received, now) ==
  IF cid \notin DOMAIN w.clientCache THEN w
  ELSE LET entry == w.clientCache[cid]
       IN  [w EXCEPT !.rxBytes = @ + received - entry.bytes,
                     !.sampled[cid] = [bytes |-> @.bytes + received - entry.bytes,
                                       time |-> @.time + now - entry.ts],
                     !.clientCache[cid].ts = now]

writeBandwidthMetrics_Since(w, cid, received, now) ==
  IF cid \notin DOMAIN w.clientCache THEN w
  ELSE [w EXCEPT !.rxBytes = @ + received, !.clientCache[cid].bytes = @ + received]

writeBandwidthMetrics(w, cid, received, now) ==
  IF cid \notin DOMAIN w.clientCache THEN w
  ELSE LET entry == w.clientCache[cid]
           rxDelta == received - entry.bytes
           timeDelta == now - entry.ts
       IN  [w EXCEPT
              !.rxBytes = @ + rxDelta,
              !.sampled[cid] = IF timeDelta > 0
                                 THEN [bytes |-> @.bytes + rxDelta,
                                       time |-> @.time + timeDelta]
                                 ELSE @,
              !.clientCache[cid] = [uuid |-> entry.uuid, bytes |-> received,
                                    ts |-> entry.ts + timeDelta]]

emit(w, e, now) ==
  LET told == [w EXCEPT !.emitted = Append(@, e)]
  IN  CASE e.event = "ESTABLISHED" -> established(told, e.cid, e.env["common_name"], now)
        [] e.event = "BYTECOUNT_CLI" -> writeBandwidthMetrics(told, e.cid, e.bytes, now)
        [] OTHER -> told

-----------------------------------------------------------------------------
(***************************************************************************)
(* The VpnManager.                                                         *)
(***************************************************************************)
dataHandler(w, line, now) ==
  CASE line[1] = "LOG" -> emit(w, [event |-> "LOG"], now)
    [] line[1] \in EventTypes ->
         [w EXCEPT !.collecting = [event |-> line[1], cid |-> line[2], env |-> <<>>]]
    [] line[1] = "BYTECOUNT_CLI" ->
         emit(w, [event |-> "BYTECOUNT_CLI", cid |-> line[2], bytes |-> line[3]], now)
    [] OTHER -> w

\* Mutants: the line that ends an event is not looked at again; an event ends
\* with the END line only, as most do.
emitter_NotAgain(w, line, now) ==
  IF line[1] = "ENV"
    THEN [w EXCEPT !.collecting.env = Put(@, line[2], line[3])]
    ELSE emit([w EXCEPT !.collecting = NoEvent], w.collecting, now)

emitter_UntilEnd(w, line, now) ==
  CASE line[1] = "ENV" -> [w EXCEPT !.collecting.env = Put(@, line[2], line[3])]
    [] line[1] = "END" -> emit([w EXCEPT !.collecting = NoEvent], w.collecting, now)
    [] OTHER -> w

\* The listener of clientEventEmitterFactory, in place of dataHandler until
\* the environment of the event ends.  An event without one is ended by the
\* next line of another kind, which dataHandler gets to see then.
emitter(w, line, now) ==
  IF line[1] = "ENV"
    THEN [w EXCEPT !.collecting.env = Put(@, line[2], line[3])]
    ELSE LET told == emit([w EXCEPT !.collecting = NoEvent], w.collecting, now)
         IN  IF line[1] = "END" THEN told ELSE dataHandler(told, line, now)

onLine(w, line, now) ==
  IF w.collecting = NoEvent THEN dataHandler(w, line, now) ELSE emitter(w, line, now)

\* on('data'): complete lines are emitted, the rest is kept.
onWord(w, word, now) ==
  IF word = NL THEN onLine([w EXCEPT !.buf = <<>>], w.buf, now)
               ELSE [w EXCEPT !.buf = Append(@, word)]

\* The worker after the words of a chunk.
Received(w, words, now) ==
  LET after[k \in 0 .. Len(words)] ==
        IF k = 0 THEN w ELSE onWord(after[k - 1], words[k], now)
  IN  after[Len(words)]

DataArrives(n) ==
  /\ n \in 1 .. Len(stream)
  /\ worker' = Received(worker, SubSeq(stream, 1, n), clock)
  /\ stream' = SubSeq(stream, n + 1, Len(stream))
  /\ UNCHANGED <<sent, messages, bytes, clock>>

-----------------------------------------------------------------------------
(***************************************************************************)
(* OpenVPN.                                                                *)
(***************************************************************************)
Line(words) == Append(words, NL)

Send(words, events) ==
  /\ messages < MaxMessages
  /\ messages' = messages + 1
  /\ stream' = stream \o words
  /\ sent' = sent \o events
  /\ UNCHANGED <<worker, clock>>

\* The k-th event is one of the given type for the client.
IsOf(events, type, cid, k) ==
  k \in DOMAIN events /\ events[k].event = type /\ events[k].cid = cid

\* A client event has an environment, which ADDRESS does not have.
EnvOf(type, cid) ==
  CASE type = "ADDRESS" -> <<>>
    [] type = "DISCONNECT" -> Put(Put(<<>>, "common_name", UuidOf[cid]), "time_duration", 1)
    [] OTHER -> Put(<<>>, "common_name", UuidOf[cid])

EnvLines(type, cid) ==
  CASE type = "ADDRESS" -> <<>>
    [] type = "DISCONNECT" -> Line(<<"ENV", "common_name", UuidOf[cid]>>)
                              \o Line(<<"ENV", "time_duration", 1>>) \o Line(<<"END">>)
    [] OTHER -> Line(<<"ENV", "common_name", UuidOf[cid]>>) \o Line(<<"END">>)

Notice(type, cid) == [event |-> type, cid |-> cid, env |-> EnvOf(type, cid)]

\* A client is established once.
SendsNotice(type, cid) ==
  /\ type = "ESTABLISHED" => \A k \in DOMAIN sent : ~IsOf(sent, "ESTABLISHED", cid, k)
  /\ Send(Line(<<type, cid>>) \o EnvLines(type, cid),
          IF type \in EventTypes THEN <<Notice(type, cid)>> ELSE <<>>)
  /\ UNCHANGED bytes

Bytecount(cid, n) == [event |-> "BYTECOUNT_CLI", cid |-> cid, bytes |-> n]

SendsBytecount(cid, n) ==
  /\ bytes[cid] + n <= MaxBytes
  /\ bytes' = [bytes EXCEPT ![cid] = @ + n]
  /\ Send(Line(<<"BYTECOUNT_CLI", cid, bytes[cid] + n>>), <<Bytecount(cid, bytes[cid] + n)>>)

SendsLog ==
  /\ Send(Line(<<"LOG", "message">>), <<[event |-> "LOG"]>>)
  /\ UNCHANGED bytes

Tick ==
  /\ clock < MaxClock
  /\ clock' = clock + 1
  /\ UNCHANGED <<worker, openvpn>>

Next ==
  \/ \E n \in 1 .. Len(stream) : DataArrives(n)
  \/ \E type \in Notices, cid \in Cids : SendsNotice(type, cid)
  \/ \E cid \in Cids, n \in 0 .. MaxBytes : SendsBytecount(cid, n)
  \/ SendsLog
  \/ Tick

Spec == Init /\ [][Next]_vars

-----------------------------------------------------------------------------
(***************************************************************************)
(* Properties.                                                             *)
(***************************************************************************)
Entry == [uuid : {UuidOf[c] : c \in Cids}, bytes : 0 .. MaxBytes, ts : 0 .. MaxClock]

TypeOK ==
  /\ DOMAIN worker.clientCache \subseteq Cids
  /\ \A c \in DOMAIN worker.clientCache : worker.clientCache[c] \in Entry
  /\ worker.rxBytes \in Nat
  /\ worker.sampled \in [Cids -> [bytes : Nat, time : Nat]]
  /\ messages \in 0 .. MaxMessages
  /\ bytes \in [Cids -> 0 .. MaxBytes]
  /\ clock \in 0 .. MaxClock

\* However the stream is cut into chunks and whichever events have an
\* environment, the listeners hand over to one another such that every event
\* is emitted once, in order and with its own environment.  When all has been
\* read at most the last event is still to be emitted, an ADDRESS that only the
\* next line will end.
NoEventLost ==
  LET held == worker.collecting
  IN  /\ IsPrefix(worker.emitted, sent)
      /\ stream = <<>> =>
           \/ held = NoEvent /\ sent = worker.emitted
           \/ held.event = "ADDRESS" /\ sent = Append(worker.emitted, held)

\* The bytes, in the order they came from a client, that its latest report is
\* about.
Reported(w) ==
  {p \in Cids \X (1 .. MaxBytes) :
     p[1] \in DOMAIN w.clientCache /\ p[2] <= w.clientCache[p[1]].bytes}

\* RxBytes counts every byte that the clients' latest reports are about once.
BytesCountedOnce == worker.rxBytes = Cardinality(Reported(worker))

\* Reports of a client that is not yet established are dropped, but what they
\* were about is counted with the next one.
LatestBytesCounted ==
  stream = <<>> =>
    \A c \in Cids :
      (\E j, k \in DOMAIN sent : /\ j < k
                                 /\ IsOf(sent, "ESTABLISHED", c, j)
                                 /\ IsOf(sent, "BYTECOUNT_CLI", c, k))
        => c \in DOMAIN worker.clientCache /\ worker.clientCache[c].bytes = bytes[c]

\* The bitrates sent to the primary claim no byte that was not received and no
\* second twice.
BitratesAreTrue ==
  \A c \in DOMAIN worker.clientCache :
    /\ worker.sampled[c].bytes <= worker.clientCache[c].bytes
    /\ worker.sampled[c].time <= clock

-----------------------------------------------------------------------------
(***************************************************************************)
(* The inductive invariant.                                                *)
(***************************************************************************)

\* What OpenVPN sends: a client is established once, its reports grow, and the
\* last of them is of all its bytes.
Event ==
  {[event |-> "LOG"]}
    \cup {Notice(type, cid) : type \in EventTypes, cid \in Cids}
    \cup {Bytecount(cid, n) : cid \in Cids, n \in 0 .. MaxBytes}

SentIsSound(events) ==
  /\ events \in Seq(Event)
  /\ \A c \in Cids, j, k \in DOMAIN events :
       /\ IsOf(events, "ESTABLISHED", c, j) /\ IsOf(events, "ESTABLISHED", c, k) => j = k
       /\ IsOf(events, "BYTECOUNT_CLI", c, j) /\ IsOf(events, "BYTECOUNT_CLI", c, k) /\ j < k
            => events[j].bytes <= events[k].bytes

LastIsLatest ==
  \A c \in Cids, k \in DOMAIN sent :
    IsOf(sent, "BYTECOUNT_CLI", c, k) =>
      /\ sent[k].bytes <= bytes[c]
      /\ \E l \in DOMAIN sent :
           l >= k /\ IsOf(sent, "BYTECOUNT_CLI", c, l) /\ sent[l].bytes = bytes[c]

\* Where the worker gets to when it has read the rest of the stream: at the end of
\* a line, with every event emitted but for an ADDRESS that is still held.
AllIsRead(w, events) ==
  /\ w.buf = <<>>
  /\ \/ w.collecting = NoEvent /\ events = w.emitted
     \/ w.collecting.event = "ADDRESS" /\ events = Append(w.emitted, w.collecting)

RestIsRead == AllIsRead(Received(worker, stream, clock), sent)

\* The clients in the cache are those whose ESTABLISHED has been emitted; an entry
\* has the last count that was emitted since.
CacheFollowsEvents(w) ==
  /\ \A c \in Cids :
       c \in DOMAIN w.clientCache <=> \E j \in DOMAIN w.emitted : IsOf(w.emitted, "ESTABLISHED", c, j)
  /\ \A c \in DOMAIN w.clientCache :
       /\ \A j, k \in DOMAIN w.emitted :
            /\ j < k
            /\ IsOf(w.emitted, "ESTABLISHED", c, j)
            /\ IsOf(w.emitted, "BYTECOUNT_CLI", c, k)
            => w.emitted[k].bytes <= w.clientCache[c].bytes
       /\ \/ w.clientCache[c].bytes = 0
          \/ \E k \in DOMAIN w.emitted : /\ IsOf(w.emitted, "BYTECOUNT_CLI", c, k)
                                         /\ w.emitted[k].bytes = w.clientCache[c].bytes

\* What was sampled of a client is within its entry, and nothing was before it had
\* one.
SamplesFollowCache(w, now) ==
  /\ \A c \in Cids \ DOMAIN w.clientCache : w.sampled[c].bytes = 0 /\ w.sampled[c].time = 0
  /\ \A c \in DOMAIN w.clientCache : /\ w.clientCache[c].ts <= now
                                     /\ w.sampled[c].bytes <= w.clientCache[c].bytes
                                     /\ w.sampled[c].time <= w.clientCache[c].ts

\* Inductive: what parser and handlers keep true, types included.
ManagementInv ==
  /\ TypeOK
  /\ SentIsSound(sent) /\ LastIsLatest
  /\ RestIsRead
  /\ CacheFollowsEvents(worker)
  /\ SamplesFollowCache(worker, clock)
  /\ BytesCountedOnce

=============================================================================
