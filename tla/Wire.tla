-------------------------------- MODULE Wire --------------------------------
(***************************************************************************)
(* One direction of a connection, from the threads that send messages to   *)
(* the session that handles them: encoder_t packs the headers under the    *)
(* sender's trace, the socket delivers the bytes in any portions,          *)
(* readable_stream gathers them in its ring, decoder_t unpacks the frames  *)
(* with its HPACK table and pull_action_t hands them to the session.       *)
(*                                                                         *)
(* The far end is this program ("cocaine") or another implementation of    *)
(* the protocol, which uses every form of a header HPACK has.              *)
(***************************************************************************)
EXTENDS HeaderTable, Trace

CONSTANTS
  InitialSize,    \* kInitialBufferSize of the ring
  Senders,        \* the kinds of far ends
  FrameSize,      \* far end -> bytes of its n-th frame
  PeerHeaders,    \* far end -> headers it sends
  Faulty          \* far ends that may send a bad frame, close or be dropped

ASSUME WireAssumption ==
  /\ InitialSize \in Nat \ {0}
  /\ \A s \in Senders : \A n \in DOMAIN FrameSize[s] : FrameSize[s][n] \in Nat \ {0}

VARIABLES
  sender,         \* the far end of this connection
  frames,         \* history: the frames sent
  peerTable,      \* the dynamic table of the other implementation's encoder
  closed,         \* the sender has closed its end
  socket,         \* bytes on their way; a byte is <<frame, position>>
  ring,           \* m_ring, from offset 0
  rd,             \* m_rd_offset
  rx,             \* m_rx_offset
  table,          \* hpack_context of the decoder
  metadata,       \* headers of message
  pump,           \* "armed": a read is pending; or the handler is posted
  code,           \* error code of the posted handler
  attached,       \* the session has its transport
  handled         \* history: the headers of each message handled

readVars == <<ring, rd, rx, table, metadata, pump, code, attached, handled>>
sendVars == <<sender, frames, peerTable, closed>>
wireVars == <<traceVars, readVars, sendVars, socket>>

Junk == <<0, 0>>

WireInit ==
  /\ TraceInit
  /\ sender \in Senders
  /\ frames = <<>> /\ peerTable = <<>> /\ closed = FALSE
  /\ socket = <<>>
  /\ ring = [i \in 1..InitialSize |-> Junk] /\ rd = 0 /\ rx = 0
  /\ table = <<>> /\ metadata = <<>>
  /\ pump = "armed" /\ code = "none"
  /\ attached = TRUE
  /\ handled = <<>>

-----------------------------------------------------------------------------
(* Sender *)

Frame(kind, packed, headers, ids) ==
  [kind |-> kind, packed |-> packed, headers |-> headers, ids |-> ids,
   size |-> FrameSize[sender][Len(frames) + 1]]

\* tether() and write(): the whole frame enters the socket's stream.
Transmit(f) ==
  /\ ~closed /\ frames' = Append(frames, f)
  /\ socket' = socket \o [k \in 1..f.size |-> <<Len(frames) + 1, k>>]
  /\ UNCHANGED <<sender, closed>>

WellFormed(f) == f.kind = "message" /\ f.headers # <<>>

CanSend == ~closed /\ Len(frames) < Len(FrameSize[sender])

\* A message of this program: one more is encoded in this step.  It repeats
\* the trace headers of the message it forwards, which are out of date.
CocaineSends ==
  /\ sender = "cocaine" /\ CanSend
  /\ Speaks
  /\ LET ids == sent'[Len(sent')].ids
         given == <<Header("trace_id", Number(7)), Header("kind", Text("x"))>>
     IN  Transmit(Frame("message", PackHeaders(ids, given), <<Header("kind", Text("x"))>>,
                        sent'[Len(sent')].from))
  /\ UNCHANGED <<peerTable, readVars>>

\* The forms in which h may be sent, given the encoder's table, with the
\* table after each: an index, or a name and a value of which the name may
\* be an index.  RFC 7541 keeps the newest headers that fit.
PeerForms(t, h) ==
  LET named == {i \in 1..(StaticSize + Len(t) - 1) : At(t, i).name = h.name}
      same == {i \in named : At(t, i) = h}
      refs == {0} \cup {i \in named : \A j \in named : i <= j}
      all == <<h>> \o t
      pushed == SubSeq(all, 1, Max({k \in 0..Len(all) : DataSize(SubSeq(all, 1, k)) <= Capacity}))
  IN  {[packed |-> Index(i), table |-> t] : i \in same}
      \cup {[packed |-> Literal(s, i, IF i = 0 THEN h ELSE Header("", h.value)),
             table |-> IF s THEN pushed ELSE t] : s \in BOOLEAN, i \in refs}

PeerSends ==
  /\ sender # "cocaine" /\ CanSend
  /\ \E h \in PeerHeaders[sender] : \E p \in PeerForms(peerTable, h) :
       /\ Transmit(Frame("message", <<p.packed>>, <<h>>, <<>>))
       /\ peerTable' = p.table
  /\ UNCHANGED <<traceVars, readVars>>

\* A frame that is not a message, not MessagePack, or has a header that is
\* not one or an index out of the table.
PeerErrs ==
  /\ sender # "cocaine" /\ CanSend
  /\ sender \in Faulty /\ \A i \in DOMAIN frames : WellFormed(frames[i])
  /\ \E f \in {Frame("shapeless", <<>>, <<>>, <<>>), Frame("noise", <<>>, <<>>, <<>>),
               Frame("message", <<Malformed>>, <<>>, <<>>),
               Frame("message", <<Index(StaticSize + 9)>>, <<>>, <<>>)} : Transmit(f)
  /\ UNCHANGED <<traceVars, peerTable, readVars>>

Close ==
  /\ sender \in Faulty /\ ~closed /\ closed' = TRUE
  /\ UNCHANGED <<traceVars, sender, frames, peerTable, socket, readVars>>

-----------------------------------------------------------------------------
(* readable_stream and decoder_t *)

\* unpack() of the bytes from the read offset on and the checks of decode():
\* the code, the bytes taken and the headers found.
Decode(data) ==
  LET n == data[1][1]
      whole == [k \in 1..frames[n].size |-> <<n, k>>]
      result(c) == [code |-> c, size |-> 0, packed |-> <<>>]
  IN  CASE data = <<>> -> result("insufficient_bytes")
        [] data # <<>> /\ (data[1] = Junk \/ ~(IsPrefix(data, whole) \/ IsPrefix(whole, data))) ->
             result("parse_error")
        [] OTHER ->
             CASE frames[n].kind = "noise" -> result("parse_error")
               [] frames[n].kind # "noise" /\ Len(data) < frames[n].size -> result("insufficient_bytes")
               [] frames[n].kind = "shapeless" /\ Len(data) >= frames[n].size ->
                    result("frame_format_error")
               [] frames[n].kind = "message" /\ Len(data) >= frames[n].size ->
                    [code |-> "ok", size |-> frames[n].size, packed |-> frames[n].packed]

\* The ring is doubled when unprocessed bytes take half of it.
Grow(pending, r) ==
  IF pending * 2 >= Len(r) THEN r \o [i \in 1..Len(r) |-> Junk] ELSE r

\* memmove() of the unprocessed bytes to the front.
Compacted(r, from, to) == [ring |-> SubSeq(r, from + 1, to) \o
  SubSeq(r, to - from + 1, Len(r)), rd |-> to - from]

\* read() with the bytes of r up to `now': posts the handler, or makes room
\* and waits for more.  meta is what the message holds at the call.
Read(r, now, meta) ==
  \E d \in {Decode(SubSeq(r, rx + 1, now))} : \E u \in {UnpackVector(table, d.packed)} :
    /\ table' = u.table
    /\ metadata' = meta \o u.headers
    /\ \/ /\ d.code # "insufficient_bytes"
          /\ pump' = "posted" /\ code' = IF u.ok THEN d.code ELSE "hpack_error"
          /\ ring' = r /\ rd' = now /\ rx' = IF u.ok THEN rx + d.size ELSE rx
       \/ /\ d.code = "insufficient_bytes"
          /\ pump' = "armed" /\ code' = "none"
          /\ \E c \in {IF rx > 0 THEN Compacted(r, rx, now) ELSE [ring |-> r, rd |-> now]} :
               ring' = Grow(now - rx, c.ring) /\ rd' = c.rd /\ rx' = 0

\* fill(): async_read_some() has put n bytes behind the ones there are.
Fill(n) ==
  /\ pump = "armed" /\ n \in 1..Len(socket) /\ n <= Len(ring) - rd
  /\ socket' = SubSeq(socket, n + 1, Len(socket))
  /\ \E r \in {SubSeq(ring, 1, rd) \o SubSeq(socket, 1, n) \o SubSeq(ring, rd + n + 1, Len(ring))} :
       Read(r, rd + n, metadata)
  /\ UNCHANGED <<traceVars, sendVars, attached, handled>>

\* fill() at the end of the stream.
Eof ==
  /\ pump = "armed" /\ closed /\ socket = <<>>
  /\ pump' = "posted" /\ code' = "eof"
  /\ UNCHANGED <<traceVars, sendVars, socket, ring, rd, rx, table, metadata, attached, handled>>

\* fill() of a read that was aborted with the transport.
Abort ==
  /\ pump = "armed" /\ ~attached
  /\ pump' = "stopped"
  /\ UNCHANGED <<traceVars, sendVars, socket, ring, rd, rx, table, metadata, code, attached, handled>>

-----------------------------------------------------------------------------
(* pull_action_t *)

\* extract_trace(): three headers of eight bytes each, or no trace.
ExtractTrace(headers) ==
  LET found == [i \in 1..3 |-> FindFirst(headers, TraceName[i])]
  IN  IF \E i \in 1..3 : found[i] = <<>> THEN <<>> ELSE [i \in 1..3 |-> found[i][1][2]]

TraceRefused(headers) ==
  LET ids == ExtractTrace(headers)
  IN  /\ ids # <<>>
      /\ \/ \E i \in 1..3 : FindFirst(headers, TraceName[i])[1][1] # "u64"
         \/ ~ValidIds(ids)

\* Mutant: the message keeps its headers.
FinalizeUncleared ==
  /\ pump = "posted" /\ code = "ok" /\ attached /\ ~TraceRefused(metadata)
  /\ handled' = Append(handled, metadata)
  /\ Read(ring, rd, metadata)
  /\ UNCHANGED <<traceVars, sendVars, socket, attached>>

\* Mutant: the pump is not started again.
FinalizeOnce ==
  /\ pump = "posted" /\ code = "ok" /\ attached /\ ~TraceRefused(metadata)
  /\ handled' = Append(handled, metadata) /\ metadata' = <<>>
  /\ pump' = "stopped"
  /\ UNCHANGED <<traceVars, sendVars, socket, attached, ring, rd, rx, table, code>>

\* finalize() of a message, each on a channel of its own: handle(), clear(),
\* read().
Finalize ==
  /\ pump = "posted" /\ code = "ok" /\ attached /\ ~TraceRefused(metadata)
  /\ handled' = Append(handled, metadata)
  /\ Read(ring, rd, <<>>)
  /\ UNCHANGED <<traceVars, sendVars, socket, attached>>

\* finalize() of an error, or handle() throws: the session is detached.
FinalizeError ==
  /\ pump = "posted"
  /\ code # "ok" \/ attached
  /\ attached' = FALSE
  /\ pump' = "stopped"
  /\ UNCHANGED <<traceVars, sendVars, socket, ring, rd, rx, table, metadata, code, handled>>

\* finalize() after somebody else has detached the session.
FinalizeIgnored ==
  /\ pump = "posted" /\ code = "ok" /\ ~attached
  /\ pump' = "stopped"
  /\ UNCHANGED <<traceVars, sendVars, socket, ring, rd, rx, table, metadata, code, attached, handled>>

DetachElsewhere ==
  /\ sender \in Faulty /\ attached /\ attached' = FALSE
  /\ UNCHANGED <<traceVars, sendVars, socket, ring, rd, rx, table, metadata, pump, code, handled>>

Receives == (\E n \in 1..Len(socket) : Fill(n)) \/ Eof \/ Abort
Finalizes == Finalize \/ FinalizeError \/ FinalizeIgnored

WireNext ==
  \/ sender = "cocaine" /\ Silent /\ UNCHANGED <<readVars, sendVars, socket>>
  \/ CocaineSends \/ PeerSends \/ PeerErrs \/ Close
  \/ Receives \/ Finalizes \/ DetachElsewhere

WireSpec == WireInit /\ [][WireNext]_wireVars

\* The engine's loop runs what is posted to it, and the socket delivers.
WireFairSpec == WireSpec /\ WF_wireVars(Receives) /\ WF_wireVars(Finalizes)

-----------------------------------------------------------------------------

\* The session handles the frames in the order they were sent, each with the
\* headers its sender meant and nothing of the message before it, whichever
\* HPACK form they took, and with the trace of the thread that sent it.  It
\* handles none that is not well-formed and none behind one.
HeadersArrive ==
  \A i \in DOMAIN handled :
    /\ WellFormed(frames[i])
    /\ SelectSeq(handled[i], LAMBDA h : h.name \notin ToSet(TraceName)) = frames[i].headers
    /\ ExtractTrace(handled[i]) = frames[i].ids

\* Once a conforming encoder's frames are all decoded its dynamic table and
\* the decoder's are the same, evictions and oversized headers included.  The
\* decoder's stays within its capacity, and find() and operator[] agree on it:
\* what find() returns is the header, and zero means it is not there.
TablesAgree ==
  /\ sender # "cocaine" /\ code \in {"none", "ok"} /\ rx = rd /\ socket = <<>> => table = peerTable
  /\ DataSize(table) <= Capacity
  /\ \A h \in PeerHeaders[sender] :
       LET i == FindByFullMatch(table, h)
           n == FindByName(table, h)
       IN  /\ IF i = 0 THEN h \notin ToSet(table) ELSE At(table, i) = h
           /\ n > 0 => At(table, n).name = h.name

\* Every frame sent is handled in the end, or the session is detached.
AllHandled == <>[](Len(handled) = Len(frames) \/ ~attached)
=============================================================================
