---------------------------- MODULE HeaderTable ----------------------------
(***************************************************************************)
(* The HPACK tables of one direction of a connection: the static table,    *)
(* the dynamic table with its eviction, and the MessagePack form of the    *)
(* headers.  A header is a name and a value; a value is a text or an       *)
(* unsigned 64-bit number, which travels as its eight bytes.               *)
(***************************************************************************)
EXTENDS Naturals, Sequences, SequencesExt

CONSTANTS
  Length(_),      \* bytes of a name or of a text
  Capacity,       \* max_data_capacity
  Overhead        \* http2_header_overhead

ASSUME HeaderTableAssumption == Capacity \in Nat /\ Overhead \in Nat \ {0}

Header(name, value) == [name |-> name, value |-> value]
Text(s) == <<"text", s>>
Number(n) == <<"u64", n>>

-----------------------------------------------------------------------------
(* Static table *)

NamesAtoAge ==
  <<":authority", ":method", ":path", ":scheme", ":status", "accept-charset",
    "accept-encoding", "accept-language", "accept-ranges", "accept",
    "access-control-allow-origin", "age">>
NamesAllowToDate ==
  <<"allow", "authorization", "cache-control", "content-disposition",
    "content-encoding", "content-language", "content-length", "content-location",
    "content-range", "content-type", "cookie", "date">>
NamesEtagToLink ==
  <<"etag", "expect", "expires", "from", "host", "if-match", "if-modified-since",
    "if-none-match", "if-range", "if-unmodified-since", "last-modified", "link">>
NamesLocationToTransfer ==
  <<"location", "max-forwards", "proxy-authenticate", "proxy-authorization", "range",
    "referer", "refresh", "retry-after", "server", "set-cookie",
    "strict-transport-security", "transfer-encoding">>
NamesUserToWww == <<"user-agent", "vary", "via", "www-authenticate">>

TraceName == <<"trace_id", "span_id", "parent_id">>

HttpNames ==
  NamesAtoAge \o NamesAllowToDate \o NamesEtagToLink \o NamesLocationToTransfer
    \o NamesUserToWww

\* The values a name occurs with in the static table, in order.
DefaultValues(name) ==
  CASE name = ":method" -> <<"GET", "POST">>
    [] name = ":path" -> <<"/", "/index.html">>
    [] name = ":scheme" -> <<"http", "https">>
    [] name = ":status" -> <<"200", "204", "206", "304", "400", "404", "500">>
    [] name = "accept-encoding" -> <<"gzip, deflate">>
    [] OTHER -> <<"">>

Placeholder == Header("", Text(""))

\* Entries 1 to 82, behind the reserved entry 0: the HTTP/2 ones, eighteen
\* reserved ones and those of the trace.
StaticEntries ==
  FlattenSeq([i \in DOMAIN HttpNames |->
    LET vs == DefaultValues(HttpNames[i])
    IN  [k \in DOMAIN vs |-> Header(HttpNames[i], Text(vs[k]))]])
  \o [i \in 1..18 |-> Placeholder]
  \o [i \in 1..3 |-> Header(TraceName[i], Number(0))]

StaticTable == [i \in 0..Len(StaticEntries) |-> IF i = 0 THEN Placeholder ELSE StaticEntries[i]]

StaticSize == Len(StaticEntries) + 1

-----------------------------------------------------------------------------
(* Dynamic table: a sequence with the newest header first *)

\* http2_size()
Http2Size(h) ==
  Length(h.name) + (IF h.value[1] = "u64" THEN 8 ELSE Length(h.value[2])) + Overhead

DataSize(t) == FoldLeft(LAMBDA sum, h : sum + Http2Size(h), 0, t)

\* size(): of both tables.
TableSize(t) == StaticSize + Len(t)

\* Mutant: an entry that fills the table exactly is evicted, too.
TablePushStrict(t, h) ==
  IF Http2Size(h) > Capacity THEN <<>>
  ELSE <<h>> \o SubSeq(t, 1, Max({0} \cup {k \in 0..Len(t) :
                                   DataSize(SubSeq(t, 1, k)) + Http2Size(h) < Capacity}))

\* push(): headers leave at the back until the new one fits or none is left;
\* a header that is larger than the table only empties it.
TablePush(t, h) ==
  IF Http2Size(h) > Capacity THEN <<>>
  ELSE <<h>> \o SubSeq(t, 1, Max({k \in 0..Len(t) :
                                   DataSize(SubSeq(t, 1, k)) + Http2Size(h) <= Capacity}))

Undefined == Header("undefined", Text("undefined"))
OutOfRange == Header("out_of_range", Text(""))

\* operator[]: the last index it lets through is one past the last header.
At(t, idx) ==
  CASE idx = 0 \/ idx > Len(t) + StaticSize -> OutOfRange
    [] idx > 0 /\ idx < StaticSize -> StaticTable[idx]
    [] idx >= StaticSize /\ idx - StaticSize < Len(t) -> t[idx - StaticSize + 1]
    [] idx = Len(t) + StaticSize -> Undefined

\* find(): the first of the headers that match in the static table, then in
\* the dynamic one; zero stands for none, and for the reserved entry.
Find(t, matching) ==
  LET first(S) == CHOOSE i \in S : \A j \in S : i <= j
      statics == {i \in 0..(StaticSize - 1) : StaticTable[i] \in matching}
      dynamics == {i \in DOMAIN t : t[i] \in matching}
  IN  IF statics # {} THEN first(statics)
      ELSE IF dynamics # {} THEN first(dynamics) - 1 + StaticSize ELSE 0

FindByFullMatch(t, h) == Find(t, {h})
FindByName(t, h) == Find(t, {g \in Range(StaticTable) \cup Range(t) : g.name = h.name})

-----------------------------------------------------------------------------
(* MessagePack *)

\* A header on the wire: an index, or a flag to store it, a name given by an
\* index (ref > 0) or by itself, and a value.
Index(idx) == [form |-> "index", idx |-> idx]
Literal(store, ref, h) == [form |-> "literal", store |-> store, ref |-> ref, header |-> h]
Malformed == [form |-> "malformed"]

\* pack() of every flavour ends in pack_uncompressed().
Pack(h) == Literal(FALSE, 0, h)

\* encoder_t::pack_headers(): the ids of the current trace first, then the
\* given headers without the trace they came with.
PackHeaders(trace, headers) ==
  LET fresh == [i \in 1..3 |-> Header(TraceName[i], Number(trace[i]))]
      rest == SelectSeq(headers, LAMBDA h : h.name \notin ToSet(TraceName))
      all == fresh \o rest
  IN  [i \in DOMAIN all |-> Pack(all[i])]

\* unpack(): the header and the table after it.  An exception leaves the
\* table as it was.
Unpack(t, w) ==
  LET stored == Header(IF w.ref > 0 THEN At(t, w.ref).name ELSE w.header.name, w.header.value)
  IN  CASE w.form = "index" ->
             [ok |-> w.idx # 0 /\ w.idx < TableSize(t), header |-> At(t, w.idx), table |-> t]
        [] w.form = "literal" ->
             [ok |-> w.ref > 0 => At(t, w.ref) # OutOfRange, header |-> stored,
              table |-> IF w.store THEN TablePush(t, stored) ELSE t]

\* unpack_vector(): stops at the first header that cannot be unpacked; what
\* the ones before it did to the table stays.
UnpackNext(acc, w) ==
  IF ~acc.ok \/ w = Malformed THEN [acc EXCEPT !.ok = FALSE]
  ELSE CHOOSE next \in {[ok |-> u.ok,
                         table |-> IF u.ok THEN u.table ELSE acc.table,
                         headers |-> IF u.ok THEN Append(acc.headers, u.header) ELSE acc.headers] :
                         u \in {Unpack(acc.table, w)}} : TRUE

UnpackVector(t, ws) ==
  FoldLeft(LAMBDA acc, w : CHOOSE next \in {UnpackNext(a, w) : a \in {acc}} : TRUE,
           [ok |-> TRUE, table |-> t, headers |-> <<>>], ws)

\* find_first(): the first header with this name.
FindFirst(headers, name) ==
  LET hits == SelectSeq(headers, LAMBDA h : h.name = name)
  IN  IF hits = <<>> THEN <<>> ELSE <<hits[1].value>>
=============================================================================
