------------------------------ MODULE Blobmsg ------------------------------
(***************************************************************************)
(* blob_buf and blobmsg: attributes with nested attributes, built in a     *)
(* buffer that is reallocated as it grows, and their conversion from and   *)
(* to JSON.  The buffer is an array of cells, and sizes are scaled down; a *)
(* pointer into the buffer is good for the allocation it was taken from.   *)
(***************************************************************************)
EXTENDS Integers, Sequences, SequencesExt, FiniteSetsExt

CONSTANTS AttrSize,       \* sizeof(struct blob_attr)
          MsgHdrSize,     \* sizeof(struct blobmsg_hdr)
          BlobAlign,      \* BLOB_ATTR_ALIGN
          GrowUnit,       \* 256 in blob_buffer_grow
          FieldNames, FieldData,  \* names and payloads of the fields that are added
          StringSizes,    \* sizes asked of the string buffer
          BlobPolicy,     \* the policy of a handler: [name, type] each
          BlobJson, Int32Max,  \* JSON values that are converted; the largest int32_t
          MaxOps, MaxAgain,  \* bounds: operations on the first message, on the second
          MaxNest         \* bound: nesting

VARIABLES bbuf,      \* struct blob_buf: [mem, len, alloc, head], head = [alloc, off]
          bover,     \* something was written outside the buffer or through an old pointer
          bcookies,  \* cookies of the nested attributes that are open
          bstr,      \* the string buffer: [alloc, off, size, name, text], or NoString
          bopen,     \* the fields added so far to each level that is open
          bjson,     \* the JSON value this message is made from, or NoJson
          bops       \* operations so far

blobVars == <<bbuf, bover, bcookies, bstr, bopen, bjson, bops>>

NoString == [alloc |-> -1, off |-> 0, size |-> 0, name |-> <<>>, text |-> <<>>]
NoJson == <<"none">>
Zero == <<"0">>
Junk == <<"?">>

-----------------------------------------------------------------------------
(* Attributes in memory: a header cell <<id, len, extended>>, its other     *)
(* cells, and the payload.                                                  *)

Padded(n) == ((n + BlobAlign - 1) \div BlobAlign) * BlobAlign
blobmsg_hdrlen(name) == Padded(MsgHdrSize + Len(name) + 1)

\* Anything else where a header is expected reads as one without a length.
AttrAt(b, off) ==
  IF off < b.len /\ Len(b.mem[off + 1]) = 3 THEN b.mem[off + 1] ELSE <<"none", 0, FALSE>>
blob_raw_len(b, off) == AttrAt(b, off)[2]
blob_pad_len(b, off) == Padded(blob_raw_len(b, off))
blob_len(b, off) == blob_raw_len(b, off) - AttrSize
blob_next(b, off) == off + blob_pad_len(b, off)

\* Cells written at off; what does not fit is recorded as an overrun.
Written(b, off, cells) ==
  [b EXCEPT !.mem = SubSeq(SubSeq(@, 1, off) \o cells \o SubSeq(@, off + Len(cells) + 1, b.len), 1, b.len),
            !.over = @ \/ off + Len(cells) > b.len]

Cells(c, n) == [i \in 1..n |-> c]

blob_set_raw_len(b, off, len) == [b EXCEPT !.mem[off + 1] = [@ EXCEPT ![2] = len]]

blob_fill_pad(b, off) ==
  Written(b, off + blob_raw_len(b, off), Cells(Zero, blob_pad_len(b, off) - blob_raw_len(b, off)))

\* blob_buffer_grow: another allocation with room for minlen more.
blob_buffer_grow(b, minlen) ==
  LET delta == (minlen \div GrowUnit + 1) * GrowUnit
  IN  [b EXCEPT !.mem = @ \o Cells(Zero, delta), !.len = @ + delta, !.alloc = @ + 1]

\* Fault: the head stays a pointer into the old allocation.
blob_buf_grow_Stale(b, required) == blob_buffer_grow(b, required)

blob_buf_grow(b, required) ==
  LET g == blob_buffer_grow(b, required) IN [g EXCEPT !.head.alloc = g.alloc]

Required(b, pos, payload) == pos + AttrSize + payload - b.len

blob_add(b, pos, id, payload) ==
  LET g == IF Required(b, pos, payload) > 0 THEN blob_buf_grow(b, Required(b, pos, payload)) ELSE b
      w == Written(g, pos, <<<<id, AttrSize + payload, FALSE>>>> \o Cells(Junk, AttrSize - 1))
  IN  blob_fill_pad(w, pos)

blob_new(b, id, payload) ==
  LET pos == blob_next(b, b.head.off)
      a == blob_add(b, pos, id, payload)
  IN  blob_set_raw_len(a, b.head.off, blob_pad_len(a, b.head.off) + blob_pad_len(a, pos))

\* blob_put, blob_put_string, blob_put_u32 and so on.
blob_put(b, id, data) ==
  Written(blob_new(b, id, Len(data)), blob_next(b, b.head.off) + AttrSize, data)

blob_nest_start(b, id) == [blob_new(b, id, 0) EXCEPT !.head.off = blob_next(b, b.head.off)]

NestedLen(b, off) == blob_len(b, off)

blob_nest_end(b, cookie) ==
  [blob_set_raw_len(b, cookie, blob_pad_len(b, cookie) + NestedLen(b, b.head.off)) EXCEPT !.head.off = cookie]

-----------------------------------------------------------------------------
(* blobmsg: the payload begins with a name. *)

NameCells(name) ==
  <<<<"len", Len(name)>>>> \o Cells(Junk, MsgHdrSize - 1) \o [i \in DOMAIN name |-> <<"c", name[i]>>]
  \o Cells(Zero, blobmsg_hdrlen(name) - MsgHdrSize - Len(name))

blobmsg_new(b, type, name, len) ==
  LET pos == blob_next(b, b.head.off)
      n == blob_new(b, type, blobmsg_hdrlen(name) + len)
      w == Written(n, pos + AttrSize, NameCells(name))
  IN  [w EXCEPT !.mem[pos + 1] = [@ EXCEPT ![3] = TRUE]]

blobmsg_add_field(b, type, name, data) ==
  Written(blobmsg_new(b, type, name, Len(data)), blob_next(b, b.head.off) + AttrSize + blobmsg_hdrlen(name), data)

blobmsg_open_nested(b, name, array) ==
  LET n == blobmsg_new(b, IF array THEN "ARRAY" ELSE "TABLE", name, 0)
      h == b.head.off
  IN  [blob_set_raw_len(n, h, blob_pad_len(n, h) - blobmsg_hdrlen(name)) EXCEPT !.head.off = blob_next(b, h)]

NameLen(b, off) == b.mem[off + AttrSize + 1][2]
NameAt(b, off) == [i \in 1..NameLen(b, off) |-> b.mem[off + AttrSize + MsgHdrSize + i][2]]
blobmsg_data(b, off) ==
  off + AttrSize + (IF AttrAt(b, off)[3] THEN blobmsg_hdrlen(NameAt(b, off)) ELSE 0)
blobmsg_data_len(b, off) == blob_len(b, off) - (blobmsg_data(b, off) - off - AttrSize)

\* blobmsg_alloc_string_buffer: a string field that is not counted yet.
blobmsg_alloc_string_buffer(b, name, maxlen) ==
  LET pos == blob_next(b, b.head.off)
      n == blobmsg_new(b, "STRING", name, maxlen)
      h == blob_set_raw_len(n, b.head.off, blob_pad_len(n, b.head.off) - blob_pad_len(n, pos))
  IN  blob_set_raw_len(h, pos, blob_raw_len(h, pos) - maxlen)

blobmsg_realloc_string_buffer(b, maxlen) ==
  LET pos == blob_next(b, b.head.off)
      required == maxlen - (b.len - (pos + blob_pad_len(b, pos)))
  IN  IF required <= 0 THEN b ELSE blob_buf_grow(b, required)

blobmsg_add_string_buffer(b) ==
  LET h == b.head.off
      pos == blob_next(b, h)
      data == blobmsg_data(b, pos)
      len == Min({i \in 1..b.len - data : b.mem[data + i] = Zero})   \* strlen() + 1
      s == blob_fill_pad(blob_set_raw_len(b, pos, blob_raw_len(b, pos) + len), pos)
  IN  blob_set_raw_len(s, h, blob_raw_len(s, h) + blob_pad_len(s, pos))

-----------------------------------------------------------------------------
(* Reading: what __blob_for_each_attr and the nested loops come by. *)

Field(type, name, data) == [type |-> type, name |-> name, data |-> data, sub |-> <<>>]
Nest(type, name, sub) == [type |-> type, name |-> name, data |-> <<>>, sub |-> sub]

\* Where the attributes stand that __blob_for_each_attr visits.
RECURSIVE blob_for_each_attr(_, _, _)
blob_for_each_attr(b, pos, rem) ==
  IF rem <= 0 \/ blob_pad_len(b, pos) > rem \/ blob_pad_len(b, pos) < AttrSize THEN <<>>
  ELSE <<pos>> \o blob_for_each_attr(b, blob_next(b, pos), rem - blob_pad_len(b, pos))

blobmsg_for_each_attr(b, off) == blob_for_each_attr(b, blobmsg_data(b, off), blobmsg_data_len(b, off))

RECURSIVE FieldAt(_, _)
FieldAt(b, pos) ==
  LET type == AttrAt(b, pos)[1]
      name == IF AttrAt(b, pos)[3] THEN NameAt(b, pos) ELSE <<>>
      data == blobmsg_data(b, pos)
      inside == blobmsg_for_each_attr(b, pos)
  IN  IF type \in {"ARRAY", "TABLE", "NESTED"}
      THEN Nest(type, name, [i \in DOMAIN inside |-> FieldAt(b, inside[i])])
      ELSE Field(type, name, SubSeq(b.mem, data + 1, data + blobmsg_data_len(b, pos)))

Fields(b, off) ==
  LET inside == blobmsg_for_each_attr(b, off) IN [i \in DOMAIN inside |-> FieldAt(b, inside[i])]

\* blob_check_type, for the types that blobmsg has: integers of a size, strings that end.
blob_check_type(b, type, data, len) ==
  /\ type \in {"INT8", "INT32"} => len = 1
  /\ type = "STRING" => len >= 1 /\ b.mem[data + len] = Zero

blobmsg_check_attr(b, pos, name) ==
  /\ blob_len(b, pos) >= MsgHdrSize
  /\ name => NameLen(b, pos) > 0
  /\ NameLen(b, pos) <= blob_len(b, pos) - MsgHdrSize
  /\ b.mem[pos + AttrSize + MsgHdrSize + NameLen(b, pos) + 1] = Zero
  /\ blob_check_type(b, AttrAt(b, pos)[1], blobmsg_data(b, pos), blobmsg_data_len(b, pos))

\* blobmsg_check_array for any type: its members are well formed, and named in a table.
blobmsg_check_array(b, off) ==
  \A pos \in ToSet(blobmsg_for_each_attr(b, off)) : blobmsg_check_attr(b, pos, AttrAt(b, off)[1] = "TABLE")

Taken(tb, i) == tb[i] # -1

\* blobmsg_parse: for every entry of the policy the attribute it gets, or -1.
RECURSIVE ParseAttrs(_, _, _, _)
ParseAttrs(b, policy, attrs, tb) ==
  IF attrs = <<>> THEN [ok |-> TRUE, tb |-> tb]
  ELSE LET pos == Head(attrs)
           type == AttrAt(b, pos)[1]
           fits == {i \in DOMAIN policy : /\ "UNSPEC" \in {policy[i].type, type} \/ type = policy[i].type
                                          /\ NameLen(b, pos) = Len(policy[i].name)}
           gets == {i \in fits : ~Taken(tb, i) /\ NameAt(b, pos) = policy[i].name}
       IN  IF fits # {} /\ ~blobmsg_check_attr(b, pos, TRUE) THEN [ok |-> FALSE, tb |-> tb]
           ELSE ParseAttrs(b, policy, Tail(attrs), [i \in DOMAIN tb |-> IF i \in gets THEN pos ELSE tb[i]])

blobmsg_parse(b, policy) ==
  ParseAttrs(b, policy, blobmsg_for_each_attr(b, 0), [i \in DOMAIN policy |-> -1])

-----------------------------------------------------------------------------
(* JSON. *)

\* json_object_get_int: within int32_t.
json_object_get_int(n) == IF n > Int32Max THEN Int32Max ELSE IF n < -Int32Max - 1 THEN -Int32Max - 1 ELSE n

\* blobmsg_add_json_element: [b, ok]; a double cannot be converted, and what stands
\* before it stays.
RECURSIVE blobmsg_add_json_element(_, _, _), AddAll(_, _)
blobmsg_add_json_element(b, name, v) ==
  LET nested == AddAll(blobmsg_open_nested(b, name, v[1] = "arr"),
                       IF v[1] = "arr" THEN [i \in DOMAIN v[2] |-> <<<<>>, v[2][i]>>] ELSE v[2])
      field(type, data) == [b |-> blobmsg_add_field(b, type, name, data), ok |-> TRUE]
  IN  CASE v[1] \in {"arr", "obj"} -> [nested EXCEPT !.b = blob_nest_end(@, b.head.off)]
        [] v[1] = "str" -> field("STRING", v[2] \o <<Zero>>)
        [] v[1] = "bool" -> field("INT8", <<<<"v", v[2]>>>>)
        [] v[1] = "int" -> field("INT32", <<<<"v", json_object_get_int(v[2])>>>>)
        [] v[1] = "null" -> field("UNSPEC", <<>>)
        [] OTHER -> [b |-> b, ok |-> FALSE]
AddAll(b, members) ==
  IF members = <<>> THEN [b |-> b, ok |-> TRUE]
  ELSE LET first == blobmsg_add_json_element(b, members[1][1], members[1][2])
       IN  IF first.ok THEN AddAll(first.b, Tail(members)) ELSE first

\* What is written of an attribute: nothing unless it is well formed, its JSON value, and
\* before it the name it has as a member of an object, but for an empty one.
RECURSIVE blobmsg_format_element(_, _, _), blobmsg_format_json_list(_, _, _)
blobmsg_format_element(b, pos, array) ==
  LET type == AttrAt(b, pos)[1]
      data == SubSeq(b.mem, blobmsg_data(b, pos) + 1, blobmsg_data(b, pos) + blobmsg_data_len(b, pos))
      value == CASE type = "UNSPEC" -> <<"null">>
                 [] type = "INT8" -> <<"bool", data[1][2]>>
                 [] type = "INT32" -> <<"int", data[1][2]>>
                 [] type = "STRING" -> <<"str", Front(data)>>
                 [] OTHER -> blobmsg_format_json_list(b, pos, type = "ARRAY")
  IN  IF ~blobmsg_check_attr(b, pos, FALSE) THEN <<>>
      ELSE IF array \/ NameAt(b, pos) = <<>> THEN <<value>> ELSE <<NameAt(b, pos), value>>
blobmsg_format_json_list(b, off, array) ==
  LET inside == blobmsg_for_each_attr(b, off)
  IN  <<IF array THEN "arr" ELSE "obj",
        [i \in DOMAIN inside |-> blobmsg_format_element(b, inside[i], array)]>>

-----------------------------------------------------------------------------
(* Operations. *)

NewBuf == [mem |-> <<>>, len |-> 0, alloc |-> 0, head |-> [alloc |-> 0, off |-> 0], over |-> FALSE]

blob_buf_init(b) == blob_add([b EXCEPT !.head = [alloc |-> b.alloc, off |-> 0]], 0, "TABLE", 0)

BlobInit ==
  /\ bbuf = blob_buf_init(NewBuf) /\ bover = FALSE /\ bcookies = <<>> /\ bstr = NoString
  /\ bopen = <<<<>>>> /\ bjson = NoJson /\ bops = 0

\* A buffer whose head points into another allocation writes through an old pointer.
Becomes(b) ==
  /\ bbuf' = b
  /\ bover' = (bover \/ b.over \/ b.head.alloc # b.alloc)

\* One more operation on the message, while no string buffer is open.
BlobOp == bops \notin {MaxOps, MaxOps + 1 + MaxAgain} /\ bops' = bops + 1 /\ bstr = NoString /\ bjson = NoJson

Adds(f) == bopen' = [bopen EXCEPT ![Len(bopen)] = Append(@, f)]

\* Another message in the same buffer, over what the last one left.
BufInitAgain ==
  /\ bops = MaxOps /\ bops' = MaxOps + 1
  /\ Becomes(blob_buf_init(bbuf))
  /\ bcookies' = <<>> /\ bopen' = <<<<>>>> /\ bstr' = NoString /\ bjson' = NoJson

AddField(name, data) ==
  /\ BlobOp /\ Becomes(blobmsg_add_field(bbuf, "UNSPEC", name, data)) /\ Adds(Field("UNSPEC", name, data))
  /\ UNCHANGED <<bcookies, bstr, bjson>>

PutPlain(data) ==
  /\ BlobOp /\ Becomes(blob_put(bbuf, "BINARY", data)) /\ Adds(Field("BINARY", <<>>, data))
  /\ UNCHANGED <<bcookies, bstr, bjson>>

OpenNested(name, type) ==
  /\ BlobOp /\ Len(bopen) <= MaxNest
  /\ Becomes(IF type = "NESTED" THEN blob_nest_start(bbuf, type) ELSE blobmsg_open_nested(bbuf, name, type = "ARRAY"))
  /\ bcookies' = Append(bcookies, [off |-> bbuf.head.off, type |-> type, name |-> IF type = "NESTED" THEN <<>> ELSE name])
  /\ bopen' = Append(bopen, <<>>)
  /\ UNCHANGED <<bstr, bjson>>

CloseNested ==
  /\ BlobOp /\ bcookies # <<>>
  /\ Becomes(blob_nest_end(bbuf, Last(bcookies).off))
  /\ bopen' = [Front(bopen) EXCEPT ![Len(bopen) - 1] = Append(@, Nest(Last(bcookies).type, Last(bcookies).name, Last(bopen)))]
  /\ bcookies' = Front(bcookies)
  /\ UNCHANGED <<bstr, bjson>>

StringBuffer(b, name, size, text) ==
  [alloc |-> b.alloc, off |-> blobmsg_data(b, blob_next(b, b.head.off)), size |-> size, name |-> name, text |-> text]

AllocString(name, size) ==
  /\ BlobOp
  /\ LET b == blobmsg_alloc_string_buffer(bbuf, name, size)
     IN  Becomes(b) /\ bstr' = StringBuffer(b, name, size, <<>>)
  /\ UNCHANGED <<bcookies, bopen, bjson>>

\* The program fills the string buffer, through the pointer it has.
WriteString ==
  /\ bstr # NoString /\ bstr.text = <<>>
  /\ LET text == [i \in 1..bstr.size - 1 |-> <<"c", i>>]
         w == Written(bbuf, bstr.off, text \o <<Zero>>)
     IN  /\ bbuf' = w /\ bover' = (bover \/ w.over \/ bstr.alloc # bbuf.alloc)
         /\ bstr' = [bstr EXCEPT !.text = text \o <<Zero>>]
  /\ UNCHANGED <<bcookies, bopen, bjson, bops>>

ReallocString(size) ==
  /\ bstr # NoString /\ bstr.size < size
  /\ LET b == blobmsg_realloc_string_buffer(bbuf, size)
     IN  Becomes(b) /\ bstr' = StringBuffer(b, bstr.name, size, <<>>)
  /\ UNCHANGED <<bcookies, bopen, bjson, bops>>

AddString ==
  /\ bstr # NoString /\ bstr.text # <<>>
  /\ Becomes(blobmsg_add_string_buffer(bbuf))
  /\ Adds(Field("STRING", bstr.name, bstr.text)) /\ bstr' = NoString
  /\ UNCHANGED <<bcookies, bjson, bops>>

\* blobmsg_add_object into a new message.
AddJson(v) ==
  /\ BlobOp /\ bopen = <<<<>>>>
  /\ LET r == AddAll(bbuf, v[2])
     IN  /\ Becomes(r.b)
         /\ bjson' = IF r.ok THEN v ELSE NoJson
         /\ bopen' = <<Fields(r.b, 0)>>
  /\ UNCHANGED <<bcookies, bstr>>

BlobNext ==
  \/ \E name \in FieldNames, data \in FieldData : AddField(name, data)
  \/ \E data \in FieldData : PutPlain(data)
  \/ \E name \in FieldNames, type \in {"ARRAY", "TABLE", "NESTED"} : OpenNested(name, type)
  \/ CloseNested
  \/ \E name \in FieldNames, size \in StringSizes : AllocString(name, size)
  \/ \E size \in StringSizes : ReallocString(size)
  \/ WriteString \/ AddString \/ BufInitAgain
  \/ \E v \in BlobJson : AddJson(v)

-----------------------------------------------------------------------------
(* Properties. *)

\* At any point of building a message, in a buffer that was moved and reused, the
\* attribute that is open holds the fields added to it, in order and unchanged,
\* nested ones included.
BuiltReadsBack == Fields(bbuf, bbuf.head.off) = Last(bopen)

\* Nothing is written past buflen or into an allocation that realloc gave back:
\* neither headers, padding and payload, nor the program's text in a string buffer.
NoOverrun == ~bover

\* A message made of fields that have names passes the checks of the receiver, and
\* its handler gets for every entry of its policy the first field of that name and
\* type; null stands for any type.
ParsedByName ==
  (bcookies = <<>> /\ bstr = NoString /\ \A f \in ToSet(bopen[1]) : f.name # <<>> /\ f.type \notin {"NESTED", "BINARY"})
  => LET r == blobmsg_parse(bbuf, BlobPolicy)
         first(p) == SelectInSeq(bopen[1], LAMBDA f : f.name = p.name /\ ("UNSPEC" \in {p.type, f.type} \/ f.type = p.type))
     IN  /\ r.ok
         /\ \A i \in DOMAIN BlobPolicy :
              IF first(BlobPolicy[i]) = 0 THEN r.tb[i] = -1
              ELSE r.tb[i] # -1 /\ FieldAt(bbuf, r.tb[i]) = bopen[1][first(BlobPolicy[i])]

\* The text that a JSON value should be formatted to: a member without a key is written as
\* its value alone.
RECURSIVE JsonText(_)
JsonText(v) ==
  CASE v[1] = "int" -> <<"int", json_object_get_int(v[2])>>
    [] v[1] = "arr" -> <<"arr", [i \in DOMAIN v[2] |-> <<JsonText(v[2][i])>>]>>
    [] v[1] = "obj" -> <<"obj", [i \in DOMAIN v[2] |->
         (IF v[2][i][1] = <<>> THEN <<>> ELSE <<v[2][i][1]>>) \o <<JsonText(v[2][i][2])>>]>>
    [] OTHER -> v

RECURSIVE HasEmptyKey(_)
HasEmptyKey(v) ==
  \/ v[1] = "arr" /\ \E i \in DOMAIN v[2] : HasEmptyKey(v[2][i])
  \/ v[1] = "obj" /\ \E i \in DOMAIN v[2] : v[2][i][1] = <<>> \/ HasEmptyKey(v[2][i][2])

RECURSIVE CheckedDeep(_, _)
CheckedDeep(b, off) ==
  /\ blobmsg_check_array(b, off)
  /\ \A pos \in ToSet(blobmsg_for_each_attr(b, off)) :
       AttrAt(b, pos)[1] \in {"ARRAY", "TABLE"} => CheckedDeep(b, pos)

\* A JSON object converted to a message passes the receiver's checks at every level unless
\* it has an empty key somewhere, which they refuse.  Formatted again it is the same
\* object, but for integers, which are limited to 32 bits, and for members with an empty
\* key, of which only the value is written; doubles are refused.
JsonSurvives ==
  bjson # NoJson =>
    /\ CheckedDeep(bbuf, 0) <=> ~HasEmptyKey(bjson)
    /\ blobmsg_format_json_list(bbuf, 0, FALSE) = JsonText(bjson)

\* What is built, in a buffer that moves and is used again, lies within it and reads
\* back; the receiver finds every field by its name, and JSON survives both ways, but for
\* what the format has no place for.
MessagesReadBack == BuiltReadsBack /\ NoOverrun /\ ParsedByName /\ JsonSurvives
=============================================================================
