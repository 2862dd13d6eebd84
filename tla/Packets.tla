------------------------------- MODULE Packets -------------------------------
(***************************************************************************)
(* How packets are read and built (packetHandler.c), as the threads of the *)
(* debug VM use it: the JDWP thread reads the fields of a command, builds  *)
(* the parts of its answer in blocks of their own, then the answer; the VM *)
(* thread builds composites of events the same way.  A packet belongs to   *)
(* one thread until it is sent and freed, so one builder is enough here.   *)
(*                                                                         *)
(* A number on the wire is the tuple of its bytes, most significant first. *)
(***************************************************************************)
EXTENDS Integers, Sequences, FiniteSets, SequencesExt

CONSTANTS
  Requests,   \* commands of the debugger: an id, the fields and their bytes
  CommandIds, \* ids that gen_packetID hands out
  Items,      \* what one call of a writer appends
  Estimates,  \* bytes that a caller asks for
  MaxBytes,   \* a packet takes no further item beyond this many bytes
  MaxParts    \* parts of a list

Byte == 0 .. 255

\* A byte of a block to which nothing has been written.
Unset == -1

MIN_PACKET_SIZE   == 11
LENGTH_POS        == 0
ID_POS            == 4
FLAGS_POS         == 8
COMMAND_SET_POS   == 9
COMMAND_POS       == 10
ERROR_CODE_POS    == 9
DATA_VARIABLE_POS == 11
REPLY_FLAG        == 128
CMD_FLAG          == 0

\* The bytes of a number that fits in 31 bits.
U2(n) == << (n \div 256) % 256, n % 256 >>
U4(n) == << n \div 16777216, (n \div 65536) % 256, (n \div 256) % 256, n % 256 >>
U8(n) == << 0, 0, 0, 0 >> \o U4(n)

ASSUME PacketsAssumption ==
  /\ Items \subseteq [ ensure : Nat, words : Seq(Seq(Byte)) ]
  /\ Estimates \subseteq Nat
  /\ MaxBytes \in Nat
  /\ MaxParts \in Nat
  /\ \A r \in Requests : r.id \in [1 .. 4 -> Byte] /\ r.payload \in Seq(Byte)
  /\ CommandIds \subseteq [1 .. 4 -> Byte]

VARIABLES
  pc,       \* what the thread is doing
  in,       \* _MPacket
  req,      \* history: the command _MPacket was received with
  got,      \* history: the values read from it
  p,        \* the packet being written, a part of a list or the packet to send
  todo,     \* words the writer that was called has still to append
  list,     \* the parts, the one added last first
  bytes,    \* the sum of their offsets
  rest,     \* parts that write_list has still to copy
  head,     \* history: id, flags and the two bytes after them, as asked for
  body,     \* history: the bytes appended to p
  parts,    \* history: the bytes of each part of the list
  over,     \* history: a byte was stored outside its block
  wire      \* the answer or composite sent: its kind, its bytes, what was to be sent

vars == <<pc, in, req, got, p, todo, list, bytes, rest, head, body, parts, over, wire>>

-----------------------------------------------------------------------------
\* Blocks

newRawPacket(n) == [ length |-> n, offset |-> 0, data |-> [i \in 0 .. n - 1 |-> Unset] ]

None == newRawPacket(0)

realloc(q, n) ==
  [ length |-> n, offset |-> q.offset,
    data   |-> [i \in 0 .. n - 1 |-> IF i < q.length THEN q.data[i] ELSE Unset] ]

Stored(q, at, new) ==
  [ length |-> q.length, offset |-> q.offset,
    data   |-> [i \in 0 .. q.length - 1 |->
                  IF i - at + 1 \in 1 .. Len(new) THEN new[i - at + 1] ELSE q.data[i]] ]

Fits(q, at, n) == at + n <= q.length

\* The bytes before the offset: what is sent, or copied.
Contents(q) == [k \in 1 .. q.offset |-> q.data[k - 1]]

Moved(q, offset) == [ length |-> q.length, offset |-> offset, data |-> q.data ]

-----------------------------------------------------------------------------
\* Writers

ensureFull(q, n) ==  \* mutant: looks at the offset before the write only
  IF q.offset >= q.length THEN realloc(q, n + 2 * q.length) ELSE q

ensurePacketCap(q, n) ==
  IF q.offset + n >= q.length THEN realloc(q, n + 2 * q.length) ELSE q

\* write_u1, write_u2, write_u4, write_u8, by the number of bytes of the word.
\* write_tag appends one byte, write_methodid and write_fieldid two,
\* write_objectid, write_threadid, write_threadgroupid and write_frameid four.
Appended(q, word) ==
  LET r == ensurePacketCap(q, Len(word))
  IN  Moved(Stored(r, r.offset, word), r.offset + Len(word))

AppendFits(q, word) == Fits(ensurePacketCap(q, Len(word)), q.offset, Len(word))

Word(w) == [ ensure |-> 0, words |-> <<w>> ]

write_location(tag, classID, methodID, index) ==
  [ ensure |-> 15, words |-> << <<tag>>, U4(classID), U2(methodID), U8(index) >> ]

\* A character takes two bytes on the wire.
write_str(chars) ==
  [ ensure |-> Len(chars) + 4,
    words  |-> << U4(2 * Len(chars)) >> \o [k \in 1 .. Len(chars) |-> U2(chars[k])] ]

UtfBytes(c) ==
  IF c <= 127 THEN << c >>
  ELSE IF c <= 2047 THEN << 192 + ((c \div 64) % 32), 128 + (c % 64) >>
  ELSE << 224 + ((c \div 4096) % 16), 128 + ((c \div 64) % 64), 128 + (c % 64) >>

internalUtf_size(chars) ==
  LET one   == { k \in DOMAIN chars : chars[k] <= 127 }
      three == { k \in DOMAIN chars : chars[k] > 2047 }
  IN  2 * Len(chars) - Cardinality(one) + Cardinality(three)

\* The bytes follow one at a time.  write_cutf is the same for characters of
\* one byte.
write_utf(chars) ==
  LET coded == FlattenSeq([k \in 1 .. Len(chars) |-> UtfBytes(chars[k])])
      size  == internalUtf_size(chars)
  IN  [ ensure |-> size + 4,
        words  |-> << U4(size) >> \o [k \in 1 .. Len(coded) |-> << coded[k] >>] ]

-----------------------------------------------------------------------------
\* Headers

newPacket(n) == newRawPacket(n + MIN_PACKET_SIZE)

newReplyPacket(id, n) ==
  Moved(Stored(Stored(Stored(newPacket(n), ID_POS, id), FLAGS_POS, <<REPLY_FLAG>>),
               ERROR_CODE_POS, << 0, 0 >>),
        MIN_PACKET_SIZE)

newCommandPacket(id, n, command, commandset) ==
  Moved(Stored(Stored(Stored(Stored(newPacket(n), ID_POS, id), COMMAND_POS, <<command>>),
                      COMMAND_SET_POS, <<commandset>>),
               FLAGS_POS, <<CMD_FLAG>>),
        MIN_PACKET_SIZE)

\* The loop over the list adds up what its parts hold.
get_ByteSize == bytes

-----------------------------------------------------------------------------
\* Readers

\* The n bytes from position at on; beyond the block, anything.
WordFrom(q, at, n) ==
  [k \in 1 .. n |-> IF at + k - 1 < q.length THEN q.data[at + k - 1] ELSE Unset]

read_id(q) == WordFrom(q, ID_POS, 4)

\* read_u2_buff, read_u4_buff put the bytes together.  read_u8_buff shifts an
\* int by 32 and more, which is undefined: the high four bytes are 0 in every
\* command here, so what they become is left out.  The sign of the low four
\* fills the high ones.
read_buff(word) ==
  IF Len(word) < 8 THEN word
  ELSE LET high == IF word[5] >= 128 THEN 255 ELSE 0
       IN  [k \in 1 .. 8 |-> IF k <= 4 THEN high ELSE word[k]]

\* What the debugger writes for a field of a command.
Field(f) == IF f.kind = "word" THEN f.value ELSE U4(Len(f.value)) \o f.value

Command(id, fields) ==
  [ id |-> id, fields |-> fields,
    payload |-> FlattenSeq([k \in 1 .. Len(fields) |-> Field(fields[k])]) ]

\* newPacketFromHeader and newPacketFromHeaderPayload.
FromHeaderOnly(r) ==  \* mutant: the offset stays at the header
  LET size   == MIN_PACKET_SIZE + Len(r.payload)
      header == U4(size) \o r.id \o << CMD_FLAG, 1, 1 >>
  IN  Stored(Stored(newRawPacket(size), 0, header), DATA_VARIABLE_POS, r.payload)

FromHeaderPayload(r) ==
  LET size   == MIN_PACKET_SIZE + Len(r.payload)
      header == U4(size) \o r.id \o << CMD_FLAG, 1, 1 >>
  IN  Moved(Stored(Stored(newRawPacket(size), 0, header), DATA_VARIABLE_POS, r.payload),
            DATA_VARIABLE_POS)

\* The number that four bytes stand for.
Number(word) == word[1] * 16777216 + word[2] * 65536 + word[3] * 256 + word[4]

\* The next field, in the order in which the handler reads them: a word
\* (read_u1 to read_u8), or a length and as many bytes (read_str).  No handler
\* calls read_utf.
ReadField(f) ==
  LET count == Number(WordFrom(in, in.offset, 4))
      start == IF f.kind = "word" THEN in.offset ELSE in.offset + 4
      n     == IF f.kind = "word" THEN Len(f.value) ELSE count
      read  == WordFrom(in, start, n)
  IN  /\ in' = Moved(in, start + n)
      /\ got' = Append(got, IF f.kind = "word" THEN read_buff(read) ELSE read)

-----------------------------------------------------------------------------
\* A command is read, or events are pending

\* Nothing sent since the command came, or the events.
Silence == [ kind |-> "none", bytes |-> <<>>, head |-> <<>>, body |-> <<>> ]

onReceive ==
  /\ pc = "idle"
  /\ \E r \in Requests : req' = r /\ in' = FromHeaderPayload(r)
  /\ pc' = "handle"
  /\ got' = <<>>
  /\ wire' = Silence
  /\ UNCHANGED <<p, todo, list, bytes, rest, head, body, parts, over>>

ReadNext ==
  /\ pc = "handle"
  /\ Len(got) < Len(req.fields)
  /\ ReadField(req.fields[Len(got) + 1])
  /\ UNCHANGED <<pc, req, p, todo, list, bytes, rest, head, body, parts, over, wire>>

\* The VM thread: _MPacket is none of its business.
dispatchAll ==
  /\ pc = "idle"
  /\ pc' = "events"
  /\ wire' = Silence
  /\ UNCHANGED <<in, req, got, p, todo, list, bytes, rest, head, body, parts, over>>

Sends(kind, sent, asked, appended) ==
  wire' = [ kind |-> kind, bytes |-> sent, head |-> asked, body |-> appended ]

\* One packet serves all error answers: it is made at the start with no bytes
\* of data, and only its error code and its id are written anew.
jdwpSend_error ==
  /\ pc = "handle"
  /\ list = <<>>
  /\ \E code \in { U2(20), U2(99) } :
       LET _PACKET_ERROR == newReplyPacket(U4(0), 0)
           answer == Stored(Stored(_PACKET_ERROR, ERROR_CODE_POS, code), ID_POS, read_id(in))
       IN  Sends("error", Contents(answer), req.id \o <<REPLY_FLAG>> \o code, <<>>)
  /\ pc' = "idle"
  /\ UNCHANGED <<in, req, got, p, todo, list, bytes, rest, head, body, parts, over>>

-----------------------------------------------------------------------------
\* A packet or a part of a list is built

\* A class, a field, a method, an event.
NewPart ==
  /\ pc \in { "handle", "events" }
  /\ Len(list) < MaxParts
  /\ \E n \in Estimates : p' = newRawPacket(n)
  /\ pc' = IF pc = "handle" THEN "part of answer" ELSE "part of events"
  /\ body' = <<>>
  /\ UNCHANGED <<in, req, got, todo, list, bytes, rest, head, parts, over, wire>>

add_Packet ==
  /\ pc \in { "part of answer", "part of events" }
  /\ todo = <<>>
  /\ list' = <<p>> \o list
  /\ bytes' = bytes + p.offset
  /\ parts' = <<body>> \o parts
  /\ pc' = IF pc = "part of answer" THEN "handle" ELSE "events"
  /\ UNCHANGED <<in, req, got, p, todo, rest, head, body, over, wire>>

\* newReply and newCommandPacket: the bytes of the list and what the caller
\* adds to them.
NewPacket(make(_), asked) ==
  /\ \E n \in Estimates :
       /\ p' = make(n + get_ByteSize)
       /\ over' = (over \/ ~Fits(newPacket(n + get_ByteSize), 0, MIN_PACKET_SIZE))
  /\ head' = asked
  /\ body' = <<>>
  /\ UNCHANGED <<in, req, got, todo, list, bytes, rest, parts, wire>>

newReply ==
  /\ pc = "handle"
  /\ pc' = "answer"
  /\ NewPacket(LAMBDA n : newReplyPacket(read_id(in), n), req.id \o << REPLY_FLAG, 0, 0 >>)

NewComposite ==
  /\ pc = "events"
  /\ pc' = "composite"
  /\ \E id \in CommandIds :
       NewPacket(LAMBDA n : newCommandPacket(id, n, 100, 64), id \o << CMD_FLAG, 64, 100 >>)

\* A writer is called: it makes room for all it is going to append.
Write(item) ==
  /\ pc \in { "part of answer", "part of events", "answer", "composite" }
  /\ todo = <<>>
  /\ rest = <<>>
  /\ Len(body) <= MaxBytes
  /\ p' = IF item.ensure = 0 THEN p ELSE ensurePacketCap(p, item.ensure)
  /\ todo' = item.words
  /\ UNCHANGED <<pc, in, req, got, list, bytes, rest, head, body, parts, over, wire>>

\* It appends the next word.
WriteNext ==
  /\ todo # <<>>
  /\ p' = Appended(p, Head(todo))
  /\ over' = (over \/ ~AppendFits(p, Head(todo)))
  /\ body' = body \o Head(todo)
  /\ todo' = Tail(todo)
  /\ UNCHANGED <<pc, in, req, got, list, bytes, rest, head, parts, wire>>

write_list ==
  /\ pc \in { "answer", "composite" }
  /\ todo = <<>>
  /\ list # <<>>
  /\ rest' = list
  /\ list' = <<>>
  /\ bytes' = 0
  /\ UNCHANGED <<pc, in, req, got, p, todo, head, body, parts, over, wire>>

Wrapped(q) ==
  IF q.length = 0 THEN [ length |-> q.offset, offset |-> q.offset, data |-> q.data ] ELSE q

\* write_packet: the block is doubled until the part fits.
DoublesForgotten(q) == realloc(q, q.length)  \* mutant: length stays

Doubles(q) == realloc(q, 2 * q.length)

TightAlone(q, from) == from.offset >= q.length  \* mutant: forgets what is there

Tight(q, from) == from.offset >= q.length - q.offset

Grow ==
  /\ rest # <<>>
  /\ Head(rest).offset # 0
  /\ Tight(Wrapped(p), Head(rest))
  /\ p' = Doubles(Wrapped(p))
  /\ UNCHANGED <<pc, in, req, got, todo, list, bytes, rest, head, body, parts, over, wire>>

\* Where the part goes.
CopyStart(q) == MIN_PACKET_SIZE  \* mutant: always behind the header

CopyPos(q) == q.offset

Copy ==
  /\ rest # <<>>
  /\ LET from == Head(rest)
         to   == Wrapped(p)
     IN  IF from.offset = 0
         THEN UNCHANGED <<p, over>>
         ELSE /\ ~Tight(to, from)
              /\ p' = Moved(Stored(to, CopyPos(to), Contents(from)), to.offset + from.offset)
              /\ over' = (over \/ ~Fits(to, to.offset, from.offset))
  /\ body' = body \o Head(parts)
  /\ rest' = Tail(rest)
  /\ parts' = Tail(parts)
  /\ UNCHANGED <<pc, in, req, got, todo, list, bytes, head, wire>>

\* The length is written, the bytes before the offset are sent, the packet is
\* freed.
jdwpSend ==
  /\ pc \in { "answer", "composite" }
  /\ todo = <<>>
  /\ list = <<>>
  /\ rest = <<>>
  /\ Sends(pc, Contents(Stored(p, LENGTH_POS, U4(p.offset))), head, body)
  /\ p' = None
  /\ body' = <<>>
  /\ pc' = "idle"
  /\ UNCHANGED <<in, req, got, todo, list, bytes, rest, head, parts, over>>

-----------------------------------------------------------------------------
Init ==
  /\ pc = "idle"
  /\ in = None
  /\ req \in Requests
  /\ got = <<>>
  /\ p = None
  /\ todo = <<>>
  /\ list = <<>>
  /\ bytes = 0
  /\ rest = <<>>
  /\ head = <<>>
  /\ body = <<>>
  /\ parts = <<>>
  /\ over = FALSE
  /\ wire = Silence

Next ==
  \/ onReceive \/ ReadNext \/ dispatchAll \/ jdwpSend_error
  \/ NewPart \/ add_Packet \/ newReply \/ NewComposite
  \/ \E item \in Items : Write(item)
  \/ WriteNext \/ write_list \/ Grow \/ Copy \/ jdwpSend

\* A thread inside write_list goes on.
Fairness == WF_vars(Grow \/ Copy)

Spec == Init /\ [][Next]_vars /\ Fairness

-----------------------------------------------------------------------------
\* Properties

IsPacket(q) ==
  /\ q.length \in Nat
  /\ q.offset \in 0 .. q.length
  /\ q.data \in [0 .. q.length - 1 -> Byte \cup {Unset}]

\* The offset of a packet never passes its length, as the unsigned subtraction
\* in write_packet takes for granted; nothing is being appended to a packet
\* while a list is copied into it.
TypeOK ==
  /\ pc \in { "idle", "handle", "events", "part of answer", "part of events",
              "answer", "composite" }
  /\ IsPacket(p)
  /\ \A k \in 1 .. Len(list) : IsPacket(list[k])
  /\ \A k \in 1 .. Len(rest) : IsPacket(rest[k])
  /\ todo \in Seq(Seq(Byte))
  /\ body \in Seq(Byte)
  /\ bytes \in Nat
  /\ over \in BOOLEAN
  /\ todo # <<>> => rest = <<>>

\* Every byte that is stored lies in the block it is meant for,
\* whatever the caller's estimate and however writers, parts and lists follow
\* each other.
InBlock == ~over

\* What goes out is what the handler asked for: the id of the command that is
\* answered, the flags, then every item and every part in the order of the
\* list, through all reallocations; an answer without error and a composite
\* announce their size.
SentAsWritten ==
  wire.kind # "none" =>
    /\ SubSeq(wire.bytes, 5, Len(wire.bytes)) = wire.head \o wire.body
    /\ wire.kind # "error" => SubSeq(wire.bytes, 1, 4) = U4(Len(wire.bytes))

\* A word of up to eight bytes, whose value has 31 bits when it takes eight, as
\* the index of a location does; or a string of any length.
Plain(f) ==
  /\ f.value \in Seq(Byte)
  /\ \/ /\ f.kind = "word"
        /\ Len(f.value) <= 8
        /\ Len(f.value) = 8 => f.value[5] < 128 /\ \A k \in 1 .. 4 : f.value[k] = 0
     \/ f.kind = "str"

\* Every command holds such fields, one after the other.
PlainRequests ==
  \A r \in Requests :
    /\ Len(r.fields) \in Nat
    /\ \A k \in 1 .. Len(r.fields) : Plain(r.fields[k])
    /\ r.payload = Command(r.id, r.fields).payload

\* A handler that reads the fields of a command in their order gets the words
\* and the strings the debugger wrote: the one offset stands at the next field
\* after each.
ReadAsWritten ==
  pc # "idle" => \A k \in 1 .. Len(got) : got[k] = req.fields[k].value

\* Doubling the block comes to an end: write_list returns.
ListIsCopied == rest # <<>> ~> rest = <<>>

\* Every packet announces its size in its first four bytes.
LengthAnnounced ==
  wire.kind # "none" => SubSeq(wire.bytes, 1, 4) = U4(Len(wire.bytes))

=============================================================================
