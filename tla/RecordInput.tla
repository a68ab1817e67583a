---------------------------- MODULE RecordInput ----------------------------
(***************************************************************************)
(* How a ColumnParser gets from text to records: the JSONRecordBuffer that *)
(* lines of a file or inserted strings are copied to, JSONRecordReader     *)
(* that cuts a stream into lines, and the pool of JSONBinTrees that is     *)
(* reused from record to record.                                           *)
(*                                                                         *)
(* A text is reduced to how parsing it goes (JSONRecordNaiveParser): the   *)
(* fields it completes, whether it leaves a field without key and value    *)
(* (the tree gives out a child before its value is parsed), and how it     *)
(* ends.  A field in a tree is known by the text it comes from.  The three *)
(* uses are parse_file (a batch is one line), parseAll (a batch is         *)
(* BatchSize lines) and insert_parser (one string per call).               *)
(***************************************************************************)
EXTENDS Integers, Sequences, FiniteSets

CONSTANTS
  Texts,       \* the texts handed in
  MaxTexts,    \* bound: texts or lines of one parser
  BatchSize,   \* s_jtree_cap, as many trees as s_recd_num offsets
  BufferCap,   \* initial capacity of the JSONRecordBuffer
  OffsetLimit  \* the offsets are uint32_t: 2^32

\* ret: 1 a complete object, 0 the text ended, -1 a syntax error, abort: the
\* text is no object.  unset: a field was begun whose value was not parsed; also
\* in a complete object, because parseValue drops what parseObject returned.
Text == [fields : Nat, unset : BOOLEAN, ret : {"done", "end", "fail", "abort"},
         len : Nat \ {0}]

ASSUME RecordInputAssumption ==
  /\ Texts \subseteq Text
  /\ \A t \in Texts : t.ret = "abort" => t.fields = 0 /\ ~t.unset
  /\ MaxTexts \in Nat /\ BatchSize \in Nat \ {0}
  /\ BufferCap \in Nat \ {0, 1} /\ OffsetLimit \in Nat \ {0}

VARIABLES
  mode,    \* what the parser is doing, or how it stopped
  rnum,    \* records per batch
  cap,     \* m_buff: capacity,
  used,    \*   bytes used,
  buf,     \*   and which allocation it is
  batch,   \* the texts read of this batch
  rest,    \* length of what is left of a line that was cut, 0 if none
  eof,     \* the stream is at its end
  pidx,    \* next text of the batch to parse
  trees,   \* m_jtree: the fields in each JSONBinTree
  given,   \* history: the texts handed in; a text is known by its place
  cutting, \* history: the lines that were cut
  rejected,\* history: the texts insert_parser returned -1 for
  out      \* history: the records generated

inputVars  == <<batch, rest, eof, pidx>>
bufferVars == <<cap, used, buf>>
vars == <<mode, rnum, bufferVars, inputVars, trees, given, cutting, rejected, out>>

Stopped == {"ended", "failed", "died", "undefined"}

Init ==
  /\ mode = "idle" /\ rnum = 1
  /\ cap = BufferCap /\ used = 0 /\ buf = 0
  /\ batch = <<>> /\ rest = 0 /\ eof = FALSE /\ pidx = 1
  /\ trees = [i \in 1..BatchSize |-> <<>>]
  /\ given = <<>> /\ cutting = {} /\ rejected = {} /\ out = <<>>

\* ColumnParser::init, with a stream or without, and the call that follows.
Open(m, n) ==
  /\ mode = "idle"
  /\ mode' = m /\ rnum' = n
  /\ UNCHANGED <<bufferVars, inputVars, trees, given, cutting, rejected, out>>

OpenFile   == Open("read", 1)          \* parse_file: parseOne() in a loop
OpenAll    == Open("read", BatchSize)  \* parseAll()
OpenInsert == Open("insert", 1)        \* open_parser

\* The fields a text puts into a tree.
FieldsOf(id, t, b) ==
  [k \in 1..t.fields |-> [of |-> id, set |-> TRUE, buf |-> b]] \o
  (IF t.unset THEN <<[of |-> id, set |-> FALSE, buf |-> b]>> ELSE <<>>)

\* generate writes a tree unless it has to look up a field without a name.
Writable(tree)  == \A k \in 1..Len(tree) : tree[k].set
Record(id, t, tree) ==
  [of |-> id, own |-> t.fields, fields |-> [k \in 1..Len(tree) |-> tree[k].of]]

-----------------------------------------------------------------------------
(* JSONRecordReader::readLine.                                             *)

\* getline stores at most one byte less than there is room for; if that is
\* nothing, the buffer is doubled and getline is called again.
Grown(c, len) == IF len > c - used /\ c - used < 2 THEN 2 * c ELSE c

\* What a line that is cut parses to: as far as the text goes.
BrokenOff(t, n, u) == [t EXCEPT !.ret = "end", !.fields = n, !.unset = u]
LinePrefixes(t) ==
  {t} \cup IF t.ret = "abort" THEN {}
           ELSE {BrokenOff(t, n, u) : n \in 0..t.fields, u \in BOOLEAN}

CanRead == mode = "read" /\ ~eof /\ Len(batch) < rnum

\* A line (or what is left of one) of length len is read into capacity c.
TakeLine(id, t, len, c, before) ==
  LET room == c - used
  IN  /\ cap' = c
      /\ \/ /\ len <= room
            /\ used' = used + len
            /\ rest' = 0
            /\ batch' = Append(before, [of |-> id, text |-> t, whole |-> t])
            /\ UNCHANGED cutting
         \/ /\ len > room /\ room >= 2
            /\ used' = used + room - 1
            /\ rest' = len - (room - 1)
            /\ \E p \in LinePrefixes(t) :
                 batch' = Append(before, [of |-> id, text |-> p, whole |-> t])
            /\ cutting' = cutting \cup {id}
      /\ UNCHANGED <<mode, rnum, buf, eof, pidx, trees, rejected, out>>

ReadLine(t) ==
  /\ CanRead /\ rest = 0
  /\ Len(given) < MaxTexts
  /\ given' = Append(given, t)
  /\ TakeLine(Len(given) + 1, t, t.len, Grown(cap, t.len), batch)

\* getline failed on the cut line: the buffer is doubled, and what is left of
\* the line is taken for the next record.  Inside a batch it directly follows
\* the first part, without a '\0', so that the first part is whole again.
ReadRest(t) ==
  /\ CanRead /\ rest > 0
  /\ LET before == [i \in 1..Len(batch) |->
                      IF i = Len(batch) THEN [batch[i] EXCEPT !.text = batch[i].whole]
                      ELSE batch[i]]
     IN  TakeLine(Len(given), t, rest, 2 * cap, before)
  /\ UNCHANGED given

EndOfStream ==
  /\ CanRead /\ rest = 0
  /\ eof' = TRUE
  /\ UNCHANGED <<mode, rnum, bufferVars, batch, rest, pidx, trees, given, cutting, rejected, out>>

-----------------------------------------------------------------------------
(* ColumnParser::readRecds2TreeInBatch and ColumnItemGenerator::generate.  *)

\* The batch is read; one without any text is the end.
BatchRead ==
  /\ mode = "read"
  /\ Len(batch) = rnum \/ eof
  /\ mode' = IF batch = <<>> THEN "ended" ELSE "parse"
  /\ pidx' = 1
  /\ UNCHANGED <<rnum, bufferVars, batch, rest, eof, trees, given, cutting, rejected, out>>

\* Mutant of MoreToParse: one tree too many.
MutantOneMore == pidx <= rnum + 1

\* The loop runs over rnum trees, however many texts the batch has.
MoreToParse == pidx <= rnum

ParseText ==
  /\ mode = "parse" /\ MoreToParse /\ pidx <= Len(batch)
  /\ LET piece == batch[pidx]
     IN  /\ trees' = [trees EXCEPT ![pidx] = @ \o FieldsOf(piece.of, piece.text, buf)]
         /\ mode' = CASE piece.text.ret = "abort" -> "died"
                      [] piece.text.ret = "fail"  -> "failed"
                      [] OTHER                    -> "parse"
  /\ pidx' = pidx + 1
  /\ UNCHANGED <<rnum, bufferVars, batch, rest, eof, given, cutting, rejected, out>>

\* Where the batch has no text the record begins at a null pointer.
ParseNothing ==
  /\ mode = "parse" /\ MoreToParse /\ pidx > Len(batch)
  /\ mode' = "died"
  /\ UNCHANGED <<rnum, bufferVars, inputVars, trees, given, cutting, rejected, out>>

\* Mutant of Cleared: the trees keep their fields.
MutantNotCleared(ts) == ts

\* bt->clear after each record.
Cleared(ts) == [i \in DOMAIN ts |-> <<>>]

\* Mutant of Generated: the last tree of the batch is left out.
MutantLastTreeLeft ==
  [i \in 1..(rnum - 1) |-> Record(batch[i].of, batch[i].text, trees[i])]

Generated == [i \in 1..rnum |-> Record(batch[i].of, batch[i].text, trees[i])]

\* Mutant of UsedAfterClear: m_buff->clear is forgotten.
MutantUsedKept == used

\* m_buff->clear before a batch is read.
UsedAfterClear == 0

\* All trees of the batch become records, and the next batch begins with an
\* empty buffer.
GenerateBatch ==
  /\ mode = "parse" /\ ~MoreToParse
  /\ IF \A i \in 1..rnum : Writable(trees[i])
     THEN /\ out' = out \o Generated
          /\ trees' = Cleared(trees)
          /\ mode' = "read"
     ELSE /\ mode' = "died"
          /\ UNCHANGED <<out, trees>>
  /\ batch' = <<>> /\ used' = UsedAfterClear
  /\ UNCHANGED <<rnum, cap, buf, rest, eof, pidx, given, cutting, rejected>>

-----------------------------------------------------------------------------
(* insert_parser: ColumnParser::parseOne(recd, len).                       *)

\* Mutant of Reserved: the string is copied without room for it.
MutantNotReserved(len) == cap

\* Buffer::append makes room (rounded up to the alignment of the buffer).
Reserved(len) == IF used + len <= cap THEN cap ELSE used + len

\* Without a stream nothing ever clears the buffer: each string is appended,
\* and a realloc may move it.
AppendOneRecd(len) ==
  /\ used' = used + len
  /\ cap' = Reserved(len)
  /\ buf' \in {buf} \cup (IF cap' = cap THEN {} ELSE {buf + 1})

\* What is parsed: the string, unless its offset does not fit the array.  Then it
\* is an earlier text, in which parsing has replaced the first delimiter by '\0',
\* or the middle of one.
Parsed(t) ==
  IF used < OffsetLimit THEN {t}
  ELSE {[t EXCEPT !.fields = 0, !.unset = FALSE, !.ret = r] :
          r \in {"done", "end", "fail", "abort"}}

\* One call.
Insert(t) ==
  /\ mode = "insert" /\ Len(given) < MaxTexts
  /\ given' = Append(given, t)
  /\ AppendOneRecd(t.len)
  /\ \E p \in Parsed(t) :
       LET id    == Len(given) + 1
           tree  == trees[1] \o FieldsOf(id, p, buf')
           moved == \E k \in 1..Len(tree) : tree[k].buf # buf'
       IN  \/ /\ p.ret = "abort"
              /\ mode' = "died"
              /\ UNCHANGED <<trees, rejected, out>>
           \/ /\ p.ret = "fail"
              /\ trees' = [trees EXCEPT ![1] = tree]
              /\ rejected' = rejected \cup {id}
              /\ UNCHANGED <<mode, out>>
           \/ /\ p.ret \in {"done", "end"} /\ ~moved /\ Writable(tree)
              /\ out' = Append(out, Record(id, p, tree))
              /\ trees' = Cleared([trees EXCEPT ![1] = tree])
              /\ UNCHANGED <<mode, rejected>>
           \/ /\ p.ret \in {"done", "end"} /\ (moved \/ ~Writable(tree))
              /\ mode' = IF moved THEN "undefined" ELSE "died"
              /\ UNCHANGED <<trees, rejected, out>>
  /\ UNCHANGED <<rnum, inputVars, cutting>>

\* close_parser.
CloseInsert ==
  /\ mode = "insert"
  /\ mode' = "ended"
  /\ UNCHANGED <<rnum, bufferVars, inputVars, trees, given, cutting, rejected, out>>

-----------------------------------------------------------------------------
Next ==
  \/ OpenFile \/ OpenAll \/ OpenInsert
  \/ \E t \in Texts : ReadLine(t)
  \/ \E t \in Texts : ReadRest(t)
  \/ EndOfStream
  \/ BatchRead \/ ParseText \/ ParseNothing \/ GenerateBatch
  \/ \E t \in Texts : Insert(t)
  \/ CloseInsert

Spec == Init /\ [][Next]_vars

-----------------------------------------------------------------------------
(* Properties.                                                             *)

Field   == [of : 1..MaxTexts, set : BOOLEAN, buf : Nat]
Indexes == 1..BatchSize

TypeOK ==
  /\ mode \in {"idle", "read", "parse", "insert"} \cup Stopped
  /\ rnum \in Indexes /\ cap \in Nat /\ used \in Nat /\ used <= cap /\ buf \in Nat
  /\ Len(batch) <= rnum /\ rest \in Nat /\ eof \in BOOLEAN /\ pidx \in 1..(BatchSize + 1)
  /\ \A i \in Indexes : trees[i] \in Seq(Field)
  /\ given \in Seq(Texts) /\ Len(given) <= MaxTexts
  /\ cutting \subseteq 1..Len(given) /\ rejected \subseteq 1..Len(given)
  /\ \A i \in 1..Len(out) : out[i].of \in 1..Len(given)

\* A record holds the fields of the text it was made from and nothing else
\* (steed.h:172: "insert a JSON record into table").
RecordsHoldTheirText ==
  \A i \in 1..Len(out) : \A k \in 1..Len(out[i].fields) : out[i].fields[k] = out[i].of

\* What does hold: all fields of its text are in a record, once, and a field of
\* another text only if insert_parser refused that text after it had accepted
\* the one of the record before (the tree of a refused text is not cleared).
MixOnlyAfterRejection ==
  \A i \in 1..Len(out) :
    LET r    == out[i]
        prev == IF i = 1 THEN 0 ELSE out[i - 1].of
        own  == {k \in 1..Len(r.fields) : r.fields[k] = r.of}
    IN  /\ Cardinality(own) = r.own
        /\ \A k \in (1..Len(r.fields)) \ own :
             r.fields[k] \in rejected /\ r.fields[k] \in (prev + 1)..(r.of - 1)

Missing == (1..Len(given)) \ {out[i].of : i \in 1..Len(out)}

\* Every text has its record when a parser ends, if it was not refused.  When
\* a file has a line with a syntax error, only lines of the same batch are lost
\* with it (parse_file: that line alone).
LossStaysInBatch ==
  /\ mode = "ended"  => Missing = rejected
  /\ mode = "failed" => Missing \subseteq (Len(given) - rnum + 1)..Len(given)

\* The process dies only of a text that is no object or breaks off inside a
\* value, of a line that was cut, of offsets beyond OffsetLimit, or in parseAll
\* of a number of lines that is no multiple of the batch; and it uses memory it
\* has freed only if a refused text was left in a tree and the buffer has moved.
StopsHaveCauses ==
  /\ mode = "died" =>
       \/ \E i \in 1..Len(given) : given[i].ret = "abort" \/ given[i].unset
       \/ cutting # {}
       \/ used > OffsetLimit
       \/ rnum > 1 /\ Len(given) % rnum # 0
  /\ mode = "undefined" => rejected # {} /\ buf > 0

\* parse_file cuts a line only if it is longer than the buffer, which has been
\* doubled for every line cut before (not because lines before it filled it).
CutsNeedLongLines ==
  rnum = 1 =>
    \A id \in cutting :
      given[id].len > BufferCap * 2^Cardinality({c \in cutting : c < id})

=============================================================================
