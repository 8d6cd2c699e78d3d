---------------------------- MODULE UploadProofs ----------------------------
(***************************************************************************)
(* A pack of any size, in chunks of any size, by any number of handlers    *)
(* that may outlive their clients, after any interruptions and power       *)
(* losses: as long as no request has overtaken another, the row stays      *)
(* behind the file and an uploaded pack is whole.                          *)
(***************************************************************************)
EXTENDS Upload, TLAPS

(* The current row is one of the rows. *)
LEMMA RowType ==
    ASSUME UploadTypeOK
    PROVE  Len(rows) \in 1 .. Len(rows) /\ row \in Rows
BY DEF UploadTypeOK, row

LEMMA BlocksFacts ==
    ASSUME NEW n \in Nat, NEW m \in 0 .. n
    PROVE  /\ Blocks(0, m) \subseteq Blocks(0, n)
           /\ Blocks(0, n) \cap Blocks(0, m) = Blocks(0, m)
           /\ Blocks(0, n) \cup {n} = Blocks(0, n + 1)
           /\ m < n => Blocks(0, n) \cup {m} = Blocks(0, n)
BY DEF Blocks

-----------------------------------------------------------------------------
(* Types.                                                                  *)

(* A handler that ends leaves the others as they are. *)
LEMMA EndKeeps ==
    ASSUME UploadTypeOK, NEW h \in Handlers, End(h)
    PROVE  /\ handler' \in [Handlers -> Requests]
           /\ handler'[h].pc = "free"
           /\ \A g \in Handlers \ {h} : handler'[g] = handler[g]
<1>1. Free \in Requests
  BY UploadAssumption DEF Free, NoRow, Rows, Requests
<1> QED BY <1>1 DEF End, UploadTypeOK, Free

(* A handler that goes on keeps its request. *)
LEMMA StepKeeps ==
    ASSUME UploadTypeOK, NEW h \in Handlers, NEW pc \in {"cut", "write", "row"}, Step(h, pc)
    PROVE  /\ handler' \in [Handlers -> Requests]
           /\ handler'[h] = [handler[h] EXCEPT !.pc = pc]
           /\ \A g \in Handlers \ {h} : handler'[g] = handler[g]
<1>1. handler[h] \in Requests /\ handler \in [Handlers -> Requests]
  BY DEF UploadTypeOK
<1>2. [handler[h] EXCEPT !.pc = pc] \in Requests
  BY <1>1 DEF Requests
<1> QED BY <1>1, <1>2 DEF Step

(* What a client may be told. *)
LEMMA AnswerType ==
    ASSUME UploadTypeOK, NEW h \in Handlers
    PROVE  /\ Starting \in Clients
           /\ \A offset \in 0 .. Size :
                  Answer(h, [pc |-> "send", offset |-> offset, waits |-> None]) => client' \in Clients
           /\ Answer(h, Starting) => client' \in Clients
           /\ [client EXCEPT !.pc = "wait", !.waits = h] \in Clients
<1>1. client \in Clients
  BY DEF UploadTypeOK
<1>2. Starting \in Clients
  BY UploadAssumption DEF Starting, Clients
<1>3. [client EXCEPT !.pc = "wait", !.waits = h] \in Clients
  BY <1>1 DEF Clients
<1>4. \A offset \in 0 .. Size : [pc |-> "send", offset |-> offset, waits |-> None] \in Clients
  BY DEF Clients
<1> QED BY <1>1, <1>2, <1>3, <1>4 DEF Answer

(* The request a chunk is sent with. *)
LEMMA PatchType ==
    ASSUME UploadTypeOK, client.offset < Size
    PROVE  LET to == ChunkEnd(client.offset) IN
           /\ client.offset \in 0 .. Size /\ to \in 0 .. Size /\ client.offset < to
           /\ [pc |-> "open", seen |-> row, from |-> client.offset, to |-> to,
               pos |-> client.offset] \in Requests
<1> USE UploadAssumption
<1>1. client.offset \in 0 .. Size /\ row \in Rows
  BY RowType DEF UploadTypeOK, Clients
<1>2. ChunkEnd(client.offset) \in 0 .. Size /\ client.offset < ChunkEnd(client.offset)
  BY <1>1 DEF ChunkEnd
<1> QED BY <1>1, <1>2 DEF Requests

LEMMA ClientTypes ==
    ASSUME UploadTypeOK, ClientStep, overtaken' \in BOOLEAN
    PROVE  UploadTypeOK'
<1> USE UploadAssumption
<1>1. UNCHANGED <<file, rows, bounds>> /\ client \in Clients /\ handler \in [Handlers -> Requests]
  BY DEF ClientStep, Resume, SendHead, SendPatch, Finish, UploadTypeOK
<1>2. client' \in Clients /\ handler' \in [Handlers -> Requests]
  <2>1. CASE Resume \/ Finish
    BY <1>1, <2>1 DEF Resume, Finish, Clients
  <2>2. ASSUME NEW h \in Handlers, SendHead(h) PROVE <1>2!1 /\ <1>2!2
    <3>1. [pc |-> "stat", seen |-> row, from |-> 0, to |-> 0, pos |-> 0] \in Requests
      BY RowType DEF Requests
    <3> QED BY <1>1, <2>2, <3>1, AnswerType DEF SendHead
  <2>3. ASSUME NEW h \in Handlers, SendPatch(h) PROVE <1>2!1 /\ <1>2!2
    BY <1>1, <2>3, PatchType, AnswerType DEF SendPatch
  <2> QED BY <2>1, <2>2, <2>3 DEF ClientStep
<1> QED BY <1>1, <1>2 DEF UploadTypeOK, file, bounds

LEMMA HeadTypes ==
    ASSUME UploadTypeOK, NEW h \in Handlers, PackOffset(h) \/ TruncateFile(h),
           overtaken' \in BOOLEAN
    PROVE  UploadTypeOK'
<1> USE UploadAssumption
<1>1. handler[h].seen.uploaded \in 0 .. Size
  BY DEF UploadTypeOK, Requests, Rows
<1>2. CASE PackOffset(h)
  <2>1. client' \in Clients
    BY <1>1, <1>2, AnswerType DEF PackOffset, Refuse, HeadAnswer, UploadTypeOK
  <2>2. handler' \in [Handlers -> Requests]
    BY <1>2, EndKeeps, StepKeeps DEF PackOffset, Refuse
  <2> QED BY <1>2, <2>1, <2>2 DEF UploadTypeOK, PackOffset, file, bounds
<1>3. CASE TruncateFile(h)
  <2>1. client' \in Clients
    BY <1>1, <1>3, AnswerType DEF TruncateFile, HeadAnswer
  <2>2. handler' \in [Handlers -> Requests]
    BY <1>3, EndKeeps DEF TruncateFile
  <2>3. len' \in 0 .. Size /\ synced' \in 0 .. Size /\ good' \subseteq Blocks(0, Size)
    BY <1>1, <1>3 DEF TruncateFile, CutTo, UploadTypeOK
  <2> QED BY <1>3, <2>1, <2>2, <2>3 DEF UploadTypeOK, TruncateFile, bounds
<1> QED BY <1>2, <1>3

LEMMA ChunkTypes ==
    ASSUME UploadTypeOK, NEW h \in Handlers,
           OpenFile(h) \/ WriteBlock(h) \/ SyncFile(h) \/ UpdateRow(h) \/ Drop(h),
           overtaken' \in BOOLEAN
    PROVE  UploadTypeOK'
<1> USE UploadAssumption
<1>0. handler[h] \in Requests /\ handler \in [Handlers -> Requests]
  BY DEF UploadTypeOK
<1>1. CASE OpenFile(h)
  <2>1. client' \in Clients /\ handler' \in [Handlers -> Requests]
    BY <1>1, EndKeeps, StepKeeps, AnswerType DEF OpenFile, Refuse, UploadTypeOK
  <2> QED BY <1>1, <2>1 DEF UploadTypeOK, OpenFile, file, bounds
<1>2. CASE WriteBlock(h)
  <2>1. handler[h].pos \in 0 .. Size - 1 /\ handler[h].pos + 1 \in 0 .. Size
    BY <1>0, <1>2 DEF WriteBlock, Requests
  <2>2. [handler[h] EXCEPT !.pos = handler[h].pos + 1] \in Requests
    BY <1>0, <2>1 DEF Requests
  <2>3. handler' \in [Handlers -> Requests]
    BY <1>0, <1>2, <2>2 DEF WriteBlock
  <2>4. len' \in 0 .. Size /\ good' \subseteq Blocks(0, Size)
    BY <1>2, <2>1 DEF WriteBlock, UploadTypeOK, Blocks
  <2> QED BY <1>2, <2>3, <2>4 DEF UploadTypeOK, WriteBlock, bounds
<1>3. CASE SyncFile(h)
  BY <1>3, StepKeeps DEF UploadTypeOK, SyncFile, Flushed, bounds
<1>4. CASE UpdateRow(h)
  <2>1. handler[h].to \in 0 .. Size /\ handler[h].seen \in Rows
    BY <1>0 DEF Requests
  <2>2. [uploaded |-> handler[h].to,
         status |-> IF handler[h].to = Size THEN "UPLOADED" ELSE handler[h].seen.status] \in Rows
    BY <2>1 DEF Rows
  <2>3. rows' \in Seq(Rows) /\ rows' # <<>>
    BY <1>4, <2>2 DEF UploadTypeOK, UpdateRow
  <2>4. client' \in Clients /\ handler' \in [Handlers -> Requests]
    BY <1>4, <2>1, EndKeeps, AnswerType DEF UpdateRow
  <2> QED BY <1>4, <2>3, <2>4 DEF UploadTypeOK, UpdateRow, file, bounds
<1>5. CASE Drop(h)
  BY <1>5, EndKeeps DEF UploadTypeOK, Drop, file, bounds
<1> QED BY <1>1, <1>2, <1>3, <1>4, <1>5

LEMMA FailureTypes ==
    ASSUME UploadTypeOK, Break \/ PowerLoss, overtaken' \in BOOLEAN
    PROVE  UploadTypeOK'
<1> USE UploadAssumption
<1>0. Starting \in Clients /\ Free \in Requests
  BY DEF Starting, Clients, Free, NoRow, Rows, Requests
<1>1. CASE Break
  BY <1>0, <1>1 DEF UploadTypeOK, Break, file
<1>2. CASE PowerLoss
  <2>1. len' \in 0 .. Size /\ synced' \in 0 .. Size /\ good' \subseteq Blocks(0, Size)
    BY <1>2 DEF PowerLoss, UploadTypeOK
  <2>2. rows' \in Seq(Rows) /\ rows' # <<>>
    <3>1. PICK m \in 1 .. Len(rows) : rows' = SubSeq(rows, 1, m)
      BY <1>2 DEF PowerLoss
    <3>2. rows' \in Seq(Rows) /\ Len(rows') = m /\ m # 0
      BY <3>1 DEF UploadTypeOK
    <3> QED BY <3>2
  <2> QED BY <1>0, <1>2, <2>1, <2>2 DEF UploadTypeOK, PowerLoss
<1> QED BY <1>1, <1>2

-----------------------------------------------------------------------------
(* What holds as long as no request overtakes another.                     *)

(* A handler that has ended knows nothing. *)
LEMMA FreeKeeps ==
    ASSUME NEW h \in Handlers, handler'[h].pc = "free"
    PROVE  Writing(h)'
BY DEF Writing, Serving

(* The client's steps: a new request has the current row. *)
LEMMA ClientSound ==
    ASSUME UploadTypeOK, UploadTypeOK', UploadSound, ClientStep
    PROVE  UploadSound'
<1> USE UploadAssumption
<1>0. row \in Rows /\ Behind /\ RowsGrow /\ \A g \in Handlers : Writing(g)
  BY RowType DEF UploadSound
<1>1. UNCHANGED <<file, rows>> /\ row' = row
  BY DEF ClientStep, Resume, SendHead, SendPatch, Finish, row
<1>2. Behind' /\ RowsGrow'
  BY <1>0, <1>1 DEF Behind, RowsGrow, file
<1>3. \A g \in Handlers : Writing(g)'
  <2> SUFFICES ASSUME NEW g \in Handlers PROVE Writing(g)'
    OBVIOUS
  <2>1. CASE handler'[g] = handler[g]
    BY <1>0, <1>1, <2>1 DEF Writing, Serving, file
  <2>2. CASE SendHead(g)
    <3>1. handler'[g] = [pc |-> "stat", seen |-> row, from |-> 0, to |-> 0, pos |-> 0]
      BY <2>2 DEF SendHead, UploadTypeOK
    <3> QED BY <1>0, <1>1, <3>1 DEF Writing, Serving, Rows
  <2>3. CASE SendPatch(g) /\ Uploadable(row)
    <3> DEFINE to == ChunkEnd(client.offset)
    <3>1. handler'[g] = [pc |-> "open", seen |-> row, from |-> client.offset, to |-> to,
                         pos |-> client.offset]
      BY <2>3 DEF SendPatch, UploadTypeOK
    <3>2. client.offset \in 0 .. Size /\ to \in 0 .. Size /\ client.offset < to
      BY <2>3, PatchType DEF SendPatch
    <3> HIDE DEF to
    <3> QED BY <1>0, <1>1, <2>3, <3>1, <3>2 DEF Writing, Serving, Uploadable, Rows
  <2>4. \/ handler'[g] = handler[g] \/ SendHead(g) \/ (SendPatch(g) /\ Uploadable(row))
    BY DEF ClientStep, Resume, SendHead, SendPatch, Finish, UploadTypeOK
  <2> QED BY <2>1, <2>2, <2>3, <2>4
<1> QED BY <1>2, <1>3 DEF UploadSound

(* HEAD: a truncation that takes nothing back leaves the row and what the  *)
(* other handlers have written.                                            *)
LEMMA HeadSound ==
    ASSUME UploadTypeOK, UploadTypeOK', UploadSound, NEW h \in Handlers,
           PackOffset(h) \/ TruncateFile(h), ~CutsShort(h)
    PROVE  UploadSound'
<1> USE UploadAssumption
<1>0. /\ row \in Rows /\ Behind /\ RowsGrow /\ \A g \in Handlers : Writing(g)
      /\ handler \in [Handlers -> Requests]
      /\ len \in Nat /\ len' \in Nat /\ synced \in Nat /\ synced' \in Nat
  BY RowType DEF UploadSound, UploadTypeOK
<1>1. UNCHANGED rows /\ row' = row /\ RowsGrow'
  BY <1>0 DEF PackOffset, TruncateFile, row, RowsGrow
<1>2. CASE PackOffset(h)
  <2>1. UNCHANGED file /\ Behind'
    BY <1>0, <1>2 DEF PackOffset, Behind, file
  <2>2. \A g \in Handlers \ {h} : handler'[g] = handler[g]
    BY <1>2, EndKeeps, StepKeeps DEF PackOffset, Refuse
  <2>3. \A g \in Handlers \ {h} : Writing(g)'
    BY <1>0, <1>1, <2>1, <2>2 DEF Writing, Serving, file
  <2>4. Writing(h)'
    <3>1. handler'[h].pc = "free" \/ handler'[h] = [handler[h] EXCEPT !.pc = "cut"]
      BY <1>2, EndKeeps, StepKeeps DEF PackOffset, Refuse
    <3>2. handler[h] \in Requests /\ handler[h].pc = "stat"
      BY <1>0, <1>2 DEF PackOffset, Serving
    <3> QED BY <1>0, <1>1, <3>1, <3>2 DEF Writing, Serving, Requests
  <2> QED BY <1>1, <2>1, <2>3, <2>4 DEF UploadSound
<1>3. CASE TruncateFile(h)
  <2> DEFINE to == handler[h].seen.uploaded
  <2>1. /\ to \in 0 .. Size /\ row.uploaded \in 0 .. Size
        /\ to <= row.uploaded /\ ~(to < row.uploaded)
        /\ \A g \in Handlers : Written(g) => ~(to < handler[g].pos)
    BY <1>0, <1>3 DEF TruncateFile, Serving, CutsShort, Writing, Requests, Rows
  <2>2. len' = to /\ good' = good \cap Blocks(0, to) /\ synced' = IF synced > to THEN to ELSE synced
    BY <1>3 DEF TruncateFile, CutTo
  <2> HIDE DEF to
  <2>3. /\ to = row.uploaded /\ to <= synced /\ to <= len /\ synced' = to
    <3>1. row.uploaded <= synced /\ synced <= len
      BY <1>0, RowType DEF Behind, row
    <3> QED BY <1>0, <2>1, <2>2, <3>1
  <2>4. Behind'
    <3>1. good' = Blocks(0, len')
      <4>1. good = Blocks(0, len) /\ to \in 0 .. len
        BY <1>0, <2>1, <2>3 DEF Behind
      <4> QED BY <1>0, <2>2, <4>1, BlocksFacts
    <3>2. \A i \in 1 .. Len(rows) : rows[i].uploaded <= row.uploaded
      BY <1>0, RowType DEF RowsGrow, row
    <3>3. rows' = rows /\ synced' = row.uploaded /\ len' = row.uploaded
      BY <1>1, <2>2, <2>3
    <3>4. /\ \A i \in 1 .. Len(rows') : rows'[i].uploaded <= synced'
          /\ synced' <= len'
      BY <1>0, <3>2, <3>3
    <3> QED BY <3>1, <3>4 DEF Behind
  <2>5. Writing(h)'
    BY <1>3, EndKeeps, FreeKeeps DEF TruncateFile
  <2>6. \A g \in Handlers \ {h} : Writing(g)'
    <3> SUFFICES ASSUME NEW g \in Handlers \ {h} PROVE Writing(g)'
      OBVIOUS
    <3>1. handler'[g] = handler[g] /\ handler[g] \in Requests
      BY <1>0, <1>3, EndKeeps DEF TruncateFile
    <3>2. Writing(g) /\ (Written(g) => ~(to < handler[g].pos))
      BY <1>0, <2>1
    <3> QED BY <1>0, <1>1, <2>1, <2>2, <2>3, <3>1, <3>2 DEF Writing, Serving, Written, Requests, Rows
  <2> QED BY <1>1, <2>4, <2>5, <2>6 DEF UploadSound
<1> QED BY <1>2, <1>3

(* A chunk is written at the end of the file or over the same blocks.      *)
LEMMA ChunkSound ==
    ASSUME UploadTypeOK, UploadTypeOK', UploadSound, NEW h \in Handlers,
           OpenFile(h) \/ WriteBlock(h) \/ SyncFile(h) \/ Drop(h)
    PROVE  UploadSound'
<1> USE UploadAssumption
<1>0. /\ row \in Rows /\ Behind /\ RowsGrow /\ \A g \in Handlers : Writing(g)
      /\ handler \in [Handlers -> Requests] /\ handler[h] \in Requests
      /\ len \in Nat /\ len' \in Nat /\ synced \in Nat /\ synced' \in Nat
  BY RowType DEF UploadSound, UploadTypeOK
<1>1. UNCHANGED rows /\ row' = row /\ RowsGrow'
  BY <1>0 DEF OpenFile, WriteBlock, SyncFile, Drop, row, RowsGrow
<1>2. CASE OpenFile(h) \/ Drop(h)
  <2>1. UNCHANGED file /\ Behind'
    BY <1>0, <1>1, <1>2 DEF OpenFile, Drop, Behind, file
  <2>2. \A g \in Handlers \ {h} : handler'[g] = handler[g]
    BY <1>2, EndKeeps, StepKeeps DEF OpenFile, Drop, Refuse
  <2>3. \A g \in Handlers \ {h} : Writing(g)'
    BY <1>0, <1>1, <2>1, <2>2 DEF Writing, Serving, file
  <2>4. CASE handler'[h].pc = "free"
    BY <1>1, <2>1, <2>3, <2>4, FreeKeeps DEF UploadSound
  <2>5. CASE OpenFile(h) /\ Step(h, "write") /\ len = handler[h].from
    <3>1. handler'[h] = [handler[h] EXCEPT !.pc = "write"] /\ handler[h].pc = "open"
      BY <2>5, StepKeeps DEF OpenFile, Serving
    <3>2. Writing(h)'
      BY <1>0, <1>1, <2>1, <2>5, <3>1 DEF Writing, Serving, Requests, file
    <3> QED BY <1>1, <2>1, <2>3, <3>2 DEF UploadSound
  <2> QED BY <1>2, <2>4, <2>5, EndKeeps DEF OpenFile, Drop, Refuse
<1>3. CASE WriteBlock(h)
  <2> DEFINE pos == handler[h].pos
  <2>1. /\ pos \in 0 .. len /\ pos < handler[h].to /\ handler[h].pc = "write"
        /\ good = Blocks(0, len) /\ synced <= len
    BY <1>0, <1>3 DEF WriteBlock, Writing, Serving, Behind, Requests
  <2>2. good' = good \cup {pos} /\ len' = (IF len > pos THEN len ELSE pos + 1) /\ synced' = synced
    BY <1>3 DEF WriteBlock
  <2>3. /\ handler'[h] = [handler[h] EXCEPT !.pos = pos + 1]
        /\ \A g \in Handlers \ {h} : handler'[g] = handler[g]
    BY <1>0, <1>3 DEF WriteBlock
  <2>4. len' >= len /\ good' = Blocks(0, len')
    <3>1. CASE pos = len
      BY <1>0, <2>1, <2>2, <3>1, BlocksFacts
    <3>2. CASE pos < len
      BY <1>0, <2>1, <2>2, <3>2, BlocksFacts
    <3> QED BY <1>0, <2>1, <3>1, <3>2
  <2>5. Behind'
    BY <1>0, <1>1, <2>1, <2>2, <2>4 DEF Behind
  <2>6. Writing(h)'
    <3>1. pos + 1 <= len'
      BY <1>0, <2>1, <2>2
    <3> QED BY <1>0, <1>1, <2>1, <2>3, <3>1 DEF Writing, Serving, Requests
  <2>7. \A g \in Handlers \ {h} : Writing(g)'
    <3> SUFFICES ASSUME NEW g \in Handlers \ {h} PROVE Writing(g)'
      OBVIOUS
    <3>1. handler'[g] = handler[g] /\ handler[g] \in Requests /\ Writing(g)
      BY <1>0, <2>3
    <3> HIDE DEF pos
    <3> QED BY <1>0, <1>1, <2>2, <2>4, <3>1 DEF Writing, Serving, Requests, Rows
  <2> QED BY <1>1, <2>5, <2>6, <2>7 DEF UploadSound
<1>4. CASE SyncFile(h)
  <2>1. synced' = len /\ len' = len /\ good' = good /\ handler[h].pc = "write"
        /\ handler[h].pos = handler[h].to /\ handler[h].pos <= len /\ synced <= len
    BY <1>0, <1>4 DEF SyncFile, Flushed, Writing, Serving, Behind
  <2>2. /\ handler'[h] = [handler[h] EXCEPT !.pc = "row"]
        /\ \A g \in Handlers \ {h} : handler'[g] = handler[g]
    BY <1>4, StepKeeps DEF SyncFile
  <2>3. Behind'
    <3>1. \A i \in 1 .. Len(rows) : rows[i].uploaded <= len
      <4> SUFFICES ASSUME NEW i \in 1 .. Len(rows) PROVE rows[i].uploaded <= len
        OBVIOUS
      <4>1. rows[i] \in Rows /\ rows[i].uploaded <= synced
        BY <1>0 DEF Behind, UploadTypeOK
      <4> QED BY <1>0, <2>1, <4>1 DEF Rows
    <3> QED BY <1>0, <1>1, <2>1, <3>1 DEF Behind
  <2>4. Writing(h)'
    BY <1>0, <1>1, <2>1, <2>2 DEF Writing, Serving, Requests
  <2>5. \A g \in Handlers \ {h} : Writing(g)'
    <3> SUFFICES ASSUME NEW g \in Handlers \ {h} PROVE Writing(g)'
      OBVIOUS
    <3>1. handler'[g] = handler[g] /\ handler[g] \in Requests /\ Writing(g)
      BY <1>0, <2>2
    <3> QED BY <1>0, <1>1, <2>1, <3>1 DEF Writing, Serving, Requests, Rows
  <2> QED BY <1>1, <2>3, <2>4, <2>5 DEF UploadSound
<1> QED BY <1>2, <1>3, <1>4

(* The row catches up with what has been synced. *)
LEMMA RowSound ==
    ASSUME UploadTypeOK, UploadTypeOK', UploadSound, NEW h \in Handlers,
           UpdateRow(h), ~SetsBack(h)
    PROVE  UploadSound'
<1> USE UploadAssumption
<1>0. /\ row \in Rows /\ Behind /\ RowsGrow /\ \A g \in Handlers : Writing(g)
      /\ handler \in [Handlers -> Requests] /\ handler[h] \in Requests
      /\ len \in Nat /\ synced \in Nat /\ row.uploaded \in 0 .. Size
  BY RowType DEF UploadSound, UploadTypeOK, Rows
<1> DEFINE next == handler[h].to
           new == [uploaded |-> next, status |-> IF next = Size THEN "UPLOADED"
                                                 ELSE handler[h].seen.status]
<1>1. /\ next \in 0 .. Size /\ next <= synced /\ row.uploaded <= next
      /\ new \in Rows
      /\ new.status = "UPLOADED" <=> new.uploaded = Size
  BY <1>0 DEF UpdateRow, SetsBack, Writing, Serving, Rows, Requests
<1>2. rows' = Append(rows, new) /\ UNCHANGED <<len, good, synced>> /\ End(h)
  BY DEF UpdateRow, file
<1>3. /\ Len(rows') = Len(rows) + 1 /\ Len(rows) \in Nat
      /\ \A i \in 1 .. Len(rows) : rows'[i] = rows[i]
      /\ rows'[Len(rows) + 1] = new /\ row' = new
  BY <1>1, <1>2 DEF UploadTypeOK, row
<1>4. Behind' /\ RowsGrow'
  <2>0. \A j \in 1 .. Len(rows) : rows[j] \in Rows /\ rows[j].uploaded <= row.uploaded
    BY <1>0, RowType DEF RowsGrow, row, UploadTypeOK
  <2>1. \A j \in 1 .. Len(rows) : rows[j].uploaded <= next
    <3> SUFFICES ASSUME NEW j \in 1 .. Len(rows) PROVE rows[j].uploaded <= next
      OBVIOUS
    <3> HIDE DEF next
    <3> QED BY <1>0, <1>1, <2>0 DEF Rows
  <2> SUFFICES ASSUME NEW i \in 1 .. Len(rows')
               PROVE  /\ rows'[i].uploaded <= synced
                      /\ rows'[i].status = "UPLOADED" <=> rows'[i].uploaded = Size
                      /\ \A j \in 1 .. Len(rows') : i <= j => rows'[i].uploaded <= rows'[j].uploaded
    BY <1>0, <1>1, <1>2, <1>3 DEF Behind, RowsGrow
  <2>2. CASE i \in 1 .. Len(rows)
    <3>1. \A j \in 1 .. Len(rows) : i <= j => rows'[i].uploaded <= rows'[j].uploaded
      BY <1>0, <1>3, <2>2 DEF RowsGrow
    <3>2. rows'[Len(rows) + 1].uploaded = next /\ rows'[i].uploaded <= next
      BY <1>2, <1>3, <2>1, <2>2
    <3>3. \A j \in 1 .. Len(rows') : j \in 1 .. Len(rows) \/ j = Len(rows) + 1
      BY <1>3
    <3>4. \A j \in 1 .. Len(rows') : i <= j => rows'[i].uploaded <= rows'[j].uploaded
      BY <3>1, <3>2, <3>3
    <3>5. /\ rows'[i].uploaded <= synced
          /\ rows'[i].status = "UPLOADED" <=> rows'[i].uploaded = Size
      BY <1>0, <1>3, <2>2 DEF Behind, RowsGrow
    <3> QED BY <3>4, <3>5
  <2>3. CASE i = Len(rows) + 1
    <3>1. rows'[i] = new
      BY <1>3, <2>3
    <3> QED BY <1>1, <1>3, <2>3, <3>1
  <2> QED BY <1>3, <2>2, <2>3
<1>5. Writing(h)'
  BY <1>2, EndKeeps, FreeKeeps
<1>6. \A g \in Handlers \ {h} : Writing(g)'
  <2> SUFFICES ASSUME NEW g \in Handlers \ {h} PROVE Writing(g)'
    OBVIOUS
  <2>1. handler'[g] = handler[g] /\ handler[g] \in Requests /\ Writing(g)
    BY <1>0, <1>2, EndKeeps
  <2>2. row'.uploaded = next
    BY <1>3
  <2> HIDE DEF next
  <2> QED BY <1>0, <1>1, <1>2, <2>1, <2>2 DEF Writing, Serving, Requests, Rows
<1> QED BY <1>4, <1>5, <1>6 DEF UploadSound

(* A client that goes leaves its handler; a power loss ends them all and   *)
(* takes back to an earlier row and to no less than what had been synced.  *)
LEMMA FailureSound ==
    ASSUME UploadTypeOK, UploadTypeOK', UploadSound, Break \/ PowerLoss
    PROVE  UploadSound'
<1> USE UploadAssumption
<1>0. Behind /\ RowsGrow /\ \A g \in Handlers : Writing(g)
  BY DEF UploadSound
<1>1. CASE Break
  BY <1>0, <1>1 DEF UploadSound, Break, file, Behind, RowsGrow, Writing, Serving, row
<1>2. CASE PowerLoss
  <2>1. PICK n \in synced .. len : len' = n /\ synced' = n /\ good' = good \cap Blocks(0, n)
    BY <1>2 DEF PowerLoss
  <2>2. PICK m \in 1 .. Len(rows) : rows' = SubSeq(rows, 1, m)
    BY <1>2 DEF PowerLoss
  <2>3. /\ Len(rows') = m /\ m \in Nat \ {0} /\ m <= Len(rows)
        /\ \A i \in 1 .. m : rows'[i] = rows[i]
    BY <2>2 DEF UploadTypeOK
  <2>4. Behind'
    <3>1. good' = Blocks(0, n)
      BY <1>0, <2>1, BlocksFacts DEF Behind, UploadTypeOK
    <3>2. \A i \in 1 .. m : rows[i].uploaded <= n
      <4> SUFFICES ASSUME NEW i \in 1 .. m PROVE rows[i].uploaded <= n
        OBVIOUS
      <4>1. i \in 1 .. Len(rows)
        BY <2>3
      <4>2. rows[i] \in Rows /\ rows[i].uploaded <= synced
        BY <1>0, <4>1 DEF Behind, UploadTypeOK
      <4>3. rows[i].uploaded \in Nat /\ synced \in Nat /\ n \in Nat /\ synced <= n
        BY <2>1, <4>2 DEF UploadTypeOK, Rows
      <4> QED BY <4>2, <4>3
    <3> QED BY <2>1, <2>3, <3>1, <3>2 DEF Behind
  <2>5. RowsGrow'
    BY <1>0, <2>3 DEF RowsGrow
  <2>6. \A g \in Handlers : Writing(g)'
    BY <1>2, FreeKeeps DEF PowerLoss, Free
  <2> QED BY <2>4, <2>5, <2>6 DEF UploadSound
<1> QED BY <1>1, <1>2

-----------------------------------------------------------------------------
(* The invariant of the upload, with handlers that outlive their clients:  *)
(* as long as none has overtaken another (PackOffset, appendChunk and the  *)
(* row of AppendPack), the file is ahead of the row, and whole.            *)
THEOREM UploadInvariant == UploadSpec => []UploadInv
<1>1. UploadInit => UploadInv
  <2> SUFFICES ASSUME UploadInit PROVE UploadInv
    OBVIOUS
  <2>1. Free \in Requests /\ Starting \in Clients /\ NoRow \in Rows
    BY UploadAssumption DEF Free, NoRow, Rows, Requests, Starting, Clients
  <2>2. rows \in Seq(Rows) /\ Len(rows) = 1 /\ rows[1] = NoRow /\ rows # <<>>
    BY <2>1 DEF UploadInit
  <2>3. Blocks(0, 0) = {}
    BY DEF Blocks
  <2>4. UploadTypeOK
    <3>1. overtaken \in BOOLEAN
      BY DEF UploadInit
    <3> QED BY UploadAssumption, <2>1, <2>2, <3>1 DEF UploadInit, UploadTypeOK
  <2>5. Behind /\ RowsGrow
    BY UploadAssumption, <2>2, <2>3 DEF UploadInit, Behind, RowsGrow, NoRow
  <2>6. \A h \in Handlers : Writing(h)
    BY DEF UploadInit, Writing, Serving, Free
  <2> QED BY <2>4, <2>5, <2>6 DEF UploadInv, UploadSound
<1>2. UploadInv /\ [UploadNext]_<<uvars, overtaken>> => UploadInv'
  <2> SUFFICES ASSUME UploadInv, [UploadNext]_<<uvars, overtaken>> PROVE UploadInv'
    OBVIOUS
  <2>1. CASE UNCHANGED <<uvars, overtaken>>
    <3>1. UploadTypeOK'
      BY <2>1 DEF uvars, file, bounds, UploadInv, UploadTypeOK
    <3>2. UploadSound => UploadSound'
      BY <2>1 DEF uvars, file, bounds, UploadSound, Behind, RowsGrow, Writing, Serving, row
    <3> QED BY <2>1, <3>1, <3>2 DEF UploadInv
  <2>2. CASE UploadNext
    <3>1. UploadTypeOK /\ overtaken' \in BOOLEAN /\ overtaken' = (overtaken \/ Overtakes)
      BY <2>2 DEF UploadInv, UploadTypeOK, UploadNext
    <3>2. UploadTypeOK'
      <4>1. ASSUME NEW h \in Handlers, AgentStep(h) \/ Drop(h) PROVE UploadTypeOK'
        BY <3>1, <4>1, HeadTypes, ChunkTypes DEF AgentStep
      <4> QED BY <2>2, <3>1, <4>1, ClientTypes, FailureTypes DEF UploadNext
    <3>3. ASSUME ~overtaken' PROVE UploadSound'
      <4>1. UploadSound /\ ~Overtakes
        BY <3>1, <3>3 DEF UploadInv
      <4>2. ASSUME NEW h \in Handlers, AgentStep(h) \/ Drop(h) PROVE UploadSound'
        <5>1. ~CutsShort(h) /\ ~SetsBack(h)
          BY <4>1 DEF Overtakes
        <5> QED BY <3>1, <3>2, <4>1, <4>2, <5>1, HeadSound, ChunkSound, RowSound DEF AgentStep
      <4> QED BY <2>2, <3>1, <3>2, <4>1, <4>2, ClientSound, FailureSound DEF UploadNext
    <3> QED BY <3>2, <3>3 DEF UploadInv
  <2> QED BY <2>1, <2>2
<1> QED BY <1>1, <1>2, PTL DEF UploadSpec

(* The row stays behind what the disk keeps (Sync before UpdateImportPack, *)
(* truncation only to the row), unless a request has overtaken another.    *)
THEOREM RowStaysBehind == UploadSpec => []RowBehindFile
<1>1. UploadInv => RowBehindFile
  BY DEF UploadInv, UploadSound, RowBehindFile
<1> QED BY <1>1, UploadInvariant, PTL

(* A pack that says UPLOADED is whole, unless a request has overtaken      *)
(* another.                                                                *)
THEOREM UploadedPacksAreWhole == UploadSpec => []UploadedIsWhole
<1>1. UploadInv => UploadedIsWhole
  <2> SUFFICES ASSUME UploadInv, row.status = "UPLOADED", ~overtaken
               PROVE  len = Size /\ good = Blocks(0, Size)
    BY DEF UploadedIsWhole
  <2>1. row.uploaded = Size /\ row.uploaded <= synced
    BY RowType DEF UploadInv, UploadSound, RowsGrow, Behind, row
  <2> QED BY <2>1, UploadAssumption DEF UploadInv, UploadSound, UploadTypeOK, Behind
<1> QED BY <1>1, UploadInvariant, PTL
=============================================================================
