------------------------------- MODULE Upload -------------------------------
(***************************************************************************)
(* The resumable upload of one pack of an import session: the client asks  *)
(* with HEAD how much the agent has, sends the rest in PATCH chunks, and   *)
(* starts over after an interruption; the agent keeps the bytes in a       *)
(* staging file and the offset and status in the row of import_packs.      *)
(*                                                                         *)
(* Bytes come in blocks.  A block of the staging file is good when it      *)
(* holds what the client's file has there; a hole is not.  SQLite runs     *)
(* with synchronous=NORMAL: a power loss may take back the last            *)
(* transactions, and with them what was written to files and not synced.   *)
(*                                                                         *)
(* Nothing ties a handler to its client: it may go on after the client has *)
(* given it up, beside the requests of the resumed upload.                 *)
(***************************************************************************)
EXTENDS Integers, Sequences

CONSTANTS
    Size,       \* expected_size of the pack, in blocks
    Chunk,      \* chunkSize of the client
    Handlers,   \* goroutines serving HEAD and PATCH
    MaxBreaks,  \* bound on the interrupted transfers
    MaxLosses,  \* bound on the power losses
    None

ASSUME UploadAssumption ==
    /\ Size \in Nat \ {0}   \* a pack has at least its header
    /\ Chunk \in Nat \ {0}
    /\ MaxBreaks \in Nat
    /\ MaxLosses \in Nat
    /\ None \notin Handlers

VARIABLES
    len,      \* the length of the staging file
    good,     \* its good blocks
    synced,   \* the length a power loss leaves
    rows,     \* the values the row has had, the last one is current
    handler,  \* the request each handler is serving
    client,   \* where the client is and which handler it waits for
    breaks, losses,
    overtaken \* history: whether a request has taken back what another
              \* one did (Overtakes below)

file == <<len, good, synced>>
bounds == <<breaks, losses>>
uvars == <<file, rows, handler, client, bounds>>

row == rows[Len(rows)]
Blocks(from, to) == from .. to - 1
NoRow == [uploaded |-> 0, status |-> "UPLOADING"]
Free == [pc |-> "free", seen |-> NoRow, from |-> 0, to |-> 0, pos |-> 0]
Starting == [pc |-> "start", offset |-> 0, waits |-> None]

Serving(h, pc) == handler[h].pc = pc
Step(h, pc) == handler' = [handler EXCEPT ![h].pc = pc]
End(h) == handler' = [handler EXCEPT ![h] = Free]

(* An answer reaches the client only if it still waits for it. *)
Answer(h, answer) == client' = IF client.waits = h THEN answer ELSE client
Refuse(h) == End(h) /\ Answer(h, Starting)

UploadInit ==
    /\ len = 0
    /\ good = {}
    /\ synced = 0
    /\ rows = <<NoRow>>
    /\ handler = [h \in Handlers |-> Free]
    /\ client = Starting
    /\ breaks = 0
    /\ losses = 0
    /\ overtaken = FALSE

-----------------------------------------------------------------------------
(* TransferBatchBundle asks for the status of the pack: an uploaded pack    *)
(* is not uploaded again.                                                  *)
Resume ==
    /\ client.pc = "start"
    /\ client' = [client EXCEPT !.pc = IF row.status = "UPLOADING" THEN "head" ELSE "done"]
    /\ UNCHANGED <<file, rows, handler, bounds>>

(* HEAD: the agent reads the row. *)
SendHead(h) ==
    /\ client.pc = "head"
    /\ Serving(h, "free")
    /\ handler' = [handler EXCEPT ![h] =
           [pc |-> "stat", seen |-> row, from |-> 0, to |-> 0, pos |-> 0]]
    /\ client' = [client EXCEPT !.pc = "wait", !.waits = h]
    /\ UNCHANGED <<file, rows, bounds>>

(* What the file has beyond the row is of an interrupted chunk. *)
KeepTail(seen) == len
CutTo(seen) == seen.uploaded

(* PackOffset compares the file with the row it has read: a file that is   *)
(* behind is an error, one that is ahead is truncated, in a second call.   *)
HeadAnswer(h) == [pc |-> "send", offset |-> handler[h].seen.uploaded, waits |-> None]

PackOffset(h) ==
    LET seen == handler[h].seen IN
    /\ Serving(h, "stat")
    /\ \/ len < seen.uploaded /\ Refuse(h)
       \/ len = seen.uploaded /\ End(h) /\ Answer(h, HeadAnswer(h))
       \/ len > seen.uploaded /\ Step(h, "cut") /\ UNCHANGED client
    /\ UNCHANGED <<file, rows, bounds>>

TruncateFile(h) ==
    LET to == CutTo(handler[h].seen) IN
    /\ Serving(h, "cut")
    /\ len' = to
    /\ good' = good \cap Blocks(0, to)
    /\ synced' = IF synced > to THEN to ELSE synced
    /\ End(h)
    /\ Answer(h, HeadAnswer(h))
    /\ UNCHANGED <<rows, bounds>>

(* PATCH of the next chunk: AppendPack reads the row and looks at its      *)
(* status.  With nothing left to send the client is done.                  *)
Uploadable(r) == r.status = "UPLOADING"
ChunkEnd(offset) == IF Size - offset < Chunk THEN Size ELSE offset + Chunk

SendPatch(h) ==
    /\ client.pc = "send"
    /\ client.offset < Size
    /\ Serving(h, "free")
    /\ IF Uploadable(row)
         THEN /\ handler' = [handler EXCEPT ![h] =
                    [pc |-> "open", seen |-> row, from |-> client.offset,
                     to |-> ChunkEnd(client.offset), pos |-> client.offset]]
              /\ client' = [client EXCEPT !.pc = "wait", !.waits = h]
         ELSE client' = Starting /\ UNCHANGED handler
    /\ UNCHANGED <<file, rows, bounds>>

Finish ==
    /\ client.pc = "send"
    /\ client.offset = Size
    /\ client' = [client EXCEPT !.pc = "done"]
    /\ UNCHANGED <<file, rows, handler, bounds>>

(* appendChunk: the offset must be the length of the file; the chunk is    *)
(* written behind it, synced, and then recorded.                           *)
OpenFile(h) ==
    /\ Serving(h, "open")
    /\ IF len = handler[h].from THEN Step(h, "write") /\ UNCHANGED client ELSE Refuse(h)
    /\ UNCHANGED <<file, rows, bounds>>

WriteBlock(h) ==
    LET pos == handler[h].pos IN
    /\ Serving(h, "write")
    /\ pos < handler[h].to
    /\ good' = good \cup {pos}
    /\ len' = IF len > pos THEN len ELSE pos + 1
    /\ handler' = [handler EXCEPT ![h].pos = pos + 1]
    /\ UNCHANGED <<synced, rows, client, bounds>>

NotFlushed == synced
Flushed == len

SyncFile(h) ==
    /\ Serving(h, "write")
    /\ handler[h].pos = handler[h].to
    /\ synced' = Flushed
    /\ Step(h, "row")
    /\ UNCHANGED <<len, good, rows, client, bounds>>

(* UpdateImportPack writes the row back as it was read, with the new       *)
(* offset and, at the declared size, the new status.                       *)
UpdateRow(h) ==
    LET next == handler[h].to IN
    /\ Serving(h, "row")
    /\ rows' = Append(rows, [uploaded |-> next,
                             status |-> IF next = Size THEN "UPLOADED"
                                                       ELSE handler[h].seen.status])
    /\ End(h)
    /\ Answer(h, [pc |-> "send", offset |-> next, waits |-> None])
    /\ UNCHANGED <<file, bounds>>

-----------------------------------------------------------------------------
(* The client is paused, or the connection or the agent fails: the client  *)
(* no longer waits.                                                        *)
Break ==
    /\ breaks < MaxBreaks
    /\ client.pc \notin {"start", "done"}
    /\ client' = Starting
    /\ breaks' = breaks + 1
    /\ UNCHANGED <<file, rows, handler, losses>>

(* A handler no client waits for ends where it is, when its context is     *)
(* cancelled, its body is cut off or the agent is restarted; until then it *)
(* goes on.                                                                *)
Drop(h) ==
    /\ ~Serving(h, "free")
    /\ client.waits # h
    /\ End(h)
    /\ UNCHANGED <<file, rows, client, bounds>>

(* The agent's host loses power: unsynced blocks and the last transactions *)
(* are gone.  (The row of the registration is taken to stay: without it    *)
(* the client would register again.)                                       *)
PowerLoss ==
    /\ losses < MaxLosses
    /\ \E n \in synced .. len :
         len' = n /\ synced' = n /\ good' = good \cap Blocks(0, n)
    /\ \E n \in 1 .. Len(rows) : rows' = SubSeq(rows, 1, n)
    /\ handler' = [h \in Handlers |-> Free]
    /\ client' = Starting
    /\ losses' = losses + 1
    /\ UNCHANGED breaks

ClientStep ==
    \/ Resume
    \/ \E h \in Handlers : SendHead(h) \/ SendPatch(h)
    \/ Finish

AgentStep(h) ==
    \/ PackOffset(h)
    \/ TruncateFile(h)
    \/ OpenFile(h)
    \/ WriteBlock(h)
    \/ SyncFile(h)
    \/ UpdateRow(h)

(* What requests that overtake each other take back: a HEAD truncates to   *)
(* less than the row says by now or than a PATCH has written behind it,    *)
(* and a PATCH writes back a row that has moved on.                        *)
Written(h) == handler[h].pc \in {"write", "row"}
CutsShort(h) ==
    LET to == handler[h].seen.uploaded IN
    /\ TruncateFile(h)
    /\ to < row.uploaded \/ \E g \in Handlers : Written(g) /\ to < handler[g].pos
SetsBack(h) == UpdateRow(h) /\ handler[h].to < row.uploaded
Overtakes == \E h \in Handlers : CutsShort(h) \/ SetsBack(h)

UploadNext ==
    /\ \/ ClientStep
       \/ \E h \in Handlers : AgentStep(h) \/ Drop(h)
       \/ Break
       \/ PowerLoss
    /\ overtaken' = (overtaken \/ Overtakes)

(* The client takes its next step, after a failure too, and a handler that *)
(* is not ended goes on.                                                   *)
UploadSpec ==
    /\ UploadInit /\ [][UploadNext]_<<uvars, overtaken>>
    /\ WF_uvars(ClientStep) /\ \A h \in Handlers : WF_uvars(AgentStep(h))
-----------------------------------------------------------------------------
Rows == [uploaded : 0 .. Size, status : {"UPLOADING", "UPLOADED"}]

Requests == [pc : {"free", "stat", "cut", "open", "write", "row"}, seen : Rows,
             from : 0 .. Size, to : 0 .. Size, pos : 0 .. Size]
Clients == [pc : {"start", "head", "wait", "send", "done"}, offset : 0 .. Size,
            waits : Handlers \cup {None}]

(* The type invariant of the upload. *)
UploadTypeOK ==
    /\ len \in 0 .. Size
    /\ good \subseteq Blocks(0, Size)
    /\ synced \in 0 .. Size
    /\ rows \in Seq(Rows) /\ rows # <<>>
    /\ handler \in [Handlers -> Requests]
    /\ client \in Clients
    /\ breaks \in 0 .. MaxBreaks
    /\ losses \in 0 .. MaxLosses
    /\ overtaken \in BOOLEAN

(* As long as no request has overtaken another, the row never promises     *)
(* what the disk may lose: whichever transactions and unsynced blocks a    *)
(* power loss takes, the offset that is left is within the file that is    *)
(* left, without holes (Sync before UpdateImportPack, truncation only to   *)
(* the row).                                                               *)
Behind ==
    /\ \A i \in 1 .. Len(rows) : rows[i].uploaded <= synced
    /\ synced <= len
    /\ good = Blocks(0, len)
RowBehindFile == overtaken \/ Behind

(* A pack that says UPLOADED is whole on disk, and stays so until it is    *)
(* committed, unless a request has overtaken another: the integrity check  *)
(* of CommitPack passes.                                                   *)
UploadedIsWhole ==
    \/ overtaken
    \/ row.status = "UPLOADED" => len = Size /\ good = Blocks(0, Size)

(* What both rest on: the offsets only grow; a handler has read a row that *)
(* was current then, writes at the end of the file or over the same blocks *)
(* again, and has synced what it is about to record.                       *)
RowsGrow ==
    /\ \A i, j \in 1 .. Len(rows) : i <= j => rows[i].uploaded <= rows[j].uploaded
    /\ \A i \in 1 .. Len(rows) : rows[i].status = "UPLOADED" <=> rows[i].uploaded = Size
Writing(h) ==
    /\ ~Serving(h, "free") => handler[h].seen.uploaded <= row.uploaded
    /\ handler[h].pc \in {"open", "write", "row"} =>
         /\ handler[h].seen.status = "UPLOADING"
         /\ handler[h].pos <= handler[h].to
    /\ Serving(h, "open") => handler[h].pos = handler[h].from
    /\ Serving(h, "write") => handler[h].pos <= len
    /\ Serving(h, "row") => handler[h].pos = handler[h].to /\ handler[h].to <= synced
UploadSound == Behind /\ RowsGrow /\ \A h \in Handlers : Writing(h)
UploadInv == UploadTypeOK /\ (overtaken \/ UploadSound)

(* A resumed upload ends: the pack is UPLOADED for good, wherever the      *)
(* transfer was cut (HTTP Range / resumable upload), unless a request has  *)
(* overtaken another.                                                      *)
UploadEnds == <>[](row.status = "UPLOADED" \/ overtaken)
=============================================================================
