----------------------------- MODULE FileCopy -----------------------------
(***************************************************************************)
(* One CopyIn or CopyOut call: the runner's client, the gRPC stream, the   *)
(* handler, CopyIn's reader goroutine and its pipe, the exec's stdin or    *)
(* stdout, and tar in the main container.                                  *)
(*                                                                         *)
(* An archive is a number of units.  CopyIn sends one unit a chunk; tar    *)
(* needs the units up to the end mark and may stop there.  CopyOut's       *)
(* ChunkWriter cuts tar's output into chunks of ChunkSize units.           *)
(***************************************************************************)
EXTENDS Integers, Sequences

CONSTANTS
    MaxArchive,   \* bound: units of an archive
    MaxWrite,     \* bound: units tar writes at once
    ChunkSize,    \* tarx.DefaultChunkSize
    Window        \* messages a gRPC stream holds before Send blocks

ASSUME CopyAssumption ==
    /\ MaxArchive \in Nat /\ MaxWrite \in Nat
    /\ ChunkSize \in Nat \ {0} /\ Window \in Nat \ {0}

VARIABLES
    way,         \* "in", "out" or, before a call, "idle"
    archive,     \* units of the archive
    mark,        \* CopyIn: the unit that holds the end mark
    badChunk,    \* CopyIn: the chunk that wrongly names a path again, or 0
    client, fillErr, sent, received,
    cancelled,   \* the call's context is done
    halfClosed,  \* the client's side of the stream is closed
    handler, ended, protoErr, answer,
    reader,      \* CopyIn's goroutine
    taken,       \* chunks the handler received
    pipe,        \* the write end of io.Pipe: "open", "eof" or "failed"
    stdin,       \* units passed on to the exec's stdin
    stdinOpen,
    tar, moved,  \* tar, and the units it extracted or produced
    unwritten,   \* CopyOut: units of the Write under way not yet in buf
    buf,         \* CopyOut: units in ChunkWriter.buf
    wire         \* CopyOut: sizes of the chunks in flight

fixedVars   == <<way, archive, mark, badChunk>>
clientVars  == <<client, fillErr, sent, halfClosed>>
handlerVars == <<handler, ended, protoErr, answer>>
readerVars  == <<reader, taken, pipe>>
podVars     == <<stdin, stdinOpen, tar, moved>>
outVars     == <<unwritten, buf, wire, received>>
copyVars == <<fixedVars, clientVars, cancelled, handlerVars, readerVars, podVars, outVars>>

\* What most steps leave alone: the sizes and CopyOut's part, or CopyIn's part.
inFrame  == UNCHANGED <<fixedVars, outVars>>
outFrame == UNCHANGED <<fixedVars, fillErr, sent, halfClosed, protoErr, readerVars, stdin, stdinOpen>>

CopyStart ==
    /\ fillErr = FALSE /\ sent = 0 /\ received = 0 /\ cancelled = FALSE /\ halfClosed = FALSE
    /\ ended = "none" /\ protoErr = FALSE /\ answer = "none"
    /\ reader = "none" /\ taken = 0 /\ pipe = "open" /\ stdin = 0 /\ stdinOpen = TRUE
    /\ tar = "none" /\ moved = 0 /\ unwritten = 0 /\ buf = 0 /\ wire = <<>>

CopyInInit ==
    /\ way = "in" /\ archive \in 1 .. MaxArchive /\ mark \in 1 .. archive
    /\ badChunk \in {0} \cup 2 .. archive
    /\ client = "sending" /\ handler = "first" /\ CopyStart

CopyOutInit ==
    /\ way = "out" /\ archive \in 0 .. MaxArchive /\ mark = 0 /\ badChunk = 0
    /\ client = "receiving" /\ handler = "first" /\ CopyStart

---------------------------------------------------------------------------
(* CopyIn: the runner's copyIn and the handler.                            *)

\* stream.Send while there is room in the stream.
SendChunk ==
    /\ client = "sending" /\ sent < archive /\ sent - taken < Window
    /\ sent' = sent + 1
    /\ UNCHANGED <<client, fillErr, halfClosed, cancelled, handlerVars, readerVars, podVars>> /\ inFrame

\* The archive is complete, or Send returned EOF because the handler has
\* answered: CloseAndReceive.
HalfClose ==
    /\ client = "sending" /\ (sent = archive \/ answer # "none")
    /\ client' = "waiting" /\ halfClosed' = TRUE
    /\ UNCHANGED <<fillErr, sent, cancelled, handlerVars, readerVars, podVars>> /\ inFrame

\* The runner cannot read one of its files: cancel, then CloseAndReceive.
FillFails ==
    /\ client = "sending" /\ sent < archive
    /\ client' = "waiting" /\ fillErr' = TRUE /\ cancelled' = TRUE
    /\ UNCHANGED <<sent, halfClosed, handlerVars, readerVars, podVars>> /\ inFrame

\* What the runner makes of the answer; a cancelled call has none.
CopyInReturns ==
    /\ way = "in" /\ client = "waiting" /\ (answer # "none" \/ cancelled)
    /\ client' = IF answer = "ok" /\ ~cancelled /\ ~fillErr THEN "ok" ELSE "err"
    /\ UNCHANGED <<cancelled, handler, ended, answer, tar, moved, outVars>> /\ outFrame

\* No first chunk, one without a path, or an environment that is gone or not
\* started is an error; else the chunk's data is the pipe's first write.
FirstChunk ==
    /\ way = "in" /\ handler = "first"
    /\ \/ /\ cancelled \/ taken < sent
          /\ handler' = "done" /\ answer' = "err" /\ UNCHANGED <<taken, reader>>
       \/ /\ taken < sent
          /\ taken' = taken + 1 /\ handler' = "exec" /\ reader' = "write"
          /\ UNCHANGED answer
    /\ UNCHANGED <<clientVars, cancelled, ended, protoErr, pipe, podVars>> /\ inFrame

\* Seeded fault: pr is not closed when the exec has ended.
PipeReaderGoneNever == FALSE
PipeReaderGone == handler = "joining"

\* pw.Write returns: the exec took the data, or nobody will.
PipeWrite ==
    /\ reader = "write"
    /\ \/ /\ handler = "exec" /\ stdinOpen
          /\ stdin' = stdin + 1 /\ reader' = "recv"
       \/ /\ PipeReaderGone
          /\ reader' = "drain" /\ UNCHANGED stdin
    /\ UNCHANGED <<clientVars, cancelled, handlerVars, taken, pipe, stdinOpen, tar, moved>> /\ inFrame

\* stream.Recv in the goroutine's loop and what it does with the chunk.
ReaderRecv ==
    /\ reader = "recv"
    /\ \/ /\ taken < sent /\ taken + 1 # badChunk
          /\ taken' = taken + 1 /\ reader' = "write"
          /\ UNCHANGED <<pipe, protoErr>>
       \/ /\ taken < sent /\ taken + 1 = badChunk
          /\ taken' = taken + 1 /\ protoErr' = TRUE /\ pipe' = "failed" /\ reader' = "drain"
       \/ /\ taken = sent /\ halfClosed
          /\ pipe' = "eof" /\ reader' = "done" /\ UNCHANGED <<taken, protoErr>>
       \/ /\ cancelled
          /\ pipe' = "failed" /\ reader' = "done" /\ UNCHANGED <<taken, protoErr>>
    /\ UNCHANGED <<clientVars, cancelled, handler, ended, answer, podVars>> /\ inFrame

\* drain: Recv until it fails.
DrainStream ==
    /\ reader = "drain"
    /\ \/ taken < sent /\ taken' = taken + 1 /\ UNCHANGED reader
       \/ (cancelled \/ (taken = sent /\ halfClosed)) /\ reader' = "done" /\ UNCHANGED taken
    /\ UNCHANGED <<clientVars, cancelled, handlerVars, pipe, podVars>> /\ inFrame

\* client-go copies the pipe to the exec's stdin and closes that when the pipe
\* ends, in error or not.
StdinEnds ==
    /\ handler = "exec" /\ stdinOpen /\ pipe # "open"
    /\ stdinOpen' = FALSE
    /\ UNCHANGED <<clientVars, cancelled, handlerVars, readerVars, stdin, tar, moved>> /\ inFrame

\* tar -x: it is done at the end mark, and may or may not mind an archive that
\* ends before its mark.
Extract ==
    /\ way = "in" /\ handler = "exec"
    /\ \/ tar = "none" /\ tar' \in {"running", "exit127"} /\ UNCHANGED moved
       \/ tar = "running" /\ moved < stdin /\ moved < mark
          /\ moved' = moved + 1 /\ UNCHANGED tar
       \/ tar = "running" /\ moved = mark /\ tar' = "exit0" /\ UNCHANGED moved
       \/ tar = "running" /\ moved = stdin /\ ~stdinOpen /\ tar' \in {"exit0", "exit2"}
          /\ UNCHANGED moved
    /\ UNCHANGED <<client, cancelled, handler, ended, answer, outVars>> /\ outFrame

\* backend.Exec returns, after which the handler closes pr and waits for the
\* goroutine.
CopyInExecEnds ==
    /\ way = "in" /\ handler = "exec"
    /\ \/ tar \in {"exit0", "exit2", "exit127"} /\ ended' = tar
       \/ ended' = "err"
    /\ handler' = "joining"
    /\ UNCHANGED <<client, cancelled, answer, tar, moved, outVars>> /\ outFrame

\* Seeded fault: tar's exit status is looked at first.
CopyInVerdictByTar == IF ended = "exit0" THEN "ok" ELSE "err"
CopyInVerdict == IF ~protoErr /\ ended = "exit0" THEN "ok" ELSE "err"

CopyInAnswer ==
    /\ handler = "joining" /\ reader = "done"
    /\ answer' = CopyInVerdict /\ handler' = "done"
    /\ UNCHANGED <<client, cancelled, ended, tar, moved, outVars>> /\ outFrame

\* tar fails on its own account (a full disk, a file it may not write or read).
TarFails ==
    /\ tar = "running" /\ handler = "exec"
    /\ tar' = "exit2"
    /\ UNCHANGED <<client, cancelled, handler, ended, answer, moved, outVars>> /\ outFrame

---------------------------------------------------------------------------
(* CopyOut: the handler with its ChunkWriter, and the runner's             *)
(* archiveReader.                                                          *)

\* An environment that is gone or not started, or a path that is not absolute,
\* is an error.
OpenArchive ==
    /\ way = "out" /\ handler = "first"
    /\ \/ handler' = "exec" /\ UNCHANGED answer
       \/ handler' = "done" /\ answer' = "err"
    /\ UNCHANGED <<client, cancelled, ended, tar, moved, outVars>> /\ outFrame

\* tar -c writes, and client-go hands what it wrote to ChunkWriter.Write.
Produce ==
    /\ way = "out" /\ handler = "exec" /\ unwritten = 0
    /\ \/ tar = "none" /\ tar' \in {"running", "exit127"} /\ UNCHANGED <<moved, unwritten>>
       \/ tar = "running" /\ \E n \in 1 .. MaxWrite :
            /\ moved + n <= archive
            /\ moved' = moved + n /\ unwritten' = n /\ UNCHANGED tar
       \/ tar = "running" /\ moved = archive /\ tar' = "exit0" /\ UNCHANGED <<moved, unwritten>>
    /\ UNCHANGED <<client, cancelled, handler, ended, answer, buf, wire, received>> /\ outFrame

Room == Len(wire) < Window

\* One turn of ChunkWriter.Write's loop; a full buffer is flushed.
ChunkWrite ==
    /\ handler = "exec" /\ unwritten > 0 /\ (Room \/ cancelled)
    /\ LET k == IF ChunkSize - buf < unwritten THEN ChunkSize - buf ELSE unwritten IN
       /\ unwritten' = unwritten - k
       /\ IF buf + k = ChunkSize
          THEN buf' = 0 /\ wire' = IF cancelled THEN wire ELSE Append(wire, ChunkSize)
          ELSE buf' = buf + k /\ UNCHANGED wire
    /\ UNCHANGED <<client, cancelled, handler, ended, answer, tar, moved, received>> /\ outFrame

\* The exec ended with everything tar wrote in ChunkWriter, or broke.
CopyOutExecEnds ==
    /\ way = "out" /\ handler = "exec"
    /\ \/ tar \in {"exit0", "exit2", "exit127"} /\ unwritten = 0 /\ ended' = tar
       \/ ended' = "err"
    /\ handler' = "joining" /\ unwritten' = 0
    /\ UNCHANGED <<client, cancelled, answer, tar, moved, buf, wire, received>> /\ outFrame

\* Flush of what is left.  Seeded fault: it is forgotten.
LeftoverNone == <<>>
Leftover == IF buf = 0 THEN <<>> ELSE <<buf>>

\* An error, or Flush and its error.
CopyOutAnswer ==
    /\ way = "out" /\ handler = "joining"
    /\ \/ /\ ended = "exit0" /\ ~cancelled /\ Room
          /\ wire' = wire \o Leftover /\ answer' = "ok"
       \/ /\ ended # "exit0" \/ cancelled
          /\ answer' = "err" /\ UNCHANGED wire
    /\ handler' = "done" /\ buf' = 0
    /\ UNCHANGED <<client, cancelled, ended, tar, moved, unwritten, received>> /\ outFrame

\* archiveReader: the chunks in order, then the status.  GetContainerArchive
\* takes an archive without a first chunk for an error.
ReceiveChunk ==
    /\ way = "out" /\ client = "receiving" /\ ~cancelled
    /\ \/ /\ wire # <<>>
          /\ received' = received + Head(wire) /\ wire' = Tail(wire) /\ UNCHANGED client
       \/ /\ wire = <<>> /\ answer # "none"
          /\ client' = IF answer = "ok" /\ received > 0 THEN "ok" ELSE "err"
          /\ UNCHANGED <<received, wire>>
    /\ UNCHANGED <<cancelled, handler, ended, answer, tar, moved, unwritten, buf>> /\ outFrame

\* Close, or the job is cancelled.
CancelCopy ==
    /\ client \in {"sending", "waiting", "receiving"} /\ ~cancelled
    /\ cancelled' = TRUE
    /\ client' = IF client = "receiving" THEN "err" ELSE "waiting"
    /\ UNCHANGED <<handler, ended, answer, tar, moved, outVars>> /\ outFrame

---------------------------------------------------------------------------

CopyClient == SendChunk \/ HalfClose \/ CopyInReturns \/ ReceiveChunk
CopyReader == PipeWrite \/ ReaderRecv \/ DrainStream
CopyHandler == FirstChunk \/ CopyInAnswer \/ OpenArchive \/ ChunkWrite \/ CopyOutAnswer
CopyExec == CopyInExecEnds \/ CopyOutExecEnds

CopyNext == CopyClient \/ FillFails \/ CancelCopy \/ CopyReader \/ CopyHandler \/ StdinEnds
            \/ Extract \/ Produce \/ TarFails \/ CopyExec

CopyInit == CopyInInit \/ CopyOutInit
CopySpec == CopyInit /\ [][CopyNext]_copyVars

\* The client, the handler, the goroutine, client-go and tar run; client-go
\* returns when the remote command has exited or the context is done.
CopyFairness ==
    /\ WF_copyVars(CopyClient) /\ WF_copyVars(CopyReader) /\ WF_copyVars(CopyHandler)
    /\ WF_copyVars(StdinEnds) /\ WF_copyVars(Extract \/ Produce)
    /\ WF_copyVars((cancelled \/ tar \in {"exit0", "exit2", "exit127"}) /\ CopyExec)

\* The variables keep their types.
FlagType == /\ fillErr \in BOOLEAN /\ cancelled \in BOOLEAN /\ halfClosed \in BOOLEAN
            /\ protoErr \in BOOLEAN /\ stdinOpen \in BOOLEAN
ControlType ==
    /\ way \in {"idle", "in", "out"}
    /\ client \in {"none", "sending", "waiting", "receiving", "ok", "err"}
    /\ handler \in {"none", "first", "exec", "joining", "done"}
    /\ ended \in {"none", "err", "exit0", "exit2", "exit127"}
    /\ answer \in {"none", "ok", "err"}
    /\ reader \in {"none", "write", "recv", "drain", "done"}
    /\ pipe \in {"open", "eof", "failed"}
    /\ tar \in {"none", "running", "exit0", "exit2", "exit127"}
CountType ==
    /\ archive \in 0 .. MaxArchive /\ mark \in 0 .. archive /\ badChunk \in 0 .. archive
    /\ sent \in 0 .. archive /\ taken \in 0 .. sent /\ stdin \in 0 .. taken /\ moved \in 0 .. archive
    /\ unwritten \in 0 .. MaxWrite /\ buf \in 0 .. ChunkSize - 1 /\ received \in 0 .. archive
    /\ wire \in Seq(1 .. ChunkSize) /\ Len(wire) <= Window
CopyTypeOK == FlagType /\ ControlType /\ CountType

\* When the runner's copyIn reports success, tar extracted the archive up to its
\* end mark, however the client, the goroutine, the pipe, a chunk that broke the
\* protocol and a tar that takes a cut archive for a whole one were interleaved.
CopiedWhole ==
    way = "in" /\ client = "ok" => moved = mark

\* The runner reads a prefix of what tar wrote, and an archive whose end it sees
\* without an error is everything tar wrote.
OutWhole ==
    /\ way = "out" => received <= moved
    /\ way = "out" /\ client = "ok" => received = archive

\* Neither the runner nor the handler waits for ever on the other: a copy ends
\* on both sides, also when tar stops reading, a chunk is refused or the runner
\* gives up.
CopyEnds == way # "idle" ~> client \in {"ok", "err"} /\ handler = "done"

===========================================================================
