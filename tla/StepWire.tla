----------------------------- MODULE StepWire -----------------------------
(***************************************************************************)
(* What the plugin and the step helper say to each other (package stepio): *)
(* the bytes of the step log with their Decoder, and the command line that *)
(* carries a step to `run`, from there to the supervisor, and into the     *)
(* command's arguments and environment.                                    *)
(*                                                                         *)
(* A byte is one of 0 .. Base - 1 and a number takes two bytes, so that    *)
(* int32 and its sign, MaxPayload and a header split over two chunks are   *)
(* all within reach.                                                       *)
(***************************************************************************)
EXTENDS Integers, Sequences, FiniteSets, SequencesExt

CONSTANTS
    Base,         \* values of a byte (256)
    MaxPayload,   \* stepio.MaxPayload
    Logs,         \* step logs to decode: sequences of frames
    Calls         \* steps to pass on: records env, base, cmd

Byte == 0 .. Base - 1

VARIABLES
    log, fed,           \* the log's frames; bytes of it written to the Decoder
    pending, delivered, exitCode, corrupt,   \* the Decoder
    settled,            \* Write's loop is over
    hop, call, argv     \* how far the step's command line has come

wireVars == <<log, fed, pending, delivered, exitCode, corrupt, settled, hop, call, argv>>

KindStdout == 1
KindStderr == 2
KindExit   == 3
WordLen    == 2
headerLen  == 1 + WordLen
NoExit     == Base * Base

\* A log is made of frames of any kind with a payload, of a length a header can
\* hold, and of exit records; an exit record has a payload of one number.
Frames ==
    {f \in [kind : Byte, payload : Seq(Byte)] :
        Len(f.payload) < Base * Base /\ (f.kind = KindExit => Len(f.payload) # WordLen)}
    \cup [kind : {KindExit}, code : - ((Base * Base) \div 2) .. (Base * Base) \div 2 - 1]
IsExit(f) == "code" \in DOMAIN f

\* A word of a command line or environment is what strings.Cut makes of it at "=".
Words == [key : STRING, eq : BOOLEAN, val : STRING]

ASSUME WireAssumption ==
    /\ Base \in Nat /\ Base > 3 /\ Base % 2 = 0
    /\ MaxPayload \in WordLen .. Base * Base - 1
    /\ Logs \subseteq Seq(Frames)
    /\ \A c \in Calls : IsFiniteSet(DOMAIN c.env) /\ c.base \in Seq(Words) /\ c.cmd \in Seq(Words)

---------------------------------------------------------------------------
(* Frames.                                                                 *)

PutUint(n) == <<n \div Base, n % Base>>
Uint(b) == b[1] * Base + b[2]

\* int(int32(u)).  Seeded fault: the sign is lost.
Unsigned(u) == u
Int32(u) == IF u >= (Base * Base) \div 2 THEN u - Base * Base ELSE u

AppendFrame(dst, kind, payload) == dst \o <<kind>> \o PutUint(Len(payload)) \o payload

\* uint32(int32(code)).
ExitFrame(code) == AppendFrame(<<>>, KindExit, PutUint(code % (Base * Base)))

FrameBytes(f) == IF IsExit(f) THEN ExitFrame(f.code) ELSE AppendFrame(<<>>, f.kind, f.payload)
Bytes(l) == FlattenSeq([i \in DOMAIN l |-> FrameBytes(l[i])])

---------------------------------------------------------------------------
(* Decoder.Write.                                                          *)

\* Another chunk arrives, of any size.
Feed ==
    /\ settled /\ ~corrupt
    /\ \E n \in 1 .. Len(Bytes(log)) - fed :
         /\ pending' = pending \o SubSeq(Bytes(log), fed + 1, fed + n)
         /\ fed' = fed + n
    /\ settled' = FALSE
    /\ UNCHANGED <<log, delivered, exitCode, corrupt, hop, call, argv>>

\* The switch on a header.
BadHeader(kind, n) ==
    \/ n > MaxPayload
    \/ kind = KindExit /\ n # WordLen
    \/ kind \notin {KindStdout, KindStderr, KindExit}

\* The whole frame is there.  Seeded fault: its last byte is not waited for.
ShortByOne(n) == Len(pending) >= headerLen + n - 1
Whole(n) == Len(pending) >= headerLen + n

\* One turn of the loop.
DecodeFrame ==
    /\ ~settled
    /\ LET kind == pending[1]
           n    == Uint(SubSeq(pending, 2, headerLen))
           payload == SubSeq(pending, headerLen + 1, headerLen + n)
       IN \/ /\ Len(pending) < headerLen
             /\ settled' = TRUE
             /\ UNCHANGED <<pending, delivered, exitCode, corrupt>>
          \/ /\ Len(pending) >= headerLen /\ (exitCode # NoExit \/ BadHeader(kind, n))
             /\ corrupt' = TRUE /\ settled' = TRUE
             /\ UNCHANGED <<pending, delivered, exitCode>>
          \/ /\ Len(pending) >= headerLen /\ exitCode = NoExit /\ ~BadHeader(kind, n)
             /\ IF Whole(n)
                THEN /\ pending' = SubSeq(pending, headerLen + n + 1, Len(pending))
                     /\ delivered' = IF kind = KindExit THEN delivered
                                     ELSE Append(delivered, [kind |-> kind, payload |-> payload])
                     /\ exitCode' = IF kind = KindExit THEN Int32(Uint(payload)) ELSE exitCode
                     /\ UNCHANGED settled
                ELSE settled' = TRUE /\ UNCHANGED <<pending, delivered, exitCode>>
             /\ UNCHANGED corrupt
    /\ UNCHANGED <<log, fed, hop, call, argv>>

---------------------------------------------------------------------------
(* The command line.                                                       *)

Word(k) == [key |-> k, eq |-> FALSE, val |-> ""]
Assignment(k, v) == [key |-> k, eq |-> TRUE, val |-> v]
DashDash == Word("--")

\* Names env(1) would misread are dropped.
validName(k) == k \notin {"", "A=B"}

EnvArgs(env) ==
    LET names == {k \in DOMAIN env : validName(k)} IN
    [i \in 1 .. Cardinality(names) |-> LET k == SetToSeq(names)[i] IN Assignment(k, env[k])]

\* RunArgv, without the helper and the three paths.
RunArgv(env, cmd) == EnvArgs(env) \o <<DashDash>> \o cmd

\* Seeded fault: the last "--" ends the assignments.
LastDash(args) == CHOOSE i \in DOMAIN args :
    args[i] = DashDash /\ \A n \in DOMAIN args : args[n] = DashDash => n <= i
FirstDash(args) == CHOOSE i \in DOMAIN args :
    args[i] = DashDash /\ \A n \in DOMAIN args : args[n] = DashDash => n >= i

ParseOk(args) ==
    /\ \E i \in DOMAIN args : args[i] = DashDash
    /\ FirstDash(args) < Len(args)
    /\ \A i \in 1 .. FirstDash(args) - 1 : args[i].eq /\ validName(args[i].key)

ParseRun(args) ==
    [env |-> SubSeq(args, 1, FirstDash(args) - 1), cmd |-> SubSeq(args, FirstDash(args) + 1, Len(args))]

\* mergeEnv's loop: a word whose name is in out already (idx) takes that place,
\* another is added at the end.
mergeWord(out, kv) ==
    IF \E i \in DOMAIN out : out[i].key = kv.key
    THEN [i \in DOMAIN out |-> IF out[i].key = kv.key THEN kv ELSE out[i]]
    ELSE Append(out, kv)
mergeEnv(base, over) ==
    LET all == base \o over
        out[n \in 0 .. Len(all)] == IF n = 0 THEN <<>> ELSE mergeWord(out[n - 1], all[n])
    IN  out[Len(all)]

\* Exec sends the step; a step without a command is refused.
SendStep ==
    /\ hop = "exec"
    /\ IF call.cmd = <<>> THEN hop' = "refused" /\ UNCHANGED argv
       ELSE hop' = "run" /\ argv' = RunArgv(call.env, call.cmd)
    /\ UNCHANGED <<log, fed, pending, delivered, exitCode, corrupt, settled, call>>

\* Main parses the command line for `run`, which hands its words over a pipe to
\* the supervisor, which parses them once more.  Words of a command line hold no
\* NUL, so joining and splitting them there changes nothing.
ParseStep ==
    /\ hop \in {"run", "supervise"}
    /\ hop' = IF ~ParseOk(argv) THEN "usage" ELSE IF hop = "run" THEN "supervise" ELSE "start"
    /\ argv' = IF ParseOk(argv) /\ hop = "supervise" THEN <<>> ELSE argv
    /\ call' = IF ParseOk(argv) /\ hop = "supervise"
               THEN [call EXCEPT !.gotCmd = ParseRun(argv).cmd,
                                 !.gotEnv = mergeEnv(call.base, ParseRun(argv).env)]
               ELSE call
    /\ UNCHANGED <<log, fed, pending, delivered, exitCode, corrupt, settled>>

---------------------------------------------------------------------------

NoCall == [env |-> <<>>, base |-> <<>>, cmd |-> <<>>, gotCmd |-> <<>>, gotEnv |-> <<>>]

DecoderStart == fed = 0 /\ pending = <<>> /\ delivered = <<>> /\ exitCode = NoExit
                /\ corrupt = FALSE /\ settled = TRUE

DecodeInit == log \in Logs /\ DecoderStart /\ hop = "off" /\ call = NoCall /\ argv = <<>>

CallInit == \E c \in Calls :
    /\ log = <<>> /\ DecoderStart /\ hop = "exec" /\ argv = <<>>
    /\ call = [env |-> c.env, base |-> c.base, cmd |-> c.cmd, gotCmd |-> <<>>, gotEnv |-> <<>>]

WireInit == DecodeInit \/ CallInit

WireNext == Feed \/ DecodeFrame \/ SendStep \/ ParseStep

WireSpec == WireInit /\ [][WireNext]_wireVars

WireTypeOK ==
    /\ fed \in 0 .. Len(Bytes(log)) /\ pending \in Seq(Byte)
    /\ corrupt \in BOOLEAN /\ settled \in BOOLEAN
    /\ hop \in {"off", "exec", "refused", "run", "supervise", "start", "usage"}

\* A frame the helper may write; whether the first n of the log's frames are ones
\* it may write, none after one that ends the log; whether they have arrived.
Sound(f) == IsExit(f) \/ (f.kind \in {KindStdout, KindStderr} /\ Len(f.payload) <= MaxPayload)
SoundUpTo(n) == \A i \in 1 .. n : Sound(log[i]) /\ (i < n => ~IsExit(log[i]))
WithinFed(n) == Len(Bytes(SubSeq(log, 1, n))) <= fed

\* However the log is cut into chunks, between two Writes the Decoder has passed
\* on exactly the frames that have wholly arrived, in order, and the exit code,
\* negative ones too, exactly when its record has; a log no helper writes is
\* never taken for more than its sound beginning.
DecodesPrefix ==
    settled =>
        LET n == Max({i \in 0 .. Len(log) : SoundUpTo(i) /\ WithinFed(i)})
            ended == n > 0 /\ IsExit(log[n])
        IN  /\ delivered = SubSeq(log, 1, IF ended THEN n - 1 ELSE n)
            /\ exitCode = IF ended THEN log[n].code ELSE NoExit
            /\ corrupt => ~SoundUpTo(Len(log))

\* The command starts with the arguments the runner sent, "--" and NAME=value
\* among them; its environment is every variable it sent under a usable name and,
\* of the pod's own under other names, the last of each, no name twice.
CallArrives ==
    /\ hop # "usage"
    /\ hop = "start" =>
        LET names == {k \in DOMAIN call.env : validName(k)}
            own == {i \in DOMAIN call.base :
                      /\ call.base[i].key \notin names
                      /\ \A n \in DOMAIN call.base : call.base[n].key = call.base[i].key => n <= i}
            got == call.gotEnv
        IN  /\ call.gotCmd = call.cmd
            /\ Range(got) = {Assignment(k, call.env[k]) : k \in names} \cup {call.base[i] : i \in own}
            /\ \A i, n \in DOMAIN got : got[i].key = got[n].key => i = n

===========================================================================
