------------------------------ MODULE Capture ------------------------------
(***************************************************************************)
(* The preview of a request's body (internal/client/preview.go), and what  *)
(* a replay makes of it (replay.go).  While net/http's transport reads the *)
(* body in a goroutine of its own and every chunk goes through the capture,*)
(* handleStream waits for the answer; when that is through, it takes the   *)
(* preview without any lock, whether or not the body has been read.  The   *)
(* steps of either are seen by the other in the order of the code.         *)
(* Bytes are counted: what has been read is always a beginning of the body.*)
(***************************************************************************)
EXTENDS Integers, Sequences

CONSTANTS
  MaxBody,             \* bound on the size of bodies
  MaxReplays,          \* bound on the number of replays
  PreviewLimit,        \* config.PreviewLimit
  DefaultPreviewLimit,
  Inside               \* where a cut would fall inside a character

ASSUME CaptureAssumption ==
  /\ MaxBody \in Nat
  /\ MaxReplays \in Nat
  /\ PreviewLimit \in Int
  /\ DefaultPreviewLimit \in Nat \ {0}

(* newBodyPreviewCapture *)
Limit == IF PreviewLimit <= 0 THEN DefaultPreviewLimit ELSE PreviewLimit

VARIABLES
  body,    \* the size of the request's body
  kind,    \* what its Content-Type says of it
  hpc,     \* where handleStream is
  tpc,     \* where the transport's goroutine is
  chunk,   \* what it has to append to the buffer
  read,    \* how much of the body has been read
  size,    \* c.size
  kept,    \* the length of c.buf
  copied,  \* how much of c.buf has been written
  preview, \* the preview that is being taken
  quiet,   \* history: nothing was read any more when the preview began
  rows     \* the request's row in the history, and those of its replays

capture == <<read, chunk, size, kept, copied>>
request == <<body, kind>>
captureVars == <<request, hpc, tpc, capture, preview, quiet, rows>>

(* Text is the length of the text; of which copied bytes are the body's.   *)
Preview == [size : 0..MaxBody, text : 0..MaxBody, copied : 0..MaxBody, omitted : BOOLEAN]
None == [size |-> 0, text |-> 0, copied |-> 0, omitted |-> FALSE]

(* A replay is refused, or sends text bytes of which copied are the body's.*)
Sent == [ok : BOOLEAN, text : 0..MaxBody, copied : 0..MaxBody]
Nothing == [ok |-> FALSE, text |-> 0, copied |-> 0]

(* The row of a replay says what was sent, and from which row it came;     *)
(* early that a row on the way to it was not ended.                        *)
Row == [preview : Preview, ended : BOOLEAN, early : BOOLEAN, from : Nat, sent : Sent]

Previewing == {"size", "empty", "text", "kind", "cut"}

CaptureTypeOK ==
  /\ body \in 0..MaxBody
  /\ kind \in {"text", "unknown", "binary"}
  /\ hpc \in {"gate", "calling", "answering", "emit", "ended"} \cup Previewing
  /\ tpc \in {"idle", "reading", "sized", "grown", "stopped"}
  /\ chunk \in 0..MaxBody
  /\ read \in 0..MaxBody
  /\ size \in 0..MaxBody
  /\ kept \in 0..MaxBody
  /\ copied \in 0..MaxBody
  /\ preview \in Preview
  /\ quiet \in BOOLEAN
  /\ rows \in Seq(Row)

(* handleStream has read the head of a request and emitted its first event.*)
CaptureInit ==
  /\ body \in 0..MaxBody
  /\ kind \in {"text", "unknown", "binary"}
  /\ hpc = "gate"
  /\ tpc = "idle"
  /\ chunk = 0
  /\ read = 0
  /\ size = 0
  /\ kept = 0
  /\ copied = 0
  /\ preview = None
  /\ quiet = FALSE
  /\ rows = <<[preview |-> None, ended |-> FALSE, early |-> FALSE, from |-> 0, sent |-> Nothing]>>

-----------------------------------------------------------------------------
(* The transport's goroutine. *)

(* It begins once Do has been called, perhaps after the answer is there.   *)
StartReading ==
  /\ hpc # "gate" /\ tpc = "idle"
  /\ tpc' = "reading"
  /\ UNCHANGED <<request, hpc, capture, preview, quiet, rows>>

(* A chunk of n bytes: counted are counted, what fits is going to be kept. *)
CountChunk(n, counted, room) ==
  /\ tpc = "reading"
  /\ n <= body - read
  /\ read' = read + n
  /\ size' = size + counted
  /\ chunk' = IF n > room THEN room ELSE n
  /\ tpc' = IF room > 0 THEN "sized" ELSE "reading"
  /\ UNCHANGED <<request, hpc, kept, copied, preview, quiet, rows>>

(* Slip: only what is kept is counted. *)
WriteKept(n) == CountChunk(n, IF n > Limit - kept THEN Limit - kept ELSE n, Limit - kept)

(* Slip: each chunk is cut at the limit, whatever the buffer holds. *)
WriteEach(n) == CountChunk(n, n, Limit)

(* bodyPreviewCapture.Write, from the size to the length of the buffer.    *)
Write(n) == CountChunk(n, n, Limit - kept)

(* bytes.Buffer.Write makes the buffer longer, then copies. *)
Grow ==
  /\ tpc = "sized"
  /\ kept' = kept + chunk
  /\ tpc' = "grown"
  /\ UNCHANGED <<request, hpc, read, chunk, size, copied, preview, quiet, rows>>

Copy ==
  /\ tpc = "grown"
  /\ copied' = kept
  /\ chunk' = 0
  /\ tpc' = "reading"
  /\ UNCHANGED <<request, hpc, read, size, kept, preview, quiet, rows>>

(* The end of the body, a read that fails, or a connection that is closed. *)
StopReading ==
  /\ hpc # "gate" /\ tpc \in {"idle", "reading"}
  /\ tpc' = "stopped"
  /\ UNCHANGED <<request, hpc, capture, preview, quiet, rows>>

TransportStep ==
  StartReading \/ (\E n \in 1..MaxBody : Write(n)) \/ Grow \/ Copy \/ StopReading

-----------------------------------------------------------------------------
(* handleStream, and the preview it takes. *)

(* Paused for too long, or a target or request that cannot be built.       *)
FailEarly ==
  /\ hpc = "gate"
  /\ hpc' = "size" /\ tpc' = "stopped"
  /\ UNCHANGED <<request, capture, preview, quiet, rows>>

Call ==
  /\ hpc = "gate"
  /\ hpc' = "calling"
  /\ UNCHANGED <<request, tpc, capture, preview, quiet, rows>>

(* Do returns an error: without a connection, nothing has been read. *)
CallFails ==
  /\ hpc = "calling"
  /\ hpc' = "size"
  /\ tpc' = IF tpc = "idle" THEN "stopped" ELSE tpc
  /\ UNCHANGED <<request, capture, preview, quiet, rows>>

(* Do returns the answer, however much of the body has been read. *)
Answer ==
  /\ hpc = "calling"
  /\ hpc' = "answering"
  /\ UNCHANGED <<request, tpc, capture, preview, quiet, rows>>

(* The answer is through, or writing it to the stream has failed. *)
AnswerEnds ==
  /\ hpc = "answering"
  /\ hpc' = "size"
  /\ UNCHANGED <<request, tpc, capture, preview, quiet, rows>>

Take(from, p, to) ==
  /\ hpc = from
  /\ preview' = p
  /\ hpc' = to
  /\ UNCHANGED <<request, tpc, capture, rows>>

PreviewSize ==
  /\ Take("size", [None EXCEPT !.size = size], "empty")
  /\ quiet' = (tpc = "stopped" \/ (tpc = "reading" /\ read = body))

PreviewEmpty ==
  /\ Take("empty", preview, IF size = 0 THEN "emit" ELSE "text")
  /\ UNCHANGED quiet

PreviewText ==
  /\ Take("text", [preview EXCEPT !.text = kept, !.copied = copied], "kind")
  /\ UNCHANGED quiet

(* isTextContent: by the type, or whether the sample is valid UTF-8, which *)
(* a sample that is being written may or may not be.                       *)
IsText ==
  IF kind # "unknown" THEN {kind = "text"}
  ELSE IF copied = kept THEN {kept \notin Inside} ELSE BOOLEAN

PreviewKind ==
  /\ \E text \in IsText :
       IF text THEN Take("kind", preview, "cut")
       ELSE Take("kind", [preview EXCEPT !.text = 0, !.copied = 0, !.omitted = TRUE], "emit")
  /\ UNCHANGED quiet

(* Slip: a body that just fits is called truncated. *)
PreviewCutAtLimit ==
  /\ Take("cut", [preview EXCEPT !.omitted = size >= Limit], "emit")
  /\ UNCHANGED quiet

PreviewCut ==
  /\ Take("cut", [preview EXCEPT !.omitted = size > Limit], "emit")
  /\ UNCHANGED quiet

(* The last event reaches the request's row, which takes the preview if    *)
(* there is something in it; or the event is dropped.                      *)
EmitEnd ==
  /\ hpc = "emit"
  /\ hpc' = "ended"
  /\ \/ rows' = [rows EXCEPT
           ![1].ended = TRUE,
           ![1].preview = IF preview.size > 0 \/ preview.omitted THEN preview ELSE @]
     \/ UNCHANGED rows
  /\ UNCHANGED <<request, tpc, capture, preview, quiet>>

HandlerStep ==
  \/ FailEarly \/ Call \/ CallFails \/ Answer \/ AnswerEnds
  \/ PreviewSize \/ PreviewEmpty \/ PreviewText \/ PreviewKind \/ PreviewCut \/ EmitEnd

-----------------------------------------------------------------------------
(* Replays. *)

(* replayBody *)
ReplayBody(p) ==
  IF p.omitted THEN Nothing
  ELSE IF p.size = 0 THEN [ok |-> TRUE, text |-> 0, copied |-> 0]
  ELSE IF p.text # p.size THEN Nothing
  ELSE [ok |-> TRUE, text |-> p.text, copied |-> p.copied]

(* The preview of the replay's result: an empty one, if it was refused. *)
Again(p, sent) ==
  IF ~sent.ok THEN None
  ELSE [size |-> p.size, text |-> sent.text, copied |-> sent.copied, omitted |-> FALSE]

(* ReplayRequest, with the row that its result makes. *)
Replay(r) ==
  /\ Len(rows) <= MaxReplays
  /\ rows' = Append(rows,
       LET sent == ReplayBody(rows[r].preview)
       IN  [preview |-> Again(rows[r].preview, sent),
            ended   |-> TRUE,
            early   |-> rows[r].early \/ ~rows[r].ended,
            from    |-> r,
            sent    |-> sent])
  /\ UNCHANGED <<request, hpc, tpc, capture, preview, quiet>>

CaptureNext == TransportStep \/ HandlerStep \/ (\E r \in 1..Len(rows) : Replay(r))

CaptureSpec == CaptureInit /\ [][CaptureNext]_captureVars

-----------------------------------------------------------------------------
(* Correctness. *)

(* The buffer is a beginning of what was read, up to the limit: but for    *)
(* the chunk that is being written, it has as much as may be kept of it.   *)
(* Nobody reads before Do is called.                                       *)
BufferIsBeginning ==
  LET keepable == IF size > Limit THEN Limit ELSE size
  IN  /\ hpc = "gate" => tpc = "idle"
      /\ size = read /\ read <= body
      /\ copied <= kept /\ kept <= keepable
      /\ tpc # "sized" => kept = keepable
      /\ tpc = "sized" => kept + chunk = keepable
      /\ tpc # "grown" => copied = kept

(* A preview that nothing was read after shows the buffer as it was left.  *)
QuietPreview ==
  quiet =>
    /\ hpc \notin {"gate", "calling", "answering", "size"}
    /\ tpc = "stopped" \/ (tpc = "reading" /\ read = body)
    /\ preview.size = size
    /\ hpc \in {"empty", "text", "kind", "cut"} => ~preview.omitted
    /\ hpc \in {"kind", "cut"} => preview.text = kept /\ preview.copied = kept
    /\ hpc \in {"emit", "ended"} =>
         IF preview.omitted THEN kind = "text" => size > Limit
         ELSE size > 0 => preview.text = size /\ preview.copied = size /\ size <= Limit

(* Every row holds no preview or the one that was taken, and every replay  *)
(* sent nothing, an empty body or the text of that preview.                *)
RowsFromPreview ==
  /\ Len(rows) >= 1
  /\ \A k \in 1..Len(rows) :
       /\ rows[k].preview # None => hpc = "ended" /\ rows[k].preview = preview
       /\ rows[k].ended /\ ~rows[k].early => hpc = "ended"
       /\ rows[k].ended /\ ~rows[k].early /\ ReplayBody(preview).ok /\ preview.size > 0
            => rows[k].preview = preview
       /\ rows[k].sent.text > 0 => hpc = "ended" /\ rows[k].sent = ReplayBody(preview)
       /\ k > 1 => rows[k].ended
       /\ k > 1 /\ ~rows[k].early /\ ReplayBody(preview).ok
            => rows[k].sent = ReplayBody(preview)

(* The inductive invariant. *)
CaptureInv == CaptureTypeOK /\ BufferIsBeginning /\ QuietPreview /\ RowsFromPreview

(* When the reading was over before the preview, a replay that sends a     *)
(* body sends all that was read of it: never one that is cut at the limit, *)
(* however the chunks fell, and also as the replay of a replay.            *)
HonestReplay ==
  \A k \in 1..Len(rows) :
    quiet /\ rows[k].sent.text > 0 =>
      /\ rows[k].sent.text = read /\ rows[k].sent.copied = read
      /\ read <= Limit

(* A text that fits into the preview and was read to its end before can be *)
(* replayed as a whole, from every row that has come to an end.            *)
WholeIsReplayable ==
  quiet /\ read = body /\ body <= Limit /\ kind = "text" =>
    \A k \in 2..Len(rows) :
      ~rows[k].early => rows[k].sent = [ok |-> TRUE, text |-> body, copied |-> body]

(* replayBody answers "request body preview is incomplete" where it does   *)
(* not have the whole body: what goes out for a request that has ended is  *)
(* the body that came in.                                                  *)
ReplayIsWhole ==
  \A k \in 1..Len(rows) :
    rows[k].sent.ok /\ ~rows[k].early =>
      rows[k].sent.text = body /\ rows[k].sent.copied = body
=============================================================================
