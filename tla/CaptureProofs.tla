--------------------------- MODULE CaptureProofs ---------------------------
(***************************************************************************)
(* What a replay sends, for bodies, limits and numbers of replays of any   *)
(* size, and any characters.                                               *)
(***************************************************************************)
EXTENDS Capture, TLAPS

(* The limit is positive, whatever is configured.                          *)
LEMMA LimitPositive == Limit \in Nat /\ Limit > 0
BY CaptureAssumption DEF Limit

(* No preview, and a replay of it.                                         *)
LEMMA NoneTyped ==
  /\ None \in Preview /\ Nothing \in Sent
  /\ None.size = 0 /\ ~None.omitted /\ Nothing.text = 0 /\ ~Nothing.ok
BY CaptureAssumption DEF None, Nothing, Preview, Sent

(* What is made of a preview is a replay.                                  *)
LEMMA ReplayBodyTyped ==
  ASSUME NEW p \in Preview
  PROVE  /\ ReplayBody(p) \in Sent
         /\ ReplayBody(p).text > 0 => ReplayBody(p).ok
         /\ ReplayBody(p).ok => ~p.omitted
         /\ ReplayBody(p).ok /\ p.size > 0 =>
              p.text = p.size /\ ReplayBody(p) = [ok |-> TRUE, text |-> p.text, copied |-> p.copied]
         /\ ReplayBody(p).ok /\ p.size = 0 =>
              ReplayBody(p) = [ok |-> TRUE, text |-> 0, copied |-> 0]
         /\ ~ReplayBody(p).ok => ReplayBody(p) = Nothing
BY CaptureAssumption DEF ReplayBody, Preview, Sent, Nothing

(* The row of a replay shows the preview of its source, or none.           *)
LEMMA ReplayPreview ==
  ASSUME NEW p \in Preview
  PROVE  LET sent == ReplayBody(p)
         IN  /\ Again(p, sent) \in Preview
             /\ sent.ok /\ p.size > 0 => Again(p, sent) = p
             /\ ~sent.ok \/ p.size = 0 => Again(p, sent) = None
<1> DEFINE sent == ReplayBody(p)
<1>1. CASE ~sent.ok
  <2>1. Again(p, sent) = None
    BY <1>1 DEF Again
  <2> QED
    BY <1>1, <2>1, NoneTyped
<1>2. CASE sent.ok /\ p.size > 0
  <2>1. p.omitted = FALSE /\ sent = [ok |-> TRUE, text |-> p.text, copied |-> p.copied]
    <3>1. ~p.omitted /\ p.omitted \in BOOLEAN
      BY <1>2, ReplayBodyTyped DEF Preview
    <3>2. sent = [ok |-> TRUE, text |-> p.text, copied |-> p.copied]
      BY <1>2, ReplayBodyTyped
    <3> QED
      BY <3>1, <3>2
  <2>2. Again(p, sent) = [size |-> p.size, text |-> p.text, copied |-> p.copied,
                          omitted |-> p.omitted]
    <3>1. Again(p, sent) = [size |-> p.size, text |-> p.text, copied |-> p.copied,
                            omitted |-> FALSE]
      BY <1>2, <2>1 DEF Again
    <3> QED
      BY <2>1, <3>1, Zenon
  <2>3. Again(p, sent) = p
    BY <2>2 DEF Preview
  <2> QED
    BY <1>2, <2>3
<1>3. CASE sent.ok /\ p.size = 0
  <2>1. sent = [ok |-> TRUE, text |-> 0, copied |-> 0]
    BY <1>3, ReplayBodyTyped
  <2>2. Again(p, sent) = None
    BY <1>3, <2>1 DEF Again, None
  <2> QED
    BY <1>3, <2>2, NoneTyped
<1>4. p.size > 0 \/ p.size = 0
  BY CaptureAssumption DEF Preview
<1> QED
  BY <1>1, <1>2, <1>3, <1>4

(* The beginning.                                                          *)
LEMMA CaptureInitInv == CaptureInit => CaptureInv
<1> SUFFICES ASSUME CaptureInit PROVE CaptureInv
  OBVIOUS
<1> DEFINE row == [preview |-> None, ended |-> FALSE, early |-> FALSE, from |-> 0,
                   sent |-> Nothing]
<1>1. row \in Row
  BY NoneTyped DEF Row
<1>2. rows = <<row>>
  BY DEF CaptureInit
<1>3. rows \in Seq(Row) /\ Len(rows) = 1 /\ rows[1] = row
  BY <1>1, <1>2
<1>4. CaptureTypeOK
  <2>1. quiet \in BOOLEAN
    BY DEF CaptureInit
  <2>2. rows \in Seq(Row)
    BY <1>3
  <2>3. preview \in Preview
    BY NoneTyped DEF CaptureInit
  <2> QED
    BY <2>1, <2>2, <2>3, CaptureAssumption DEF CaptureInit, CaptureTypeOK
<1>5. BufferIsBeginning
  <2>1. size = 0 /\ read = 0 /\ kept = 0 /\ copied = 0 /\ tpc = "idle" /\ body \in Nat
    BY CaptureAssumption DEF CaptureInit
  <2> QED
    BY <2>1, LimitPositive DEF BufferIsBeginning
<1>6. QuietPreview
  BY DEF CaptureInit, QuietPreview
<1>7. RowsFromPreview
  BY <1>3, NoneTyped DEF RowsFromPreview
<1> QED
  BY <1>4, <1>5, <1>6, <1>7 DEF CaptureInv

-----------------------------------------------------------------------------

(* The transport's steps, of which the last conjuncts are what they share. *)
LEMMA TransportKeepsInv ==
  ASSUME CaptureInv, TransportStep
  PROVE  CaptureInv'
<1> USE DEF CaptureInv
<1>1. UNCHANGED <<request, hpc, preview, quiet, rows>>
  BY DEF TransportStep, StartReading, Write, CountChunk, Grow, Copy, StopReading
<1>2. RowsFromPreview'
  BY <1>1 DEF RowsFromPreview
<1>3. /\ body' \in 0..MaxBody /\ kind' \in {"text", "unknown", "binary"}
      /\ hpc' \in {"gate", "calling", "answering", "emit", "ended"} \cup Previewing
      /\ preview' \in Preview /\ rows' \in Seq(Row)
  BY <1>1 DEF CaptureTypeOK, request
<1>4. quiet' \in BOOLEAN
  BY <1>1 DEF CaptureTypeOK
<1>5. /\ MaxBody \in Nat /\ body \in 0..MaxBody /\ size \in 0..MaxBody /\ read \in 0..MaxBody
      /\ kept \in 0..MaxBody /\ copied \in 0..MaxBody /\ chunk \in 0..MaxBody
  BY CaptureAssumption DEF CaptureTypeOK
<1>6. /\ chunk' \in 0..MaxBody /\ size' \in 0..MaxBody /\ read' \in 0..MaxBody
      /\ kept' \in 0..MaxBody /\ copied' \in 0..MaxBody
      /\ tpc' \in {"idle", "reading", "sized", "grown", "stopped"}
      /\ BufferIsBeginning'
  <2> USE <1>5, LimitPositive DEF BufferIsBeginning, request
  <2>1. CASE StartReading
    BY <2>1 DEF StartReading, capture, CaptureTypeOK
  <2>2. ASSUME NEW n \in 1..MaxBody, Write(n)
        PROVE  /\ chunk' \in 0..MaxBody /\ size' \in 0..MaxBody /\ read' \in 0..MaxBody
               /\ kept' \in 0..MaxBody /\ copied' \in 0..MaxBody
               /\ tpc' \in {"idle", "reading", "sized", "grown", "stopped"}
               /\ BufferIsBeginning'
    BY <2>2 DEF Write, CountChunk, CaptureTypeOK
  <2>3. CASE Grow
    BY <2>3 DEF Grow
  <2>4. CASE Copy
    BY <2>4 DEF Copy
  <2>5. CASE StopReading
    BY <2>5 DEF StopReading, capture, CaptureTypeOK
  <2> QED
    BY <2>1, <2>2, <2>3, <2>4, <2>5 DEF TransportStep
<1>7. CaptureTypeOK'
  BY <1>3, <1>4, <1>6 DEF CaptureTypeOK
<1>8. QuietPreview'
  BY <1>1, <1>5 DEF QuietPreview, TransportStep, StartReading, Write, CountChunk, Grow, Copy,
                    StopReading, capture, request
<1> QED
  BY <1>2, <1>6, <1>7, <1>8

(* handleStream's steps: each leaves the buffer alone.                     *)
LEMMA HandlerKeepsInv ==
  ASSUME CaptureInv, HandlerStep
  PROVE  CaptureInv'
<1> USE DEF CaptureInv
<1>1. UNCHANGED <<request, capture>>
  BY DEF HandlerStep, FailEarly, Call, CallFails, Answer, AnswerEnds, PreviewSize,
         PreviewEmpty, PreviewText, PreviewKind, PreviewCut, Take, EmitEnd
<1>2. /\ MaxBody \in Nat /\ body \in 0..MaxBody /\ size \in 0..MaxBody /\ read \in 0..MaxBody
      /\ kept \in 0..MaxBody /\ copied \in 0..MaxBody /\ chunk \in 0..MaxBody
      /\ preview \in Preview /\ rows \in Seq(Row)
  BY CaptureAssumption DEF CaptureTypeOK
<1>3. /\ tpc' \in {"idle", "reading", "sized", "grown", "stopped"}
      /\ tpc' = tpc \/ (tpc = "idle" /\ tpc' = "stopped")
      /\ hpc' \in {"calling", "answering", "emit", "ended"} \cup Previewing
  <2> USE DEF CaptureTypeOK, Previewing
  <2>1. CASE FailEarly
    BY <2>1 DEF FailEarly, BufferIsBeginning
  <2>2. CASE Call \/ CallFails \/ Answer \/ AnswerEnds
    BY <2>2 DEF Call, CallFails, Answer, AnswerEnds
  <2>3. CASE PreviewSize \/ PreviewEmpty \/ PreviewText \/ PreviewKind \/ PreviewCut
    BY <2>3 DEF PreviewSize, PreviewEmpty, PreviewText, PreviewKind, PreviewCut, Take
  <2>4. CASE EmitEnd
    BY <2>4 DEF EmitEnd
  <2> QED
    BY <2>1, <2>2, <2>3, <2>4 DEF HandlerStep
<1>4. BufferIsBeginning'
  BY <1>1, <1>2, <1>3 DEF BufferIsBeginning, capture, request, Previewing
<1>5. quiet' \in BOOLEAN
  <2>1. quiet' = quiet \/ quiet' \in BOOLEAN
    BY DEF HandlerStep, FailEarly, Call, CallFails, Answer, AnswerEnds, PreviewSize,
           PreviewEmpty, PreviewText, PreviewKind, PreviewCut, EmitEnd
  <2> QED
    BY <2>1 DEF CaptureTypeOK
<1>6. CASE FailEarly \/ Call \/ CallFails \/ Answer \/ AnswerEnds
  <2>1. UNCHANGED <<preview, quiet, rows>> /\ hpc \in {"gate", "calling", "answering"}
        /\ hpc' # "ended"
    BY <1>6 DEF FailEarly, Call, CallFails, Answer, AnswerEnds
  <2>2. CaptureTypeOK'
    BY <1>1, <1>3, <1>5, <2>1 DEF CaptureTypeOK, capture, request
  <2>3. QuietPreview'
    BY <2>1 DEF QuietPreview
  <2>4. RowsFromPreview'
    BY <2>1 DEF RowsFromPreview
  <2> QED
    BY <1>4, <2>2, <2>3, <2>4
<1>7. CASE PreviewSize \/ PreviewEmpty \/ PreviewText \/ PreviewKind \/ PreviewCut
  <2>1. UNCHANGED <<rows, tpc>> /\ hpc \in Previewing /\ hpc' # "ended"
    BY <1>7 DEF PreviewSize, PreviewEmpty, PreviewText, PreviewKind, PreviewCut, Take, Previewing
  <2>2. RowsFromPreview'
    BY <2>1 DEF RowsFromPreview, Previewing
  <2>3. preview' \in Preview /\ QuietPreview'
    <3> USE <1>1, <1>2, <2>1 DEF capture, request, Take
    <3>1. CASE PreviewSize
      <4>1. preview' = [size |-> size, text |-> 0, copied |-> 0, omitted |-> FALSE]
        BY <3>1 DEF PreviewSize, None
      <4>2. preview' \in Preview
        BY <4>1 DEF Preview
      <4>3. hpc' = "empty" /\ (quiet' => tpc = "stopped" \/ (tpc = "reading" /\ read = body))
        BY <3>1 DEF PreviewSize
      <4> QED
        BY <4>1, <4>2, <4>3 DEF QuietPreview
    <3>2. CASE PreviewEmpty
      BY <3>2 DEF PreviewEmpty, QuietPreview
    <3>3. CASE PreviewText
      <4>1. preview' \in Preview /\ hpc = "text" /\ hpc' = "kind" /\ quiet' = quiet
            /\ preview'.size = preview.size /\ preview'.text = kept /\ preview'.copied = copied
        BY <3>3 DEF PreviewText, Preview
      <4>2. preview'.omitted = preview.omitted
        BY <3>3 DEF PreviewText, Preview
      <4>3. copied = kept \/ ~quiet
        BY DEF QuietPreview, BufferIsBeginning
      <4> QED
        BY <4>1, <4>2, <4>3 DEF QuietPreview
    <3>4. CASE PreviewKind
      <4>1. PICK text \in IsText :
              IF text THEN Take("kind", preview, "cut")
              ELSE Take("kind", [preview EXCEPT !.text = 0, !.copied = 0, !.omitted = TRUE], "emit")
        BY <3>4 DEF PreviewKind
      <4>2. UNCHANGED quiet /\ hpc = "kind"
        BY <3>4 DEF PreviewKind
      <4>3. CASE text
        BY <4>1, <4>2, <4>3 DEF QuietPreview
      <4>4. CASE ~text
        <5>1. hpc' = "emit" /\ preview' = [preview EXCEPT !.text = 0, !.copied = 0, !.omitted = TRUE]
          BY <4>1, <4>4
        <5>6. preview' = [size |-> preview.size, text |-> 0, copied |-> 0, omitted |-> TRUE]
          BY <5>1 DEF Preview
        <5>7. preview.size \in 0..MaxBody /\ 0 \in 0..MaxBody
          BY DEF Preview
        <5>2. preview' \in Preview
          BY <5>6, <5>7 DEF Preview
        <5>5. preview'.size = preview.size
          BY <5>1 DEF Preview
        <5>4. preview'.omitted
          BY <5>1 DEF Preview
        <5>3. kind # "text"
          BY <4>4 DEF IsText
        <5> QED
          BY <4>2, <5>1, <5>2, <5>3, <5>4, <5>5 DEF QuietPreview
      <4> QED
        BY <4>3, <4>4
    <3>5. CASE PreviewCut
      <4>1. preview' = [preview EXCEPT !.omitted = size > Limit] /\ hpc = "cut" /\ hpc' = "emit"
            /\ quiet' = quiet
        BY <3>5 DEF PreviewCut
      <4>2. /\ preview' \in Preview /\ preview'.size = preview.size
            /\ preview'.text = preview.text /\ preview'.copied = preview.copied
            /\ preview'.omitted <=> size > Limit
        <5>1. CASE size > Limit
          <6>1. preview' = [preview EXCEPT !.omitted = TRUE]
            BY <4>1, <5>1, Zenon
          <6> QED
            BY <5>1, <6>1 DEF Preview
        <5>2. CASE ~(size > Limit)
          <6>2. (size > Limit) = FALSE
            BY <5>2, LimitPositive
          <6>1. preview' = [preview EXCEPT !.omitted = FALSE]
            BY <4>1, <6>2, Zenon
          <6> QED
            BY <5>2, <6>1 DEF Preview
        <5> QED
          BY <5>1, <5>2
      <4>4. quiet /\ size <= Limit => kept = size
        BY LimitPositive DEF QuietPreview, BufferIsBeginning
      <4>5. preview'.omitted <=> ~(size <= Limit)
        BY <4>2, LimitPositive
      <4> QED
        BY <4>1, <4>2, <4>4, <4>5, LimitPositive DEF QuietPreview, BufferIsBeginning
    <3> QED
      BY <1>7, <3>1, <3>2, <3>3, <3>4, <3>5
  <2>4. CaptureTypeOK'
    BY <1>1, <1>3, <1>5, <2>1, <2>3 DEF CaptureTypeOK, capture, request
  <2> QED
    BY <1>4, <2>2, <2>3, <2>4
<1>8. CASE EmitEnd
  <2> DEFINE shown == IF preview.size > 0 \/ preview.omitted THEN preview ELSE rows[1].preview
  <2>1. /\ hpc = "emit" /\ hpc' = "ended" /\ UNCHANGED <<tpc, preview, quiet>>
        /\ \/ rows' = [rows EXCEPT ![1].ended = TRUE, ![1].preview = shown]
           \/ rows' = rows
    BY <1>8 DEF EmitEnd
  <2>2. Len(rows) >= 1 /\ \A k \in 1..Len(rows) : rows[k] \in Row
    BY <1>2 DEF RowsFromPreview
  <2>3. shown \in Preview /\ (shown = preview \/ shown = None)
        /\ (preview.size > 0 => shown = preview)
    BY <1>2, <2>1, <2>2 DEF RowsFromPreview, Row
  <2> HIDE DEF shown
  <2>4. rows' \in Seq(Row) /\ Len(rows') = Len(rows)
        /\ (\A k \in 2..Len(rows) : rows'[k] = rows[k])
        /\ \/ rows'[1] = rows[1]
           \/ rows'[1] = [rows[1] EXCEPT !.ended = TRUE, !.preview = shown]
    <3>1. CASE rows' = rows
      BY <1>2, <3>1
    <3>2. CASE rows' = [rows EXCEPT ![1].ended = TRUE, ![1].preview = shown]
      <4> DEFINE row == [rows[1] EXCEPT !.ended = TRUE, !.preview = shown]
      <4>1. row \in Row
        <5>1. rows[1] \in Row
          BY <2>2
        <5> QED
          BY <2>3, <5>1 DEF Row
      <4>2. rows' = [rows EXCEPT ![1] = row]
        BY <2>2, <3>2 DEF Row
      <4> HIDE DEF row
      <4>3. /\ rows' \in Seq(Row) /\ Len(rows') = Len(rows) /\ rows'[1] = row
            /\ \A k \in 2..Len(rows) : rows'[k] = rows[k]
        BY <1>2, <2>2, <4>1, <4>2
      <4> QED
        BY <4>3 DEF row
    <3> QED
      BY <2>1, <3>1, <3>2
  <2>5. CaptureTypeOK'
    BY <1>1, <1>3, <1>5, <2>1, <2>4 DEF CaptureTypeOK, capture, request
  <2>6. QuietPreview'
    BY <1>1, <2>1 DEF QuietPreview, capture, request
  <2>7. ASSUME NEW k \in 1..Len(rows')
        PROVE  /\ rows'[k].preview # None => rows'[k].preview = preview
               /\ rows'[k].ended /\ ~rows'[k].early /\ ReplayBody(preview).ok /\ preview.size > 0
                    => rows'[k].preview = preview
               /\ ~(rows'[k].sent.text > 0)
               /\ k > 1 => rows'[k].ended /\ rows'[k].early
    <3>1. k \in 1..Len(rows)
      BY <2>4
    <3>2. /\ rows[k].preview = None /\ ~(rows[k].sent.text > 0)
          /\ ~(rows[k].ended /\ ~rows[k].early)
          /\ k > 1 => rows[k].ended
      BY <2>1, <3>1 DEF RowsFromPreview
    <3>3. CASE rows'[k] = rows[k]
      BY <3>2, <3>3
    <3>4. CASE k = 1 /\ rows'[k] = [rows[k] EXCEPT !.ended = TRUE, !.preview = shown]
      <4>1. rows[k] \in Row
        BY <2>2, <3>1
      <4>2. rows'[k].preview = shown /\ rows'[k].sent = rows[k].sent
        BY <3>4, <4>1 DEF Row
      <4> QED
        BY <2>3, <3>2, <3>4, <4>2
    <3>5. k = 1 \/ k \in 2..Len(rows)
      BY <1>2, <3>1
    <3>6. rows'[k] = rows[k] \/ (k = 1 /\ rows'[k] = [rows[k] EXCEPT !.ended = TRUE, !.preview = shown])
      BY <2>4, <3>5
    <3> QED
      BY <3>3, <3>4, <3>6
  <2>8. RowsFromPreview'
    BY <2>1, <2>2, <2>4, <2>7 DEF RowsFromPreview
  <2> QED
    BY <1>4, <2>5, <2>6, <2>8
<1> QED
  BY <1>6, <1>7, <1>8 DEF HandlerStep

(* A replay makes a row out of the preview of its source.                  *)
LEMMA ReplayKeepsInv ==
  ASSUME CaptureInv, NEW r \in 1..Len(rows), Replay(r)
  PROVE  CaptureInv'
<1> USE DEF CaptureInv
<1> DEFINE p == rows[r].preview
           sent == ReplayBody(p)
           row == [preview |-> Again(p, sent), ended |-> TRUE,
                   early |-> rows[r].early \/ ~rows[r].ended, from |-> r, sent |-> sent]
<1>1. UNCHANGED <<request, hpc, tpc, capture, preview, quiet>> /\ rows' = Append(rows, row)
  BY DEF Replay
<1>2. /\ rows \in Seq(Row) /\ rows[r] \in Row /\ p \in Preview /\ preview \in Preview
      /\ rows[r].early \in BOOLEAN /\ rows[r].ended \in BOOLEAN
  <2>1. rows \in Seq(Row) /\ preview \in Preview
    BY DEF CaptureTypeOK
  <2>2. rows[r] \in Row
    BY <2>1
  <2> QED
    BY <2>1, <2>2 DEF Row
<1>3. row \in Row
  <2>1. Again(p, sent) \in Preview /\ sent \in Sent /\ r \in Nat
    BY <1>2, ReplayPreview, ReplayBodyTyped
  <2>2. (rows[r].early \/ ~rows[r].ended) \in BOOLEAN
    OBVIOUS
  <2> QED
    BY <2>1, <2>2 DEF Row
<1>4. /\ rows' \in Seq(Row) /\ Len(rows') = Len(rows) + 1 /\ rows'[Len(rows) + 1] = row
      /\ \A k \in 1..Len(rows) : rows'[k] = rows[k]
  <2> HIDE DEF row
  <2> QED
    BY <1>1, <1>2, <1>3
<1>5. CaptureTypeOK'
  <2>1. quiet' \in BOOLEAN
    BY <1>1 DEF CaptureTypeOK
  <2> QED
    BY <1>1, <1>4, <2>1 DEF CaptureTypeOK, capture, request
<1>6. BufferIsBeginning' /\ QuietPreview'
  BY <1>1 DEF BufferIsBeginning, QuietPreview, capture, request
<1>7. (p = None \/ (p = preview /\ hpc = "ended"))
      /\ (rows[r].ended /\ ~rows[r].early => hpc = "ended")
      /\ (rows[r].ended /\ ~rows[r].early /\ ReplayBody(preview).ok /\ preview.size > 0
            => p = preview)
  BY DEF RowsFromPreview
<1>8. Again(p, sent) # None => hpc = "ended" /\ Again(p, sent) = preview
  <2>1. p.size \in Nat
    BY <1>2, CaptureAssumption DEF Preview
  <2>2. p.size > 0 \/ Again(p, sent) = None
    BY <1>2, <2>1, ReplayPreview
  <2>3. Again(p, sent) = p \/ Again(p, sent) = None
    BY <1>2, <2>1, ReplayPreview
  <2>4. p = None => p.size = 0
    BY NoneTyped
  <2> HIDE DEF p, sent
  <2> QED
    BY <1>7, <2>2, <2>3, <2>4
<1>9. ReplayBody(None) = [ok |-> TRUE, text |-> 0, copied |-> 0]
  BY NoneTyped DEF ReplayBody
<1>10. sent.text > 0 => hpc = "ended" /\ sent = ReplayBody(preview)
  BY <1>7, <1>9
<1>11. ASSUME rows[r].ended, ~rows[r].early, ReplayBody(preview).ok
       PROVE  sent = ReplayBody(preview) /\ (preview.size > 0 => Again(p, sent) = preview)
  <2>1. CASE preview.size > 0
    BY <1>2, <1>7, <1>11, <2>1, ReplayPreview
  <2>2. CASE preview.size = 0
    <3>1. ReplayBody(preview) = [ok |-> TRUE, text |-> 0, copied |-> 0]
      BY <1>2, <1>11, <2>2, ReplayBodyTyped
    <3>2. sent = ReplayBody(preview)
      BY <1>7, <1>9, <3>1
    <3> QED
      BY <2>2, <3>2
  <2> QED
    BY <1>2, <2>1, <2>2, CaptureAssumption DEF Preview
<1>12. ASSUME NEW k \in 1..Len(rows')
       PROVE  /\ rows'[k].preview # None => hpc = "ended" /\ rows'[k].preview = preview
              /\ rows'[k].ended /\ ~rows'[k].early => hpc = "ended"
              /\ rows'[k].ended /\ ~rows'[k].early /\ ReplayBody(preview).ok /\ preview.size > 0
                   => rows'[k].preview = preview
              /\ rows'[k].sent.text > 0 => hpc = "ended" /\ rows'[k].sent = ReplayBody(preview)
              /\ k > 1 => rows'[k].ended
              /\ k > 1 /\ ~rows'[k].early /\ ReplayBody(preview).ok
                   => rows'[k].sent = ReplayBody(preview)
  <2>1. CASE k \in 1..Len(rows)
    BY <1>4, <2>1 DEF RowsFromPreview
  <2>2. CASE k = Len(rows) + 1
    <3>1. /\ rows'[k].preview = Again(p, sent) /\ rows'[k].sent = sent /\ rows'[k].ended
          /\ ~rows'[k].early => rows[r].ended /\ ~rows[r].early
      <4>1. rows'[k] = row
        BY <1>4, <2>2
      <4>2. /\ row.preview = Again(p, sent) /\ row.sent = sent
            /\ row.ended = TRUE /\ row.early = (rows[r].early \/ ~rows[r].ended)
        OBVIOUS
      <4> HIDE DEF p, sent, row
      <4> QED
        BY <4>1, <4>2, Zenon
    <3> HIDE DEF p, sent, row
    <3> QED
      BY <1>7, <1>8, <1>10, <1>11, <3>1
  <2> QED
    BY <1>2, <1>4, <2>1, <2>2
<1>13. RowsFromPreview'
  BY <1>1, <1>4, <1>12 DEF RowsFromPreview
<1> QED
  BY <1>5, <1>6, <1>13

LEMMA CaptureNextInv ==
  ASSUME CaptureInv, [CaptureNext]_captureVars
  PROVE  CaptureInv'
<1>1. CASE UNCHANGED captureVars
  BY <1>1 DEF captureVars, capture, request, CaptureInv, CaptureTypeOK, BufferIsBeginning,
              QuietPreview, RowsFromPreview
<1>2. ASSUME NEW r \in 1..Len(rows), Replay(r)
      PROVE  CaptureInv'
  BY <1>2, ReplayKeepsInv
<1> QED
  BY <1>1, <1>2, TransportKeepsInv, HandlerKeepsInv DEF CaptureNext

(* The capture, the preview and the rows satisfy their inductive invariant *)
(* at every step of the transport, of handleStream and of the replays.     *)
THEOREM CaptureInvariant == CaptureSpec => []CaptureInv
BY CaptureInitInv, CaptureNextInv, PTL DEF CaptureSpec

(* A replay with a body sends all that was read of it, if the reading was  *)
(* over when the preview was taken.                                        *)
THEOREM ReplaysAreHonest == CaptureSpec => []HonestReplay
<1>1. CaptureInv => HonestReplay
  <2> SUFFICES ASSUME CaptureInv, NEW k \in 1..Len(rows), quiet, rows[k].sent.text > 0
               PROVE  /\ rows[k].sent.text = read /\ rows[k].sent.copied = read
                      /\ read <= Limit
    BY DEF HonestReplay
  <2>1. preview \in Preview
    BY DEF CaptureInv, CaptureTypeOK
  <2>2. hpc = "ended" /\ rows[k].sent = ReplayBody(preview)
    BY DEF CaptureInv, RowsFromPreview
  <2>3. ReplayBody(preview).text > 0
    BY <2>2
  <2>4. preview.size > 0 /\ ~preview.omitted
        /\ ReplayBody(preview) = [ok |-> TRUE, text |-> preview.text, copied |-> preview.copied]
    BY <2>1, <2>3, ReplayBodyTyped, CaptureAssumption DEF Preview
  <2>5. preview.text = size /\ preview.copied = size /\ size <= Limit
    BY <2>2, <2>4 DEF CaptureInv, QuietPreview
  <2>6. size = read
    BY DEF CaptureInv, BufferIsBeginning
  <2> QED
    BY <2>2, <2>4, <2>5, <2>6
<1> QED
  BY <1>1, CaptureInvariant, PTL

(* A text that fits and was read to its end before the preview is replayed *)
(* as a whole.                                                             *)
THEOREM WholeTextsReplay == CaptureSpec => []WholeIsReplayable
<1>1. CaptureInv => WholeIsReplayable
  <2> SUFFICES ASSUME CaptureInv, quiet, read = body, body <= Limit, kind = "text",
                      NEW k \in 2..Len(rows), ~rows[k].early
               PROVE  rows[k].sent = [ok |-> TRUE, text |-> body, copied |-> body]
    BY DEF WholeIsReplayable
  <2>1. preview \in Preview /\ size \in Nat /\ size = body
    BY CaptureAssumption DEF CaptureInv, CaptureTypeOK, BufferIsBeginning
  <2>2. k \in 1..Len(rows) /\ k > 1
    BY DEF CaptureInv, RowsFromPreview
  <2>3. hpc = "ended" /\ (ReplayBody(preview).ok => rows[k].sent = ReplayBody(preview))
    BY <2>2 DEF CaptureInv, RowsFromPreview
  <2>4. ~preview.omitted /\ preview.size = size
        /\ (size > 0 => preview.text = size /\ preview.copied = size)
    BY <2>1, <2>3, LimitPositive DEF CaptureInv, QuietPreview
  <2>5. ReplayBody(preview) = [ok |-> TRUE, text |-> size, copied |-> size]
    <3>1. CASE size = 0
      BY <2>4, <3>1 DEF ReplayBody
    <3>2. CASE size > 0
      BY <2>4, <3>2 DEF ReplayBody
    <3> QED
      BY <2>1, <3>1, <3>2
  <2> QED
    BY <2>1, <2>3, <2>5
<1> QED
  BY <1>1, CaptureInvariant, PTL
=============================================================================
