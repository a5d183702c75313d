-------------------------- MODULE MultimodalFusion --------------------------
(***************************************************************************)
(* perception/multimodal-fusion: the files of a report are parsed into     *)
(* typed inputs, each is fused into one block and one event of the trace,  *)
(* and the blocks become the parts of a tool result, images as images.     *)
(* The kind "text" stands for logs too, "table" for the rows of a query.   *)
(***************************************************************************)
EXTENDS Integers, Sequences

CONSTANTS
  MaxFiles, MaxRows, \* rows of a table the fuser keeps; the parser keeps what the request says
  MaxTableSize, ImageTokens

VARIABLES
  ocr,      \* an extractor of text from images is configured
  files,    \* how many of the request's files are parsed
  inputs,   \* ModalityInputs: [kind, keep, mode, table]
  blocks,   \* FusionBlocks: [kind, type, rows, marked]
  trace,    \* FusionEvents: [kind, tokens, warning]
  parts,    \* of the tool result: the images, and notes of those skipped, in the order of their blocks
  fusion    \* "parsing", "fusing", "rendering", "done" or "failed"

fusionVars == <<ocr, files, inputs, blocks, trace, parts, fusion>>

Modes == {"auto", "vision", "ocr"}
\* The payload of a table; size is the number of rows its source has.
Table(header, rows, total, size) == [header |-> header, rows |-> rows, total |-> total, size |-> size]
NoTable == Table(FALSE, 0, 0, 0)
\* A ModalityInput; the mode is the resolved one, and only fuseImage asks for it.
Input(kind, keep, mode, table) ==
  [kind |-> kind, keep |-> keep, table |-> table,
   mode |-> IF keep \/ kind = "image" THEN mode ELSE "auto"]
Least(a, b) == IF a < b THEN a ELSE b

Init ==
  /\ ocr \in BOOLEAN /\ files = 0
  /\ inputs = <<>> /\ blocks = <<>> /\ trace = <<>> /\ parts = {} /\ fusion = "parsing"

ParseTableSampled(n, limit) ==              \* mutant: the total is that of the sample
  Table(TRUE, Least(n, limit), Least(n, limit), n)
\* parseCSVLike: the first record is the header; an empty file has none, and renders the same as
\* one with nothing but a header: no rows, and none left out.
ParseTable(n, limit) == Table(TRUE, Least(n, limit), n, n)

\* expandPDF: the body, the images to keep, a table as its extractor reports it: perhaps a sample,
\* without a header or without the total (0).  keep_as_image of the PDF itself is not looked at.
ExpandPDF(charts, mode, header, n, total) ==
  <<Input("pdf", FALSE, mode, NoTable)>>
    \o [i \in 1..charts |-> Input("image", TRUE, mode, NoTable)]
    \o <<Input("table", FALSE, mode, Table(header, n, total, IF total = 0 THEN n ELSE total))>>

\* BuildInputs, file by file: detectKind, loadPayload.  Whatever its kind, a file may have
\* keep_as_image set.  A PDF that is not a local file is not expanded: the fuser will extract
\* its text and tables, and no charts.
ParseFile ==
  /\ fusion = "parsing" /\ files < MaxFiles /\ files' = files + 1
  /\ \E mode \in Modes, keep \in BOOLEAN :
       \/ \E kind \in {"text", "audio", "pdf", "image"} :
            inputs' = Append(inputs, Input(kind, keep, mode, NoTable))
       \/ \E n \in 0..MaxTableSize, limit \in 1..MaxTableSize :
            inputs' = Append(inputs, Input("table", keep, mode, ParseTable(n, limit)))
       \/ \E charts \in 0..1, header \in BOOLEAN, n \in 1..MaxTableSize :
            \E total \in {0} \cup n..MaxTableSize :
              inputs' = inputs \o ExpandPDF(charts, mode, header, n, total)
  /\ UNCHANGED <<ocr, blocks, trace, parts, fusion>>

\* PrepareReportContext: images whose hint or metadata names a critical chart are kept as such.
MarkCharts ==
  /\ fusion = "parsing" /\ inputs # <<>> /\ fusion' = "fusing"
  /\ \E critical \in SUBSET {i \in DOMAIN inputs : inputs[i].kind = "image"} :
       inputs' = [i \in DOMAIN inputs |-> [inputs[i] EXCEPT !.keep = @ \/ i \in critical]]
  /\ UNCHANGED <<ocr, files, blocks, trace, parts>>

\* A file, an extractor or the context fails: the request has no result.
FusionFails ==
  /\ fusion \in {"parsing", "fusing"} /\ fusion' = "failed"
  /\ UNCHANGED <<ocr, files, inputs, blocks, trace, parts>>

ShouldTryOCRAlways(in) == in.mode = "ocr" \/ (in.mode = "auto" /\ ocr)  \* mutant: kept ones too
ShouldTryOCR(in) == in.mode = "ocr" \/ (in.mode = "auto" /\ ocr /\ ~in.keep)
Block(kind, type) == [kind |-> kind, type |-> type, rows |-> 0, marked |-> FALSE]
\* tableToMarkdown: "[empty table]" without a header; a sample says so when it knows of more rows.
Markdown(table) ==
  LET shown == Least(table.rows, MaxRows)
  IN IF table.header THEN [Block("table", "text") EXCEPT !.rows = shown, !.marked = table.total > shown]
     ELSE Block("table", "text")

\* fuseOne sends to fuseImage what is to be kept as an image, whatever its kind.
Viewed(in) == in.keep \/ in.kind = "image"
FusedBlock(in, read) ==
  CASE Viewed(in) -> IF read THEN Block(in.kind, "text") ELSE Block("image", "image_ref")
    [] ~Viewed(in) /\ in.kind = "table" -> Markdown(in.table)
    [] OTHER -> Block(in.kind, "text")

\* One step of Fuse; OCR that fails or finds nothing falls back to the image.
FuseInput ==
  /\ fusion = "fusing" /\ Len(blocks) < Len(inputs)
  /\ LET in == inputs[Len(blocks) + 1]
     IN \E read \in (IF Viewed(in) /\ ShouldTryOCR(in) /\ ocr THEN BOOLEAN ELSE {FALSE}) :
          /\ blocks' = Append(blocks, FusedBlock(in, read))
          /\ trace' = Append(trace,
               [kind |-> in.kind, tokens |-> IF Viewed(in) /\ ~read THEN ImageTokens ELSE 1,
                warning |-> CASE Viewed(in) /\ ShouldTryOCR(in) /\ ~read -> "ocr_failed"
                              [] ~Viewed(in) /\ in.kind = "audio" -> "stt_not_configured"
                              [] OTHER -> ""])
  /\ UNCHANGED <<ocr, files, inputs, parts, fusion>>
FuseDone ==
  /\ fusion = "fusing" /\ Len(blocks) = Len(inputs) /\ fusion' = "rendering"
  /\ UNCHANGED <<ocr, files, inputs, blocks, trace, parts>>

\* buildPreparedReportToolResult: an image that cannot be read, or a kept file that is none,
\* leaves a note.
Render ==
  /\ fusion = "rendering" /\ fusion' = "done"
  /\ LET images == {i \in DOMAIN blocks : blocks[i].type = "image_ref"}
     IN \E readable \in SUBSET images :
          parts' = {[block |-> i, part |-> IF i \in readable THEN "image" ELSE "note"] : i \in images}
  /\ UNCHANGED <<ocr, files, inputs, blocks, trace>>

Next == ParseFile \/ MarkCharts \/ FusionFails \/ FuseInput \/ FuseDone \/ Render
Spec == Init /\ [][Next]_fusionVars

-----------------------------------------------------------------------------
TypeOK ==
  /\ Len(trace) = Len(blocks) /\ Len(blocks) <= Len(inputs) /\ files \in 0..MaxFiles
  /\ fusion \in {"parsing", "fusing", "rendering", "done", "failed"}

\* A table that nobody asked to keep as an image, with columns and a total: so is each one of
\* parseCSVLike that has rows, and one of a PDF if its extractor reports both.
Tabulated(in) ==
  in.kind = "table" /\ ~in.keep /\ in.table.header /\ in.table.total > 0

\* What matters in a file reaches the model.  What is kept as an image, whatever kind of file it
\* is, is a picture or a note that it could not be read, unless OCR was asked for by name; every
\* other picture is one too unless OCR read it.  A table rendered as such says when rows of it are
\* left out, by the parser or by the fuser.  And a block is of the kind of its file, or is the
\* picture that was asked for instead: then its rows are gone and the kind tells it.
NothingSilentlyDropped ==
  fusion = "done" => \A i \in DOMAIN inputs :
    /\ inputs[i].keep /\ inputs[i].mode # "ocr" => \E p \in parts : p.block = i
    /\ blocks[i].type = "image_ref" => \E p \in parts : p.block = i
    /\ Tabulated(inputs[i]) /\ blocks[i].rows < inputs[i].table.size => blocks[i].marked
    /\ blocks[i].kind # inputs[i].kind => inputs[i].keep /\ blocks[i].type = "image_ref"
=============================================================================
