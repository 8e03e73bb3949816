------------------------------ MODULE XmlExport ------------------------------
(***************************************************************************)
(* hwloc's XML export without libxml (src/3rdparty/hwloc/src/             *)
(* topology-xml-nolibxml.c).  A pass (hwloc___nolibxml_prepare_export)    *)
(* prints the document into a fixed buffer through a stack of export      *)
(* states: every print is an snprintf that may be truncated, after which  *)
(* update_buffer counts the full length in "written" but moves the buffer *)
(* only over what fit, keeping room for the NUL.  A child state copies    *)
(* its parent's buffer position and gives it back at end_object.          *)
(* export_buffer runs a pass in a 16384-byte buffer and, when the         *)
(* document needs more, a second one in a buffer of the size the first    *)
(* one counted; export_file writes that buffer to a file.                 *)
(*                                                                         *)
(* The caller, hwloc__xml_export_topology (not in the repository), walks  *)
(* the topology: new_child, the attributes, then the content or the       *)
(* children, then end_object.  The topology is a tree chosen from Docs.   *)
(* A character is a one-character string; the XML declaration and        *)
(* DOCTYPE lines are abstracted to a short header naming the DTD.         *)
(***************************************************************************)
EXTENDS Integers, Sequences

CONSTANTS
  Docs,       \* the topologies that can be exported (trees of Node records)
  BufferLen,  \* the first pass's buffer size (16384 in the code)
  SizeT,      \* 2^w: size_t arithmetic is modulo SizeT
  NULL        \* the NULL pointer escape_string returns

VARIABLES
  tree,     \* the topology being exported
  kind,     \* "v1", "v2" (the V1 flag) or "diff", "diffref" (refname NULL or not)
  phase,    \* "alloc", "pass", "grow", "exported", "file", "failed"
  pass,     \* which call of prepare_export is running (1 or 2)
  buflen,   \* the size of the buffer the pass prints into
  mem,      \* the buffer's bytes up to the last NUL printed (a string)
  term,     \* a NUL follows mem
  frames,   \* the export states, outermost (prepare_export's "state") first
  res,      \* what the last pass returned: written + 1
  out       \* what export_file wrote: "none", "err" or the text

vars == <<tree, kind, phase, pass, buflen, mem, term, frames, res, out>>

Node(name, props, content, kids) ==
  [name |-> name, props |-> props, content |-> content, kids |-> kids]

\* The concatenation of a sequence of strings.
RECURSIVE Concat(_)
Concat(s) == IF s = << >> THEN "" ELSE Head(s) \o Concat(Tail(s))

Spaces(n) == Concat([i \in 1 .. n |-> " "])

\* The XML declaration and DOCTYPE: hwloc.dtd, hwloc2.dtd or hwloc2-diff.dtd.
Header(k) == CASE k = "v1" -> "<?1>\n" [] k = "v2" -> "<?2>\n" [] OTHER -> "<?d>\n"

\* The attribute prepare_export_diff adds when refname is not NULL.
RefName == <<"refname", <<"r", "&">>>>

\* The attribute prepare_export adds to the topology element.
Version == <<"version", <<"2">>>>

-----------------------------------------------------------------------------
\* hwloc__nolibxml_export_escape_string, by its strcspn loop.
Specials == {"\n", "\r", "\t", "\"", "<", ">", "&"}

RECURSIVE Cspn(_)
Cspn(s) == IF s = << >> \/ Head(s) \in Specials THEN 0 ELSE 1 + Cspn(Tail(s))

Repl(c) ==
  CASE c = "\n" -> "&#10;" [] c = "\r" -> "&#13;" [] c = "\t" -> "&#9;"
    [] c = "\"" -> "&quot;" [] c = "<" -> "&lt;" [] c = ">" -> "&gt;"
    [] c = "&" -> "&amp;"

\* The while loop: replace *src, then copy the run up to the next special.
RECURSIVE EscapeLoop(_)
EscapeLoop(src) ==
  IF src = << >> THEN ""
  ELSE LET rest == Tail(src)
           sub == Cspn(rest)
       IN Repl(Head(src)) \o Concat(SubSeq(rest, 1, sub))
            \o EscapeLoop(SubSeq(rest, sub + 1, Len(rest)))

\* Mutant: only the first special character is replaced.
EscapeStringOnce(src) ==
  LET sub == Cspn(src) IN
  IF sub = Len(src) THEN NULL
  ELSE Concat(SubSeq(src, 1, sub)) \o Repl(src[sub + 1])
         \o Concat(SubSeq(src, sub + 2, Len(src)))

\* NULL when nothing needs escaping, else the escaped copy.
EscapeString(src) ==
  LET sub == Cspn(src) IN
  IF sub = Len(src) THEN NULL
  ELSE Concat(SubSeq(src, 1, sub)) \o EscapeLoop(SubSeq(src, sub + 1, Len(src)))

-----------------------------------------------------------------------------
\* Mutant: the buffer moves over the full length even when truncated.
UpdateBufferUnclamped(f, r) ==
  [f EXCEPT !.written = @ + r, !.pos = @ + r, !.remaining = (@ - r) % SizeT]

\* hwloc__nolibxml_export_update_buffer(ndata, res) for res >= 0.
UpdateBuffer(f, r) ==
  LET adv == IF r >= f.remaining
             THEN IF f.remaining > 0 THEN f.remaining - 1 ELSE 0
             ELSE r
  IN [f EXCEPT !.written = @ + r, !.pos = @ + adv, !.remaining = @ - adv]

\* The bytes before position p: mem, then bytes nobody printed ("?").
Before(m, p) == IF p <= Len(m) THEN SubSeq(m, 1, p) ELSE m \o Concat([i \in 1 .. p - Len(m) |-> "?"])

\* hwloc_snprintf(f.buffer, f.remaining, s) then update_buffer: at most
\* remaining-1 characters and a NUL.  Result: <<mem, term, state>>.
Snprintf(m, t, f, s) ==
  LET n == IF f.remaining = 0 THEN 0
           ELSE IF Len(s) < f.remaining THEN Len(s) ELSE f.remaining - 1
  IN IF f.remaining = 0 THEN <<m, t, UpdateBuffer(f, Len(s))>>
     ELSE <<Before(m, f.pos) \o SubSeq(s, 1, n), TRUE, UpdateBuffer(f, Len(s))>>

PassResult(f) == f.written + 1

-----------------------------------------------------------------------------
\* An export state: the code's fields, and where the caller is in the node
\* it belongs to (attributes np and children nk done, content ct printed).
State(node, written, pos, remaining, indent, nrc) ==
  [written |-> written, pos |-> pos, remaining |-> remaining, indent |-> indent,
   nr_children |-> nrc, has_content |-> FALSE,
   node |-> node, np |-> 0, nk |-> 0, ct |-> FALSE]

\* The element a pass opens: prepare_export opens "topology" and gives it
\* the version attribute unless exporting v1; prepare_export_diff opens
\* "topologydiff" with the refname attribute when there is one.  Its
\* children are what hwloc__xml_export_topology / _diff print.
RootOf(t, k) ==
  CASE k = "v1" -> t
    [] k = "v2" -> [t EXCEPT !.props = <<Version>> \o @]
    [] k = "diff" -> [t EXCEPT !.name = "d"]
    [] k = "diffref" -> [t EXCEPT !.name = "d", !.props = <<RefName>> \o @]

\* The start of hwloc___nolibxml_prepare_export(buffer, len) and of
\* hwloc___nolibxml_prepare_export_diff: the outer state (nr_children = 1,
\* so no ">" closes a previous tag), the header.
StartPass(len) ==
  LET top == Node("", << >>, "", <<RootOf(tree, kind)>>)
      w == Snprintf("", FALSE, State(top, 0, 0, len, 0, 1), Header(kind))
  IN /\ mem' = w[1] /\ term' = w[2] /\ frames' = <<w[3]>>

Top == frames[Len(frames)]

\* The topology exports (export_buffer, export_file) and the diff exports
\* (export_diff_buffer, export_diff_file).
TopoKinds == {"v1", "v2"}
DiffKinds == {"diff", "diffref"}

Init ==
  /\ tree \in Docs /\ kind \in TopoKinds \cup DiffKinds
  /\ phase = "alloc" /\ pass = 0 /\ buflen = 0
  /\ mem = "" /\ term = FALSE /\ frames = << >> /\ res = 0 /\ out = "none"

\* malloc(16384), which may fail (-1), then the first pass.  The code of
\* export_buffer and of export_diff_buffer is the same but for the pass.
Malloc(ok) ==
  /\ phase = "alloc"
  /\ phase' = IF ok THEN "pass" ELSE "failed"
  /\ IF ok THEN pass' = 1 /\ buflen' = BufferLen /\ StartPass(BufferLen)
     ELSE UNCHANGED <<pass, buflen, mem, term, frames>>
  /\ UNCHANGED <<tree, kind, res, out>>

\* hwloc__nolibxml_export_new_child(parent, child, name).
NewChild ==
  /\ phase = "pass"
  /\ LET p == Top
         k == p.node.kids[p.nk + 1]
         w1 == IF p.nr_children = 0 THEN Snprintf(mem, term, p, ">\n")
               ELSE <<mem, term, p>>
         p2 == [w1[3] EXCEPT !.nr_children = @ + 1, !.nk = @ + 1]
         c == State(k, p2.written, p2.pos, p2.remaining, p2.indent + 2, 0)
         w2 == Snprintf(w1[1], w1[2], c, Spaces(p.indent) \o "<" \o k.name)
     IN /\ p.np = Len(p.node.props) /\ p.nk < Len(p.node.kids)
        /\ mem' = w2[1] /\ term' = w2[2]
        /\ frames' = Append([frames EXCEPT ![Len(frames)] = p2], w2[3])
  /\ UNCHANGED <<tree, kind, phase, pass, buflen, res, out>>

\* hwloc__nolibxml_export_new_prop(state, name, value).
NewProp ==
  /\ phase = "pass"
  /\ LET f == Top
         pr == f.node.props[f.np + 1]
         esc == EscapeString(pr[2])
         w == Snprintf(mem, term, f, " " \o pr[1] \o "=\""
                      \o (IF esc = NULL THEN Concat(pr[2]) ELSE esc) \o "\"")
     IN /\ Len(frames) > 1 /\ f.np < Len(f.node.props)
        /\ mem' = w[1] /\ term' = w[2]
        /\ frames' = [frames EXCEPT ![Len(frames)] = [w[3] EXCEPT !.np = @ + 1]]
  /\ UNCHANGED <<tree, kind, phase, pass, buflen, res, out>>

\* hwloc__nolibxml_export_add_content(state, buffer, length).
AddContent ==
  /\ phase = "pass"
  /\ LET f == Top
         w1 == IF ~f.has_content THEN Snprintf(mem, term, f, ">") ELSE <<mem, term, f>>
         w2 == Snprintf(w1[1], w1[2], [w1[3] EXCEPT !.has_content = TRUE], f.node.content)
     IN /\ Len(frames) > 1 /\ f.np = Len(f.node.props)
        /\ f.node.content # "" /\ ~f.ct
        /\ mem' = w2[1] /\ term' = w2[2]
        /\ frames' = [frames EXCEPT ![Len(frames)] = [w2[3] EXCEPT !.ct = TRUE]]
  /\ UNCHANGED <<tree, kind, phase, pass, buflen, res, out>>

\* hwloc__nolibxml_export_end_object(state, name): close the element and
\* hand the buffer position back to the parent.
EndObject ==
  /\ phase = "pass"
  /\ LET f == Top
         p == frames[Len(frames) - 1]
         n == f.node.name
         text == IF f.has_content THEN "</" \o n \o ">\n"
                 ELSE IF f.nr_children > 0 THEN Spaces(p.indent) \o "</" \o n \o ">\n"
                 ELSE "/>\n"
         w == Snprintf(mem, term, f, text)
     IN /\ Len(frames) > 1 /\ f.np = Len(f.node.props)
        /\ f.nk = Len(f.node.kids) /\ (f.node.content = "" \/ f.ct)
        /\ mem' = w[1] /\ term' = w[2]
        /\ frames' = [SubSeq(frames, 1, Len(frames) - 1) EXCEPT ![Len(frames) - 1] =
                        [p EXCEPT !.written = w[3].written, !.pos = w[3].pos,
                                  !.remaining = w[3].remaining]]
  /\ UNCHANGED <<tree, kind, phase, pass, buflen, res, out>>

\* prepare_export returns written + 1; export_buffer grows the buffer when
\* the first pass needed more than it had.
EndPass ==
  /\ phase = "pass" /\ Len(frames) = 1 /\ Top.nk = 1
  /\ res' = PassResult(Top)
  /\ phase' = IF pass = 1 /\ res' > buflen THEN "grow" ELSE "exported"
  /\ UNCHANGED <<tree, kind, pass, buflen, mem, term, frames, out>>

\* realloc(buffer, res): on failure free and return -1; else the second
\* pass into the larger buffer.
Realloc(ok) ==
  /\ phase = "grow"
  /\ phase' = IF ok THEN "pass" ELSE "failed"
  /\ IF ok THEN pass' = 2 /\ buflen' = res /\ StartPass(res)
     ELSE UNCHANGED <<pass, buflen, mem, term, frames>>
  /\ UNCHANGED <<tree, kind, res, out>>

\* fopen (or stdout), fwrite of bufferlen-1 bytes; a failed open or a
\* short write returns -1.  export_file and export_diff_file share it.
WriteFile(ok) ==
  /\ phase = "exported"
  /\ phase' = "file"
  /\ out' = IF ok THEN Before(mem, res - 1) ELSE "err"
  /\ UNCHANGED <<tree, kind, pass, buflen, mem, term, frames, res>>

\* hwloc_nolibxml_export_buffer: the first pass, and the second one when
\* the document needs more than 16384 bytes.
ExportBuffer(ok) == kind \in TopoKinds /\ Malloc(ok)
ExportBufferGrow(ok) == kind \in TopoKinds /\ Realloc(ok)

\* hwloc_nolibxml_export_diff_buffer: the same, with prepare_export_diff.
ExportDiffBuffer(ok) == kind \in DiffKinds /\ Malloc(ok)
ExportDiffBufferGrow(ok) == kind \in DiffKinds /\ Realloc(ok)

\* hwloc_nolibxml_export_file and export_diff_file: the buffer the export
\* returned, written out.
ExportFile(ok) == kind \in TopoKinds /\ WriteFile(ok)
ExportDiffFile(ok) == kind \in DiffKinds /\ WriteFile(ok)

Next ==
  \/ \E ok \in BOOLEAN :
       \/ ExportBuffer(ok) \/ ExportBufferGrow(ok) \/ ExportFile(ok)
       \/ ExportDiffBuffer(ok) \/ ExportDiffBufferGrow(ok) \/ ExportDiffFile(ok)
  \/ NewChild \/ NewProp \/ AddContent \/ EndObject \/ EndPass

Spec == Init /\ [][Next]_vars

-----------------------------------------------------------------------------
\* The reference: XML attribute escaping, character by character.
Entity == [c \in Specials |->
  CASE c = "&" -> "&amp;" [] c = "<" -> "&lt;" [] c = ">" -> "&gt;"
    [] c = "\"" -> "&quot;" [] c = "\n" -> "&#10;" [] c = "\r" -> "&#13;"
    [] c = "\t" -> "&#9;"]

EscapeRef(v) == Concat([i \in DOMAIN v |-> IF v[i] \in Specials THEN Entity[v[i]] ELSE v[i]])

\* The reference: the document a tree is, indented by two per level.
RECURSIVE Render(_, _)
Render(n, ind) ==
  Spaces(ind) \o "<" \o n.name
  \o Concat([i \in DOMAIN n.props |-> " " \o n.props[i][1] \o "=\"" \o EscapeRef(n.props[i][2]) \o "\""])
  \o (CASE n.content # "" -> ">" \o n.content \o "</" \o n.name \o ">\n"
        [] n.kids # << >> -> ">\n" \o Concat([i \in DOMAIN n.kids |-> Render(n.kids[i], ind + 2)])
                             \o Spaces(ind) \o "</" \o n.name \o ">\n"
        [] OTHER -> "/>\n")

Document == Header(kind) \o Render(RootOf(tree, kind), 0)

BufferWithinAlloc == Len(mem) + (IF term THEN 1 ELSE 0) <= buflen
=============================================================================
