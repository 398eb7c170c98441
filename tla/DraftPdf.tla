------------------------------ MODULE DraftPdf ------------------------------
(***************************************************************************)
(* What finalize makes of a page: the TipTap document in content_json is   *)
(* turned into the document definition that pdfmake prints.                *)
(*                                                                         *)
(* A text is the sequence of its words, layout (margins, sizes, colours,   *)
(* header and footer) is left out.  The result is checked against what a   *)
(* reader of the editor sees: the words in order, each with its look and   *)
(* the list items it stands in.                                            *)
(***************************************************************************)
EXTENDS Integers, Sequences, SequencesExt

CONSTANTS
    Contents,   \* content_json of the pages of this instance
    BLANK       \* undefined, null

VARIABLES
    contentJson,   \* of the page that is finalized
    content        \* of the document definition

pdfVars == <<contentJson, content>>

-----------------------------------------------------------------------------
(* A node of the editor's tree; an inline or a block of the definition.    *)

AstMark(type, href) == [type |-> type, href |-> href]
AstNode(type, text, marks, nodes) ==
    [type |-> type, text |-> text, marks |-> marks, content |-> nodes]

Inline(text) == [kind |-> "inline", text |-> text, look |-> {}, decoration |-> {}, items |-> <<>>]
Block(kind, look, items) ==
    [kind |-> kind, text |-> <<>>, look |-> look, decoration |-> {}, items |-> items]
Array(items) == Block("array", {}, items)

NodesOf(node) == IF node.content = BLANK THEN <<>> ELSE node.content

(* [OMA-W005-T002] the schemes a link may have *)
AllowedLink(href) == href \in {"http", "https", "mailto"}

(* One mark; the last link, strike or underline decides the decoration. *)
WithMark(inline, mark) ==
    CASE mark.type = "bold"   -> [inline EXCEPT !.look = @ \cup {"bold"}]
      [] mark.type = "italic" -> [inline EXCEPT !.look = @ \cup {"italics"}]
      [] mark.type = "code"   -> [inline EXCEPT !.look = @ \cup {"code"}]
      [] mark.type = "strike" ->
            [inline EXCEPT !.decoration = {"lineThrough"} \cup
                               (IF @ = {"underline"} THEN @ ELSE {})]
      [] mark.type = "underline" ->
            [inline EXCEPT !.decoration = {"underline"} \cup
                               (IF @ = {"lineThrough"} THEN @ ELSE {})]
      [] mark.type = "link" /\ mark.href # BLANK ->
            [inline EXCEPT !.look = @ \cup {"color"} \cup
                                        (IF AllowedLink(mark.href) THEN {"link"} ELSE {}),
                           !.decoration = {"underline"}]
      [] OTHER -> inline

(* A hard break or an image within a line comes out as an empty text. *)
mapAstInline(node) ==
    IF node.type # "text" THEN Inline(node.text)
    ELSE FoldLeft(WithMark, Inline(node.text), node.marks)

(* Mutant: of a list item only its first block. *)
OneItemFirst(contents) == IF contents = <<>> THEN Array(<<>>) ELSE contents[1]

OneItem(contents) == IF Len(contents) = 1 THEN contents[1] ELSE Array(contents)

RECURSIVE mapAstNode(_)
mapAstNode(node) ==
    LET children == SelectSeq([i \in DOMAIN NodesOf(node) |-> mapAstNode(NodesOf(node)[i])],
                              LAMBDA child : child # BLANK)
        inlines == [i \in DOMAIN NodesOf(node) |-> mapAstInline(NodesOf(node)[i])]
    IN CASE node.type = "doc" -> Array(IF children = <<>> THEN <<Inline(<<>>)>> ELSE children)
         [] node.type = "heading"     -> Block("text", {"bold"}, inlines)
         [] node.type = "paragraph"   -> Block("text", {}, inlines)
         [] node.type = "bulletList"  -> Block("ul", {}, children)
         [] node.type = "orderedList" -> Block("ol", {}, children)
         [] node.type = "listItem"    -> OneItem(children)
         [] node.type = "blockquote"  -> Block("stack", {"italics"}, children)
         [] node.type = "codeBlock"   ->
               Block("text", {"code"},
                     <<Inline(FlattenSeq([i \in DOMAIN inlines |-> NodesOf(node)[i].text]))>>)
         [] node.type = "horizontalRule" -> Block("canvas", {}, <<>>)
         [] node.type = "text"        -> mapAstInline(node)
         [] OTHER -> IF node.content = BLANK THEN BLANK ELSE Array(children)

(* Arrays within arrays are taken apart at the top only. *)
RECURSIVE flatten(_)
flatten(val) ==
    IF val.kind # "array" THEN <<val>>
    ELSE FlattenSeq([i \in DOMAIN val.items |-> flatten(val.items[i])])

(* A string that is no JSON, or a JSON value that is no object, is its own  *)
(* text; a tree may come as an object or as its JSON.                       *)
mapContentJsonToPdfContent(json) ==
    CASE json = BLANK         -> <<Inline(<<>>)>>
      [] json.type = "string" -> <<Inline(json.text)>>
      [] OTHER -> LET mapped == mapAstNode(json)
                  IN IF mapped = BLANK THEN <<Inline(<<>>)>> ELSE flatten(mapped)

PdfInit == contentJson \in Contents /\ content = BLANK

compilePdf ==
    /\ content = BLANK
    /\ content' = mapContentJsonToPdfContent(contentJson)
    /\ UNCHANGED contentJson

PdfSpec == PdfInit /\ [][compilePdf]_pdfVars

-----------------------------------------------------------------------------
(* What a reader sees.  A word is read with its look and the places of the  *)
(* list items around it.                                                   *)

Seen(text, look, place) ==
    [i \in DOMAIN text |-> [word |-> text[i], look |-> look, place |-> place]]

(* ... in the document definition *)
RECURSIVE Printed(_, _, _)
Printed(out, look, place) ==
    LET styled == look \cup out.look \cup out.decoration
    IN Seen(IF out.kind = "canvas" THEN <<"horizontalRule">> ELSE out.text, styled, place) \o
       FlattenSeq([i \in DOMAIN out.items |->
           Printed(out.items[i], styled,
                   IF out.kind \in {"ul", "ol"} THEN Append(place, i) ELSE place)])

(* ... in the editor, where a new line, an image and a rule show as well *)
Visible == {"hardBreak", "image", "horizontalRule"}
MarkLook(mark) ==
    CASE mark.type = "italic" -> {"italics"}
      [] mark.type = "strike" -> {"lineThrough"}
      [] mark.type = "link"   -> IF mark.href = BLANK THEN {}
                                 ELSE {"underline", "color"} \cup
                                      (IF AllowedLink(mark.href) THEN {"link"} ELSE {})
      [] OTHER -> {mark.type}
NodeLook(node) ==
    CASE node.type = "heading"    -> {"bold"}
      [] node.type = "blockquote" -> {"italics"}
      [] node.type = "codeBlock"  -> {"code"}
      [] OTHER                    -> UNION {MarkLook(mark) : mark \in ToSet(node.marks)}

RECURSIVE Edited(_, _, _)
Edited(node, look, place) ==
    LET styled == look \cup NodeLook(node)
    IN Seen(IF node.type \in Visible THEN <<node.type>> ELSE node.text, styled, place) \o
       FlattenSeq([i \in DOMAIN NodesOf(node) |->
           Edited(NodesOf(node)[i], styled,
                  IF node.type \in {"bulletList", "orderedList"}
                  THEN Append(place, i) ELSE place)])

SameToReader(json) == Printed(Array(content), {}, <<>>) = Edited(json, {}, <<>>)

(* What mapAstInline and mapAstNode have no answer to. *)
RECURSIVE Plain(_)
Plain(node) ==
    /\ node.type \notin {"hardBreak", "image"}
    /\ ~({"lineThrough", "color"} \subseteq NodeLook(node))
    /\ \A child \in ToSet(NodesOf(node)) : Plain(child)

(* The PDF looks as the editor does: the words of the document and its       *)
(* rules, each once and in order, in the list items they stood in, bold,   *)
(* italic, code, underlined, struck out and linked as they were, however   *)
(* blocks are nested and marks combined.  It does not for a document with  *)
(* a new line within a paragraph, an image, or a text struck out and       *)
(* linked, and nothing is said of those.                                   *)
PdfShowsPlainDocument ==
    content # BLANK /\ contentJson # BLANK =>
        (Plain(contentJson) => SameToReader(contentJson))
=============================================================================
