----------------------------- MODULE MCDraftPdf -----------------------------
(* Documents for TLC: one line under every combination of marks in every    *)
(* order, and trees of lines four levels deep.                              *)
EXTENDS DraftPdf, FiniteSets

Line(inlines) == AstNode("paragraph", <<>>, <<>>, inlines)
Text(word) == AstNode("text", <<word>>, <<>>, BLANK)
Doc(blocks) == AstNode("doc", <<>>, <<>>, blocks)

(* ProseMirror gives a text each mark once. *)
SomeMarks == {AstMark(type, BLANK) : type \in {"bold", "italic", "strike", "underline", "code"}}
                 \cup {AstMark("link", href) : href \in {"mailto", "other", BLANK}}
Marked == {order \in BoundedSeq(SomeMarks, 3) :
               \A i, j \in DOMAIN order : i # j => order[i].type # order[j].type}
MarkedDocs == {Doc(<<Line(<<AstNode("text", <<"a">>, marks, BLANK), Text("b")>>)>>) :
                   marks \in Marked}

Leaves ==
    {Line(<<>>), Line(<<Text("a"), Text("b")>>),
     Line(<<Text("a"), AstNode("hardBreak", <<>>, <<>>, BLANK), Text("b")>>),
     AstNode("heading", <<>>, <<>>, <<Text("c")>>),
     AstNode("codeBlock", <<>>, <<>>, <<Text("a"), Text("d")>>),
     AstNode("horizontalRule", <<>>, <<>>, BLANK), AstNode("image", <<>>, <<>>, BLANK)}
Around(blocks) ==
    {AstNode(type, <<>>, <<>>, blocks) : type \in {"blockquote", "table"}}
        \cup {AstNode(type, <<>>, <<>>, <<AstNode("listItem", <<>>, <<>>, blocks),
                                         AstNode("listItem", <<>>, <<>>, <<Line(<<Text("e")>>)>>)>>) :
                  type \in {"bulletList", "orderedList"}}
Nested == UNION {Around(blocks) : blocks \in BoundedSeq(Leaves, 2)}
Deeper == UNION {Around(<<block>>) \cup Around(<<Line(<<Text("f")>>), block>>) : block \in Nested}
TreeDocs == {Doc(blocks) : blocks \in BoundedSeq(Leaves, 2)}
                \cup {Doc(<<block>>) : block \in Nested \cup Deeper}
                \cup {Doc(<<block, leaf>>) : block \in Nested, leaf \in Leaves}

SomeContents ==
    {BLANK, AstNode("string", <<"a", "b">>, <<>>, BLANK), AstNode("unknown", <<>>, <<>>, BLANK)}
        \cup MarkedDocs \cup TreeDocs
=============================================================================
