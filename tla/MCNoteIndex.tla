---------------------------- MODULE MCNoteIndex -----------------------------
(* Two notes that link to each other and to themselves: by the wiki link   *)
(* [[foo]], which matches one of them by its directory and the other one   *)
(* by its name, by a Markdown link to b/foo, a URL, and the anchor [[#h]]. *)
EXTENDS NoteIndex

MCPath == {"foo/ab.md", "b/foo.md"}
MCLen == [p \in MCPath |-> IF p = "foo/ab.md" THEN 9 ELSE 8]
MCHref == {"foo", "b/foo", "https:", "#h"}
MCRelMatch == [h \in MCHref |->
  CASE h = "foo" -> {"foo/ab.md"} [] h = "b/foo" -> {"b/foo.md"} [] OTHER -> {}]
MCNameMatch == [h \in MCHref |->
  CASE h = "foo" -> {"b/foo.md"} [] h = "#h" -> MCPath [] OTHER -> {}]
MCPartMatch == [h \in MCHref |->
  CASE h \in {"foo", "#h"} -> MCPath [] h = "b/foo" -> {"b/foo.md"} [] OTHER -> {}]
MCContent ==
  {[hrefs |-> {"foo"}, tags |-> {}], [hrefs |-> {"b/foo", "https:", "#h"}, tags |-> {"t"}]}

\* Every note has one link, with which only one of the notes can be meant, or
\* an anchor.
MCOneLink == {[hrefs |-> {"b/foo"}, tags |-> {}], [hrefs |-> {"#h"}, tags |-> {}]}
=============================================================================
