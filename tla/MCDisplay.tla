----------------------------- MODULE MCDisplay ------------------------------
(***************************************************************************)
(* Display on a small instance: the constants that a .cfg cannot hold.      *)
(***************************************************************************)
EXTENDS Display

SmallAndLarge == {<<80, 24>>, <<120, 40>>}

RowOrColumn == {<<1, 2>>, <<2, 1>>}

Scalar(text) == [kind |-> "scalar", text |-> text]
Cell(text, face, width, uri) == [text |-> text, face |-> face, width |-> width, uri |-> uri]

\* A wide cell and its continuation, two styles, a grapheme, two links, and a blank.
Cells ==
  {Cell(Scalar("a"), "bold", "narrow", None), Cell(Scalar("a"), "bold", "wide", None),
   Cell([kind |-> "empty", text |-> ""], "bold", "continuation", None),
   Cell([kind |-> "grapheme", text |-> "e"], "default", "narrow", "u"),
   Cell(Scalar("a"), "default", "narrow", "v"),
   Cell([kind |-> "empty", text |-> ""], "default", "narrow", None)}

Fragment(text, means, value) == [bytes |-> text, means |-> means, value |-> value]
Csi(text) == <<"esc", "[">> \o text

Fragments ==
  {Fragment(<<"a">>, "text", 0),
   Fragment(Csi(<<"6", "n">>), "cursor", 0), Fragment(Csi(<<"?", "6", "n">>), "extended", 0),
   Fragment(Csi(<<"6", "esc", "[", "5", "n">>), "status", 0),
   Fragment(Csi(<<"c">>), "attributes", 0), Fragment(Csi(<<"2", "c">>), "nothing", 0),
   Fragment(Csi(<<"?", "u">>), "flags", 0), Fragment(Csi(<<">", "1", "u">>), "push", 1),
   Fragment(Csi(<<"<", "u">>), "pop", 0), Fragment(Csi(<<"=", "2", ";", "2", "u">>), "add", 2),
   Fragment(Csi(<<"4", "sp", "q">>), "style", 4),
   Fragment(Csi(<<"?", "1", "0", "0", "7", "h">>), "scroll", TRUE),
   Fragment(<<"esc", "]", "1", "0", ";", "?", "bel">>, "color", "0"),
   Fragment(<<"esc", "]", "1", "1", ";", "?", "esc", "\\">>, "color", "1"),
   Fragment(<<"esc", "]", "T", "x", "bel">>, "title", "x"),
   Fragment(<<"esc", "]", "T", "y", "esc", "\\">>, "title", "y")}

PairsOfFragments == {<<f, g>> : f, g \in Fragments}
=============================================================================
