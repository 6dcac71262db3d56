------------------------------- MODULE MCSplice -------------------------------
(* Two flags, of which the second takes over the settings of the first.    *)
(* And three, of which two have a value with the same anchor and the third *)
(* an alias, of the last before it: with MCAnchoredTwice for FirstTexts,   *)
(* deleting the second flag violates the same property.                    *)
EXTENDS YamlSplice

CONSTANTS f1, f2, f3, v, w, n

MCSharedTexts ==
    {<<WithAnchor(KeyLine(f1), n), Setting("variations", v), Setting("metadata", 0),
       KeyLine(f2), Alias("<<", n), Setting("metadata", 0)>>}

MCAnchoredTwice ==
    {<<KeyLine(f1), WithAnchor(Setting("variations", v), n), Setting("metadata", 0),
       KeyLine(f2), WithAnchor(Setting("variations", w), n), Setting("metadata", 0),
       KeyLine(f3), Alias("variations", n), Setting("metadata", 0)>>}
=============================================================================
