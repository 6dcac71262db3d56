------------------------------ MODULE YamlSplice ------------------------------
(***************************************************************************)
(* The text of one flag file, and what Studio's edits do to it             *)
(* (internal/goff/yamldoc.go, and Serialize, Remove and RenameKey of       *)
(* adapter.go).                                                            *)
(*                                                                         *)
(* A file is a sequence of lines: the key of a flag, its settings, one per *)
(* line, and blank lines and comments between two flags.  A value may have *)
(* an anchor, `&n`, or be an alias, `*n`, of the last value before it that *)
(* has; a flag as a whole may have an anchor, and another flag take over   *)
(* its settings, `<<: *n`.  Parsing and rendering are yaml.v3's; what is   *)
(* modelled is which lines an edit puts where, and which values it will    *)
(* not touch.                                                              *)
(***************************************************************************)
EXTENDS Integers, SequencesExt

CONSTANTS
    FlagKeys,
    FlagValues,    \* values of a flag's variations
    AnchorNames,
    Yes,           \* what disable says
    Nothing,       \* no value, no name, no anchor
    FirstTexts,    \* what the file may begin as
    MaxTextEdits   \* bound on edits; a save's stamp is its number

\* Of the settings, variations stands for all a flag always has, disable for
\* all that come and go; metadata holds the stamp of the last save.
Settings == <<"variations", "disable", "metadata">>

VARIABLES
    lines,
    textEdits,   \* how many edits were made
    about        \* for the properties: the flags the last edit was about, none
                 \* when it was not Studio's

textVars == <<lines, textEdits, about>>

(***************************************************************************)
(* Lines.                                                                  *)
(***************************************************************************)
Line(kind, name, form, anchor, value) ==
    [line |-> kind, name |-> name, form |-> form, anchor |-> anchor, value |-> value]

KeyLine(k) == Line("flag", k, "plain", Nothing, Nothing)
Setting(name, value) == Line("setting", name, "plain", Nothing, value)
BlankLine(n) == Line("blank", Nothing, "plain", Nothing, n)
CommentLine(n) == Line("comment", Nothing, "plain", Nothing, n)

WithAnchor(line, anchor) == [line EXCEPT !.form = "anchor", !.anchor = anchor]
Alias(name, anchor) == Line("setting", name, "alias", anchor, Nothing)

TextLine == [line : {"flag", "setting", "blank", "comment"},
             name : FlagKeys \cup ToSet(Settings) \cup {"<<", Nothing},
             form : {"plain", "anchor", "alias"},
             anchor : AnchorNames \cup {Nothing},
             value : FlagValues \cup {Yes, Nothing} \cup 0..MaxTextEdits]

\* The items of a list at some places, in their order.
Rank(places, i) == Cardinality({j \in places : j <= i})
Kept(list, places) ==
    [n \in 1..Cardinality(places) |-> list[CHOOSE i \in places : Rank(places, i) = n]]

IsBlankOrComment(line) == line.line \in {"blank", "comment"}

FlagLines(text) == {i \in DOMAIN text : text[i].line = "flag"}
HasFlag(text, k) == \E i \in FlagLines(text) : text[i].name = k
Start(text, k) == CHOOSE i \in FlagLines(text) : text[i].name = k

(* SEEDED FAULT: what stands before the next flag belongs to this one.     *)
BlockToTheNext(text, k) ==
    LET next == {i \in FlagLines(text) : i > Start(text, k)}
    IN  Start(text, k)..(IF next = {} THEN Len(text) ELSE Min(next) - 1)

\* blockOf: from the flag's key to the next one's, without what is blank or a
\* comment at the end of that.
BlockOf(text, k) ==
    LET next == {i \in FlagLines(text) : i > Start(text, k)}
        end == IF next = {} THEN Len(text) ELSE Min(next) - 1
    IN  Start(text, k)..Max({i \in Start(text, k)..end : ~IsBlankOrComment(text[i])})

(***************************************************************************)
(* What a text says.                                                       *)
(***************************************************************************)
Anchors(text, i) ==
    {j \in 1..(i - 1) : text[j].form = "anchor" /\ text[j].anchor = text[i].anchor}

Value(text, i) ==
    IF text[i].form = "alias" THEN text[Max(Anchors(text, i))].value ELSE text[i].value

SettingLines(text, k, name) ==
    {i \in BlockOf(text, k) : text[i].line = "setting" /\ text[i].name = name}

\* A flag's own setting comes before the one it takes over.
Reads(text, k, name) ==
    LET own == SettingLines(text, k, name)
        merge == SettingLines(text, k, "<<")
        base == text[Max(Anchors(text, Min(merge)))].name
        theirs == SettingLines(text, base, name)
    IN  CASE own # {} -> Value(text, Min(own))
          [] own = {} /\ merge # {} /\ theirs # {} -> Value(text, Min(theirs))
          [] OTHER -> Nothing

ReadFlag(text, k) == [name \in ToSet(Settings) |-> Reads(text, k, name)]

\* Adapter.Validate: yaml.v3 reads the text, in which only a flag's settings
\* can be taken over, and GOFF takes every flag.
ValidText(text) ==
    /\ \A i, j \in FlagLines(text) : text[i].name = text[j].name => i = j
    /\ \A i \in DOMAIN text : text[i].form = "alias" => Anchors(text, i) # {}
    /\ \A i \in DOMAIN text : text[i].line = "setting" /\ text[i].name = "<<" =>
                               text[Max(Anchors(text, i))].line = "flag"
    /\ \A i \in FlagLines(text) : Reads(text, text[i].name, "variations") # Nothing

\* The texts that are modelled: a flag's settings follow its key, and there is
\* nothing else within a flag.
IsFlagFile(text) ==
    \A i \in DOMAIN text :
      /\ text[i].line = "flag" => text[i].name \in FlagKeys
      /\ text[i].line = "setting" =>
           /\ text[i].name \in ToSet(Settings) \cup {"<<"}
           /\ text[i].name = "<<" => text[i].form = "alias"
           /\ i > 1 /\ text[i - 1].line \in {"flag", "setting"}

ASSUME TextAssumption ==
    /\ \A text \in FirstTexts :
         text \in Seq(TextLine) /\ IsFlagFile(text) /\ ValidText(text)
    /\ MaxTextEdits \in Nat

(***************************************************************************)
(* Edits.  SetField leaves a setting that says the same as it is, refuses  *)
(* to change one that has an anchor, and puts a plain value in place of    *)
(* the others; DeleteField likewise.                                       *)
(***************************************************************************)
Changed(text, k, flag) ==
    {i \in BlockOf(text, k) :
       text[i].line = "setting" /\ text[i].name # "<<" /\ Value(text, i) # flag[text[i].name]}

RefuseAnchored(text, k, flag) == \E i \in Changed(text, k, flag) : text[i].form = "anchor"

SettingsOf(flag, names) ==
    LET list == Kept(Settings, {i \in DOMAIN Settings : Settings[i] \in names})
    IN  [i \in DOMAIN list |-> Setting(list[i], flag[list[i]])]

\* renderFlag and keepUntouchedText: the flag's lines, those that change with
\* their new value or not at all, and its new settings after them.
Rendered(text, k, flag) ==
    LET edited == [i \in DOMAIN text |->
                     IF i \in Changed(text, k, flag)
                       THEN Setting(text[i].name, flag[text[i].name]) ELSE text[i]]
        IsGone(line) == line.line = "setting" /\ line.form = "plain" /\ line.value = Nothing
        new == {name \in ToSet(Settings) :
                  SettingLines(text, k, name) = {} /\ flag[name] # Nothing}
    IN  Kept(edited, {i \in BlockOf(text, k) : ~IsGone(edited[i])}) \o SettingsOf(flag, new)

Splice(text, block, new) ==
    SubSeq(text, 1, Min(block) - 1) \o new \o SubSeq(text, Max(block) + 1, Len(text))

SpliceFlag(text, k, flag) == Splice(text, BlockOf(text, k), Rendered(text, k, flag))

(* SEEDED FAULT: a value that has an anchor is changed where it stands.    *)
EditedInPlace(text, k, flag) ==
    LET InPlace(i) == IF i \in Changed(text, k, flag) /\ text[i].form = "anchor"
                        THEN [text[i] EXCEPT !.value = flag[text[i].name]] ELSE text[i]
    IN  {SpliceFlag([i \in DOMAIN text |-> InPlace(i)], k, flag)}

\* The text after the edit, if it is not refused.
Edited(text, k, flag) ==
    IF RefuseAnchored(text, k, flag) THEN {} ELSE {SpliceFlag(text, k, flag)}

\* appendFlag: at the end, without the blank lines there.
AppendFlag(text, k, flag) ==
    LET kept == {i \in DOMAIN text : text[i].line # "blank"}
    IN  SubSeq(text, 1, IF kept = {} THEN 0 ELSE Max(kept)) \o <<KeyLine(k)>>
          \o SettingsOf(flag, {name \in ToSet(Settings) : flag[name] # Nothing})

SpliceDelete(text, k) == Splice(text, BlockOf(text, k), <<>>)

WithKey(text, k, to) == [text EXCEPT ![Start(text, k)].name = to]

-----------------------------------------------------------------------------
TextInit ==
    /\ lines \in FirstTexts
    /\ textEdits = 0
    /\ about = {}

Puts(text, keys) ==
    /\ textEdits < MaxTextEdits
    /\ ValidText(text)
    /\ lines' = text
    /\ textEdits' = textEdits + 1
    /\ about' = keys

\* The flag as it is, but for one setting and the stamp.
SaveSetting(k) ==
    /\ HasFlag(lines, k)
    /\ \E flag \in {[ReadFlag(lines, k) EXCEPT !.variations = v, !.metadata = textEdits + 1] :
                      v \in FlagValues}
                   \cup {[ReadFlag(lines, k) EXCEPT !.disable = d, !.metadata = textEdits + 1] :
                           d \in {Yes, Nothing}} :
         \E text \in Edited(lines, k, flag) : Puts(text, {k})

CreateFlag(k) ==
    /\ ~HasFlag(lines, k)
    /\ \E v \in FlagValues, d \in {Yes, Nothing} :
         Puts(AppendFlag(lines, k, [variations |-> v, disable |-> d,
                                    metadata |-> textEdits + 1]), {k})

DeleteFlag(k) == HasFlag(lines, k) /\ Puts(SpliceDelete(lines, k), {k})

\* A rename is stamped too.
RenameFlag(k, to) ==
    /\ HasFlag(lines, k) /\ ~HasFlag(lines, to)
    /\ LET named == WithKey(lines, k, to)
           flag == [ReadFlag(named, to) EXCEPT !.metadata = textEdits + 1]
       IN  \E text \in Edited(named, to, flag) : Puts(text, {k, to})

\* Somebody writes a comment, or leaves a blank line, before a flag or at the
\* end of the file.
WriteBetweenFlags ==
    \E i \in FlagLines(lines) \cup {Len(lines) + 1},
       line \in {CommentLine(textEdits + 1), BlankLine(textEdits + 1)} :
      Puts(InsertAt(lines, i, line), {})

TextNext ==
    \/ \E k \in FlagKeys : SaveSetting(k) \/ CreateFlag(k) \/ DeleteFlag(k)
    \/ \E k, to \in FlagKeys : RenameFlag(k, to)
    \/ WriteBetweenFlags

TextSpec == TextInit /\ [][TextNext]_textVars

(***************************************************************************)
(* Properties.                                                             *)
(***************************************************************************)
TextTypeOK ==
    /\ lines \in Seq(TextLine)
    /\ textEdits \in 0..MaxTextEdits
    /\ about \subseteq FlagKeys

\* The text without the flags of keys, each with the settings under its key,
\* and without the blank lines at its end.
IsTheirs(text, i, keys) ==
    /\ text[i].line \in {"flag", "setting"}
    /\ \E j \in FlagLines(text) : /\ j <= i /\ text[j].name \in keys
                                 /\ \A h \in FlagLines(text) : h <= j \/ i < h

Without(text, keys) ==
    LET others == {i \in DOMAIN text : ~IsTheirs(text, i, keys)}
    IN  Kept(text, {i \in others : \E j \in others : i <= j /\ text[j].line # "blank"})

(***************************************************************************)
(* README.md:444, "a save that touches one flag produces a diff that       *)
(* touches only that flag": after any number of edits of any kind every    *)
(* other flag, and every comment and blank line between flags, has kept    *)
(* its text and its place.                                                 *)
(***************************************************************************)
OthersKeepTheirText ==
    [][about' # {} => Without(lines', about') = Without(lines, about')]_textVars

(***************************************************************************)
(* yamldoc.go:369, refuseAnchored "stops an edit that would change or drop *)
(* an anchored value, because every alias of it elsewhere in the file      *)
(* would silently change too": every other flag still reads as it did.     *)
(***************************************************************************)
OthersKeepTheirMeaning ==
    [][about' # {} =>
         \A k \in FlagKeys \ about' : HasFlag(lines, k) =>
           HasFlag(lines', k) /\ ReadFlag(lines', k) = ReadFlag(lines, k)]_textVars
================================================================================
