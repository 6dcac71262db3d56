------------------------------- MODULE Condition -------------------------------
(***************************************************************************)
(* The query of a targeting rule: the condition that the editor builds,    *)
(* the text that CompileCondition writes, and the condition that           *)
(* ParseQuery reads back (internal/goff/condition.go, parse.go, build.go). *)
(*                                                                         *)
(* A text is a sequence of tokens: parentheses, `not`, `and`, `or`, and    *)
(* whole comparisons, attribute, operator and values, which the code scans *)
(* with the same care for quotes in every function but parseLeaf.          *)
(***************************************************************************)
EXTENDS Integers, SequencesExt

CONSTANTS
    Attributes,
    Values,
    ParenValues,   \* the values that contain a parenthesis
    Conditions,    \* conditions that a user may build in the editor
    Texts          \* texts that somebody may write into the file by hand

ASSUME ConditionAssumption == ParenValues \subseteq Values

VARIABLES
    condition,   \* what the user built, or NoCondition
    query        \* the rule's text

conditionVars == <<condition, query>>

(***************************************************************************)
(* Conditions.                                                             *)
(***************************************************************************)
Leaf(attribute, operator, values) ==
    [kind |-> "leaf", attribute |-> attribute, operator |-> operator, values |-> values]

Group(op, not, children) ==
    [kind |-> "group", op |-> op, not |-> not, children |-> children]

NoCondition == [kind |-> "none"]

IsGroup(c) == c.kind = "group"

\* Who a condition holds for: a user gives each attribute a value.
RECURSIVE Holds(_, _)
Holds(c, user) ==
    IF ~IsGroup(c)
      THEN c.operator \in {"eq", "in"} <=> user[c.attribute] \in c.values
      ELSE c.not # IF c.op = "and"
                     THEN \A i \in DOMAIN c.children : Holds(c.children[i], user)
                     ELSE \E i \in DOMAIN c.children : Holds(c.children[i], user)

SameMeaning(c, d) ==
    \A user \in [Attributes -> Values] : Holds(c, user) <=> Holds(d, user)

(***************************************************************************)
(* Texts.                                                                  *)
(***************************************************************************)
Word(w) == [word |-> w]
OpenParen == Word("(")
CloseParen == Word(")")
Not == Word("not")
Comparison(leaf) == [word |-> "comparison", leaf |-> leaf]

Parens(text) == <<OpenParen>> \o text \o <<CloseParen>>

\* The texts, joined by op.
Joined(texts, op) ==
    FoldLeft(LAMBDA text, next : IF text = <<>> THEN next ELSE text \o <<Word(op)>> \o next,
             <<>>, texts)

(***************************************************************************)
(* compile.  A list with one item becomes eq or ne; a longer notin the     *)
(* negation of an in.  A group of one part writes that part; another one   *)
(* gets parentheses unless it is the whole text, and always under a not.   *)
(***************************************************************************)
CompileLeaf(c) ==
    CASE c.operator = "notin" /\ Cardinality(c.values) = 1 ->
           Parens(<<Comparison(Leaf(c.attribute, "ne", c.values))>>)
      [] c.operator = "notin" /\ Cardinality(c.values) > 1 ->
           Parens(<<Not>> \o Parens(<<Comparison(Leaf(c.attribute, "in", c.values))>>))
      [] c.operator = "in" /\ Cardinality(c.values) = 1 ->
           Parens(<<Comparison(Leaf(c.attribute, "eq", c.values))>>)
      [] OTHER -> Parens(<<Comparison(c)>>)

(* SEEDED FAULT: a negated group gets no parentheses of its own.           *)
CompileNegatedLoosely(parts, op) == Parens(<<Not>> \o Joined(parts, op))

CompileNegated(parts, op) ==
    Parens(<<Not>> \o IF Len(parts) = 1 THEN parts[1] ELSE Parens(Joined(parts, op)))

RECURSIVE Compile(_, _)
Compile(c, top) ==
    IF ~IsGroup(c) THEN CompileLeaf(c)
    ELSE LET parts == [i \in DOMAIN c.children |-> Compile(c.children[i], FALSE)]
         IN  CASE c.not -> CompileNegated(parts, c.op)
               [] ~c.not /\ (Len(parts) = 1 \/ top) -> Joined(parts, c.op)
               [] OTHER -> Parens(Joined(parts, c.op))

CompileCondition(c) == Compile(c, TRUE)

(***************************************************************************)
(* Scanning: how deep in parentheses a text is after its first n tokens.   *)
(***************************************************************************)
Depth(text, n) ==
    Cardinality({i \in 1..n : text[i].word = "("})
      - Cardinality({i \in 1..n : text[i].word = ")"})

Balanced(text) ==
    /\ \A n \in 0..Len(text) : Depth(text, n) >= 0
    /\ Depth(text, Len(text)) = 0

Inside(text) == SubSeq(text, 2, Len(text) - 1)

RECURSIVE StripOuterParens(_)
StripOuterParens(text) ==
    IF Len(text) >= 2 /\ Head(text) = OpenParen /\ Last(text) = CloseParen /\ Balanced(Inside(text))
      THEN StripOuterParens(Inside(text)) ELSE text

\* Where a text is joined at its top level, with its ends.
Joins(text) ==
    {n \in DOMAIN text : text[n].word \in {"and", "or"} /\ Depth(text, n) = 0}

Bounds(text) == SetToSortSeq({0, Len(text) + 1} \cup Joins(text), <)

\* splitTopLevel.
Pieces(text) ==
    LET ends == Bounds(text)
    IN  [i \in 1..(Len(ends) - 1) |-> SubSeq(text, ends[i] + 1, ends[i + 1] - 1)]

Splits(text) == Balanced(text) /\ \A i \in DOMAIN Pieces(text) : Pieces(text)[i] # <<>>

(***************************************************************************)
(* parseExpr, parseLeaf and parseNegated.  What they read is a condition,  *)
(* or too complicated for the editor ("advanced"), or they never return.   *)
(***************************************************************************)
Simple(c) == [reads |-> "simple", condition |-> c]
Advanced == [reads |-> "advanced", condition |-> NoCondition]
Endless == [reads |-> "endless", condition |-> NoCondition]

\* parseLeaf looks for parentheses in the whole text, quoted values included,
\* and hands a text that has some back to parseExpr, which got to parseLeaf by
\* failing to take it apart and fails again.
HasParens(text) ==
    \E i \in DOMAIN text :
      \/ text[i] \in {OpenParen, CloseParen}
      \/ text[i].word = "comparison" /\ text[i].leaf.values \cap ParenValues # {}

ParseLeaf(text) ==
    CASE HasParens(text) -> Endless
      [] ~HasParens(text) /\ Len(text) = 1 /\ text[1].word = "comparison" ->
           Simple(text[1].leaf)
      [] OTHER -> Advanced

\* A group is marked as negated; one that is marked already gets a group
\* around it, which is not.
Negated(c) ==
    CASE IsGroup(c) /\ c.not -> Simple(Group("and", FALSE, <<c>>))
      [] IsGroup(c) /\ ~c.not -> Simple([c EXCEPT !.not = TRUE])
      [] OTHER -> Simple(Group("and", TRUE, <<c>>))

IsInList(text) ==
    Len(text) = 1 /\ text[1].word = "comparison" /\ text[1].leaf.operator = "in"

RECURSIVE ParseExpr(_)
ParseExpr(spaced) ==
    LET text == StripOuterParens(spaced)
        negative == text # <<>> /\ Head(text) = Not
        inner == StripOuterParens(Tail(text))
        \* parseNegated, which may fail: "advanced"
        negated ==
          IF ~negative \/ inner = <<>> THEN Advanced
          ELSE IF IsInList(inner)
            THEN Simple(Leaf(inner[1].leaf.attribute, "notin", inner[1].leaf.values))
            ELSE LET read == ParseExpr(inner)
                 IN  IF read.reads = "simple" THEN Negated(read.condition) ELSE read
        pieces == Pieces(text)
        ops == {text[n].word : n \in Joins(text)}
        children == [i \in DOMAIN pieces |-> ParseExpr(pieces[i])]
        unread == {i \in DOMAIN pieces : children[i].reads # "simple"}
    IN  IF negated # Advanced THEN negated
        ELSE IF ~Splits(text) THEN Advanced
        ELSE IF Len(pieces) = 1 THEN ParseLeaf(text)
        ELSE IF Cardinality(ops) > 1 THEN Advanced
        ELSE IF unread # {} THEN children[CHOOSE i \in unread : \A j \in unread : i <= j]
        ELSE Simple(Group(CHOOSE op \in ops : TRUE, FALSE,
                          [i \in DOMAIN pieces |-> children[i].condition]))

ParseQuery(text) == IF text = <<>> THEN Simple(NoCondition) ELSE ParseExpr(text)

(***************************************************************************)
(* The reference: what a text of GO Feature Flag's query language means.   *)
(*                                                                         *)
(*   query ::= comparison | not? ( query ) | query (and | or) query        *)
(*                                                                         *)
(* `not` belongs to the parentheses after it, and texts are joined from    *)
(* left to right.                                                          *)
(***************************************************************************)
IsEnclosed(text) ==
    /\ Len(text) >= 3 /\ Head(text) = OpenParen /\ Last(text) = CloseParen
    /\ Balanced(Inside(text))

RECURSIVE IsQuery(_)
IsQuery(text) ==
    \/ Len(text) = 1 /\ text[1].word = "comparison"
    \/ IsEnclosed(text) /\ IsQuery(Inside(text))
    \/ /\ Len(text) > 1 /\ Head(text) = Not
       /\ IsEnclosed(Tail(text)) /\ IsQuery(Inside(Tail(text)))
    \/ \E n \in Joins(text) :
         /\ IsQuery(SubSeq(text, 1, n - 1))
         /\ IsQuery(SubSeq(text, n + 1, Len(text)))

RECURSIVE Means(_, _)
Means(text, user) ==
    IF Joins(text) # {}
      THEN LET n == CHOOSE m \in Joins(text) : \A k \in Joins(text) : k <= m
               left == Means(SubSeq(text, 1, n - 1), user)
               right == Means(SubSeq(text, n + 1, Len(text)), user)
           IN  IF text[n].word = "and" THEN left /\ right ELSE left \/ right
    ELSE IF Len(text) = 1 THEN Holds(text[1].leaf, user)
    ELSE IF Head(text) = Not THEN ~Means(Inside(Tail(text)), user)
    ELSE Means(Inside(text), user)

(***************************************************************************)
(* A rule is saved from the editor, or written by hand.                    *)
(***************************************************************************)
ConditionInit == condition = NoCondition /\ query = <<>>

Build ==
    /\ condition' \in Conditions
    /\ query' = CompileCondition(condition')

WriteByHand ==
    /\ query' \in {text \in Texts : IsQuery(text)}
    /\ condition' = NoCondition

ConditionNext == query = <<>> /\ (Build \/ WriteByHand)

ConditionSpec == ConditionInit /\ [][ConditionNext]_conditionVars

(***************************************************************************)
(* Properties.                                                             *)
(***************************************************************************)
\* Neither a not directly under a not nor a value with a parenthesis.
RECURSIVE Plain(_)
Plain(c) ==
    IF ~IsGroup(c) THEN c.values \cap ParenValues = {}
    ELSE /\ \A i \in DOMAIN c.children : Plain(c.children[i])
         /\ ~(c.not /\ Len(c.children) = 1 /\ IsGroup(c.children[1]) /\ c.children[1].not)

(***************************************************************************)
(* The text serves the users whom the condition describes.                 *)
(***************************************************************************)
QueriesSayWhatIsBuilt ==
    /\ IsQuery(query)
    /\ \A user \in [Attributes -> Values] : Means(query, user) <=> Holds(condition, user)

(***************************************************************************)
(* The text is read back as a condition that means the same, and writing   *)
(* that one again, and again, leaves the text as it is.                    *)
(***************************************************************************)
QueriesAreReadBack ==
    LET read == ParseQuery(query)
        again == CompileCondition(read.condition)
    IN  /\ read.reads = "simple"
        /\ SameMeaning(read.condition, condition)
        /\ CompileCondition(ParseQuery(again).condition) = again

(***************************************************************************)
(* condition.go:64, "`not` binds tighter than and/or": however groups and  *)
(* negations are nested, the text that is saved serves the users the       *)
(* editor's condition describes, and a rule that is opened again is shown  *)
(* as what it means, and does not change by being saved.  The second is    *)
(* not so for a not directly under a not, of which one is lost             *)
(* (condition.go:282), nor for a value with a parenthesis, which parseLeaf *)
(* and parseExpr hand to each other forever (condition.go:224).            *)
(***************************************************************************)
QueriesKeepTheirMeaning ==
    condition # NoCondition =>
      QueriesSayWhatIsBuilt /\ (Plain(condition) => QueriesAreReadBack)

(***************************************************************************)
(* A text written by hand is shown as what it means, `not` binding tighter *)
(* than and/or (condition.go:64, condition_test.go:273), or as text.       *)
(***************************************************************************)
QueriesAreReadRightly ==
    condition = NoCondition /\ query # <<>> =>
      LET read == ParseQuery(query)
      IN  \/ read.reads = "advanced"
          \/ /\ read.reads = "simple"
             /\ \A user \in [Attributes -> Values] :
                  Means(query, user) <=> Holds(read.condition, user)
================================================================================
