------------------------------- MODULE RuleEdits -------------------------------
(***************************************************************************)
(* The targeting rules of one flag, which are evaluated in their order,    *)
(* and the requests that edit them (handleSaveRule, handleProgressive,     *)
(* handleAddRule, handleDeleteRule and handleReorderRules of               *)
(* internal/server/server.go).                                             *)
(*                                                                         *)
(* A request is made from a page that may be old, checked against the list *)
(* of the moment (Get), and applied to the list of a later moment: Write,  *)
(* at the instant at which it takes effect (AtomicEdits).  Only a snapshot *)
(* of the page, if this replica has one, tells that the list has changed.  *)
(***************************************************************************)
EXTENDS Integers, Sequences, FiniteSets

CONSTANTS
    Editors,       \* requests, each made once
    RuleNames,
    Unnamed,       \* the name of a rule that was written without one
    FirstRules,    \* lists that a flag may begin with, as names
    MaxElsewhere,  \* bound on changes made without Studio
    Nowhere        \* a request without a page, or not yet made

VARIABLES
    rules,      \* the list in the file
    edit,       \* what each editor asks for, and from which page
    at,         \* where its request is
    elsewhere,  \* how many changes were made without Studio
    last        \* for the properties: the request that wrote last

rulesVars == <<rules, edit, at, elsewhere, last>>

Names(list) == [i \in DOMAIN list |-> list[i].name]
NameSet(list) == {list[i].name : i \in DOMAIN list}
Times(names, name) == Cardinality({i \in DOMAIN names : names[i] = name})

\* GO Feature Flag serves no flag that has two rules by the same name.
ASSUME RulesAssumption ==
    /\ FirstRules \subseteq Seq(RuleNames \cup {Unnamed})
    /\ \A names \in FirstRules : \A name \in RuleNames : Times(names, name) <= 1
    /\ Unnamed \notin RuleNames
    /\ Nowhere \notin Editors
    /\ MaxElsewhere \in Nat

AsWritten(names) ==
    [i \in DOMAIN names |-> [name |-> names[i], by |-> Nowhere, ramp |-> Nowhere]]

NoEdit == [op |-> "none", name |-> Unnamed, order |-> <<>>, position |-> 0,
           page |-> <<>>, compares |-> FALSE]

RulesInit ==
    /\ \E names \in FirstRules : rules = AsWritten(names)
    /\ edit = [e \in Editors |-> NoEdit]
    /\ at = [e \in Editors |-> "new"]
    /\ elsewhere = 0
    /\ last = Nowhere

(***************************************************************************)
(* What a request does to a list.                                          *)
(***************************************************************************)
\* applyRuleEdit and applyProgressive change the first rule of that name.
FirstNamed(list, name) ==
    {i \in DOMAIN list : list[i].name = name /\ \A j \in 1..(i - 1) : list[j].name # name}

ApplyRuleEdit(list, e) ==
    [i \in DOMAIN list |->
       IF i \in FirstNamed(list, edit[e].name) THEN [list[i] EXCEPT !.by = e] ELSE list[i]]

\* A ramp that is cleared leaves the rule with an outcome of its own.
Ramped(rule, e) ==
    IF edit[e].op = "clear"
      THEN [rule EXCEPT !.ramp = Nowhere, !.by = e] ELSE [rule EXCEPT !.ramp = e]

ApplyProgressive(list, e) ==
    [i \in DOMAIN list |->
       IF i \in FirstNamed(list, edit[e].name) THEN Ramped(list[i], e) ELSE list[i]]

\* insertRule: at a position of the list it finds, or at its end.
InsertRule(list, e) ==
    LET n == IF edit[e].position < Len(list) THEN edit[e].position ELSE Len(list)
    IN  SubSeq(list, 1, n)
          \o <<[name |-> edit[e].name, by |-> e, ramp |-> Nowhere]>>
          \o SubSeq(list, n + 1, Len(list))

(* SEEDED FAULT: a rule is removed at its place on the page.               *)
RemoveRuleAt(list, e) ==
    LET n == CHOOSE i \in FirstNamed(edit[e].page, edit[e].name) : TRUE
    IN  SubSeq(list, 1, n - 1) \o SubSeq(list, n + 1, Len(list))

\* The elements of a list at some of its places, in their order.
Picked(list, places) ==
    LET next[n \in 0..Len(list)] ==
          IF n = 0 THEN <<>>
          ELSE IF n \in places THEN Append(next[n - 1], list[n]) ELSE next[n - 1]
    IN  next[Len(list)]

Without(list, name) == Picked(list, {i \in DOMAIN list : list[i].name # name})

RemoveRule(list, e) == Without(list, edit[e].name)

\* reorderRules: by way of a map, in which the last rule of a name is kept.
Reorder(list, order) ==
    LET ByName(name) == CHOOSE i \in DOMAIN list :
                          /\ list[i].name = name
                          /\ \A j \in (i + 1)..Len(list) : list[j].name # name
        known == Picked(order, {i \in DOMAIN order : order[i] \in NameSet(list)})
    IN  [i \in DOMAIN known |-> list[ByName(known[i])]]

ReorderRules(list, e) == Reorder(list, edit[e].order)

Mutated(list, e) ==
    CASE edit[e].op = "save" -> ApplyRuleEdit(list, e)
      [] edit[e].op \in {"ramp", "clear"} -> ApplyProgressive(list, e)
      [] edit[e].op = "add" -> InsertRule(list, e)
      [] edit[e].op = "delete" -> RemoveRule(list, e)
      [] edit[e].op = "reorder" -> ReorderRules(list, e)

(***************************************************************************)
(* A user edits the list a page shows: the list as it is, from then on     *)
(* ever older.  Rules are edited by name, which the handlers require; the  *)
(* order comes from moving one rule of the page up or down.  compares says *)
(* whether snapshotFor will find the page's version (FlagEditing).         *)
(***************************************************************************)
Swapped(names, i) ==
    [j \in DOMAIN names |-> CASE j = i -> names[i + 1]
                              [] j = i + 1 -> names[i]
                              [] OTHER -> names[j]]

Asks(e, op, name, order, position, compares) ==
    edit' = [edit EXCEPT ![e] = [op |-> op, name |-> name, order |-> order,
                                 position |-> position, page |-> rules,
                                 compares |-> compares]]

Ask(e) ==
    /\ at[e] = "new"
    /\ at' = [at EXCEPT ![e] = "asked"]
    /\ \E compares \in BOOLEAN :
         \/ \E op \in {"save", "ramp", "clear", "delete"}, name \in NameSet(rules) \ {Unnamed} :
              Asks(e, op, name, <<>>, 0, compares)
         \/ \E name \in RuleNames \ NameSet(rules), position \in 0..Len(rules) :
              Asks(e, "add", name, <<>>, position, compares)
         \/ \E i \in 1..(Len(rules) - 1) :
              Asks(e, "reorder", Unnamed, Swapped(Names(rules), i), 0, compares)
    /\ UNCHANGED <<rules, elsewhere, last>>

(***************************************************************************)
(* The handler reads the flag and checks the request against it:           *)
(* ruleExists, no rule of that name, isPermutation.                        *)
(***************************************************************************)
IsPermutation(list, order) ==
    /\ Len(order) = Len(list)
    /\ \A i \in DOMAIN order : Times(order, order[i]) <= Times(Names(list), order[i])

Passes(e) ==
    CASE edit[e].op = "add" -> edit[e].name \notin NameSet(rules)
      [] edit[e].op = "reorder" -> IsPermutation(rules, edit[e].order)
      [] OTHER -> edit[e].name \in NameSet(rules)

Check(e) ==
    /\ at[e] = "asked"
    /\ at' = [at EXCEPT ![e] = IF Passes(e) THEN "checked" ELSE "refused"]
    /\ UNCHANGED <<rules, edit, elsewhere, last>>

(***************************************************************************)
(* Save, at the instant its write takes effect.  sameFlagState compares    *)
(* the rules with those of the page; ramps it does not compare.  GO        *)
(* Feature Flag accepts no list with a name twice, but any number of rules *)
(* without a name.                                                         *)
(***************************************************************************)
Compared(list) == [i \in DOMAIN list |-> <<list[i].name, list[i].by>>]

(* SEEDED FAULT: only the number of rules is compared.                     *)
SameLength(list, page) == Len(list) = Len(page)

(* SEEDED FAULT: only the names are compared.                              *)
SameRulesByName(list, page) == NameSet(list) = NameSet(page)

SameRules(list, page) == Compared(list) = Compared(page)

(* SEEDED FAULT: GOFF's validation is not asked.                           *)
AcceptedAlways(list) == TRUE

Accepted(list) == \A name \in RuleNames : Times(Names(list), name) <= 1

SaveRules(e) ==
    /\ at[e] = "checked"
    /\ LET conflict == edit[e].compares /\ ~SameRules(rules, edit[e].page)
           next == Mutated(rules, e)
           saves == ~conflict /\ Accepted(next)
       IN  /\ at' = [at EXCEPT ![e] = CASE conflict -> "conflict"
                                        [] saves -> "saved"
                                        [] OTHER -> "refused"]
           /\ rules' = IF saves THEN next ELSE rules
           /\ last' = IF saves THEN e ELSE last
    /\ UNCHANGED <<edit, elsewhere>>

(***************************************************************************)
(* Somebody edits the file without Studio: adds a rule, drops one, or      *)
(* swaps two.                                                              *)
(***************************************************************************)
EditRulesElsewhere ==
    /\ elsewhere < MaxElsewhere
    /\ elsewhere' = elsewhere + 1
    /\ last' = Nowhere
    /\ \/ \E name \in RuleNames \ NameSet(rules) :
            rules' = Append(rules, [name |-> name, by |-> Nowhere, ramp |-> Nowhere])
       \/ rules # <<>> /\ rules' = Tail(rules)
       \/ Len(rules) > 1 /\ rules' = <<rules[2], rules[1]>> \o SubSeq(rules, 3, Len(rules))
    /\ UNCHANGED <<edit, at>>

RulesNext ==
    \/ \E e \in Editors : Ask(e) \/ Check(e) \/ SaveRules(e)
    \/ EditRulesElsewhere

RulesSpec == RulesInit /\ [][RulesNext]_rulesVars

(***************************************************************************)
(* Properties.                                                             *)
(***************************************************************************)
Rule == [name : RuleNames \cup {Unnamed}, by : Editors \cup {Nowhere},
         ramp : Editors \cup {Nowhere}]

\* The types, and that no two rules of the file have the same name.
RulesTypeOK ==
    /\ rules \in Seq(Rule)
    /\ edit \in [Editors -> [op : {"none", "save", "ramp", "clear", "add", "delete", "reorder"},
                             name : RuleNames \cup {Unnamed},
                             order : Seq(RuleNames \cup {Unnamed}), position : Nat,
                             page : Seq(Rule), compares : BOOLEAN]]
    /\ at \in [Editors -> {"new", "asked", "checked", "refused", "conflict", "saved"}]
    /\ elsewhere \in 0..MaxElsewhere
    /\ last \in Editors \cup {Nowhere}
    /\ \A name \in RuleNames : Times(Names(rules), name) <= 1

Saves(e) == at[e] = "checked" /\ at'[e] = "saved"

(***************************************************************************)
(* A request that is about one rule leaves every other rule, and their     *)
(* order, as it finds them, whatever happened to the list since its page   *)
(* was shown and since it was checked, and whether or not it is compared.  *)
(***************************************************************************)
EditsTouchOneRule ==
    [][\A e \in Editors : Saves(e) /\ edit[e].op # "reorder" =>
         Without(rules', edit[e].name) = Without(rules, edit[e].name)]_rulesVars

(***************************************************************************)
(* server.go:1614, "reordering must not add or drop rules": a reorder that *)
(* is compared with its page keeps every rule as it is, and gives them the *)
(* order the user saw.  Not so for rules without a name, of which the last *)
(* takes the place of all.                                                 *)
(***************************************************************************)
ReordersKeepRules ==
    [][\A e \in Editors :
         Saves(e) /\ edit[e].op = "reorder" /\ edit[e].compares
           /\ Times(Names(rules), Unnamed) <= 1 =>
             /\ Names(rules') = edit[e].order
             /\ \A rule \in Rule : rule \in {rules[i] : i \in DOMAIN rules}
                                     <=> rule \in {rules'[i] : i \in DOMAIN rules'}]_rulesVars

(***************************************************************************)
(* The edit of one request is in the list, and an added rule stands after  *)
(* the rules it stood after on the page, which decide what reaches it.     *)
(***************************************************************************)
InEffect(e) ==
    LET named == {i \in DOMAIN rules : rules[i].name = edit[e].name}
        before == SubSeq(edit[e].page, 1, edit[e].position)
        n == Len(before)
    IN  CASE edit[e].op = "save" -> \E i \in named : rules[i].by = e
          [] edit[e].op = "add" ->
               rules[n + 1].by = e /\ Compared(SubSeq(rules, 1, n)) = Compared(before)
          [] edit[e].op = "clear" ->
               \E i \in named : rules[i].by = e /\ rules[i].ramp = Nowhere
          [] edit[e].op = "ramp" -> \E i \in named : rules[i].ramp = e
          [] edit[e].op = "delete" -> named = {}
          [] OTHER -> TRUE

(***************************************************************************)
(* The answer "saved" is true: the edit a user sees saved is in the list   *)
(* the write produced, and an added rule is where the user put it, if the  *)
(* page was compared.  (Without that an edit of a rule that has just gone  *)
(* is answered as saved, and stamps the flag.)                             *)
(***************************************************************************)
SavedEditsAreThere ==
    \A e \in Editors : last = e /\ edit[e].compares => InEffect(e)
================================================================================
