----------------------------- MODULE MCMachines -----------------------------
(***************************************************************************)
(* The state machines that share nothing with each other, in one run: a    *)
(* behaviour is one of `part`, and what the other parts hold stays as it   *)
(* is.  Startup comes before all the others; in their behaviours it went   *)
(* well at once, and Studio listens.                                       *)
(***************************************************************************)
EXTENDS FileBackend, TokenSource, Startup, SignIn, Condition, TeamAccess,
        YamlSplice, TLC

CONSTANTS k1, k2, a, b, c, x, y, v, w, g1, g2, t1, t2, h1, h2, u1

VARIABLE part

-----------------------------------------------------------------------------
(* Condition: the kinds of leaves, alone and in groups of one and two, and *)
(* groups of such groups for two of the kinds; and some texts.             *)
Leaves == {Leaf(x, "eq", {v}), Leaf(y, "ne", {w}), Leaf(x, "in", {v, w}),
           Leaf(x, "notin", {v, w}), Leaf(y, "notin", {v})}
Few == {Leaf(x, "eq", {v}), Leaf(x, "notin", {v, w})}

Groups(parts) ==
    {Group(op, not, children) :
       op \in {"and", "or"}, not \in BOOLEAN,
       children \in {<<d>> : d \in parts} \cup {<<d, f>> : d \in parts, f \in parts}}

Inner ==
    {Group(op, not, <<Leaf(x, "eq", {v}), Leaf(x, "notin", {v, w})>>) :
       op \in {"and", "or"}, not \in BOOLEAN}
    \cup {Group("and", TRUE, <<d>>) : d \in Few}

MCConditions == Leaves \cup Groups(Leaves) \cup Groups(Few \cup Inner)

MCTexts ==
    LET one == <<Comparison(Leaf(x, "eq", {v}))>>
        other == <<Comparison(Leaf(y, "eq", {v}))>>
    IN  {one, Parens(one), <<Not>> \o Parens(one), Joined(<<one, other, one>>, "or")}

(* TeamAccess: every configuration of one or two rules of a menu, with one *)
(* declared team that has an editor.                                       *)
MCRules ==
    [group : {g1, Anybody}, teams : {{t1}, {t2}, {Everything}},
     environments : {{}, {h1}}, actions : {{"view"}, {"toggle"}, {"create"}}]

MCConfigurations ==
    [permissions : {{r, s} : r \in MCRules, s \in MCRules},
     editors : {[t \in {t1} |-> {g2}]}, single : BOOLEAN]

MCGroupsOf == [u \in {u1} |-> {g1}]

(* YamlSplice: a shared value, a shared stamp, and comments around flags.  *)
MCFirstTexts ==
    {<<CommentLine(0), KeyLine(a), WithAnchor(Setting("variations", v), x), Setting("metadata", 0),
       BlankLine(0), CommentLine(0), KeyLine(b), Alias("variations", x), Setting("disable", Yes),
       CommentLine(0), BlankLine(0)>>,
     <<KeyLine(a), Setting("variations", v), WithAnchor(Setting("metadata", 0), x),
       KeyLine(b), Setting("variations", w), Alias("metadata", x),
       KeyLine(c), Alias("metadata", x), Setting("variations", w)>>}

-----------------------------------------------------------------------------
Listens ==
    /\ elapsed = 0 /\ began = 0 /\ stage = "listening"
    /\ trying = TRUE /\ until = AttemptTimeout /\ backoff = FirstBackoff

MachinesInit ==
    /\ part \in {"file", "token", "startup", "signin", "query", "access", "text"}
    /\ IF part = "startup" THEN StartupInit ELSE Listens
    /\ Init
    /\ part # "file" => live = NoFile /\ key = [r \in Request |-> k1]
    /\ TokenInit
    /\ SignInInit
    /\ ConditionInit
    /\ AccessInit
    /\ part # "access" => owner = NoTeam
    /\ TextInit
    /\ part # "text" => HasFlag(lines, c)

MachinesNext ==
    /\ UNCHANGED part
    /\ \/ part = "file" /\ Next
       \/ part # "file" /\ UNCHANGED fvars
    /\ \/ part = "token" /\ TokenNext
       \/ part # "token" /\ UNCHANGED tokenVars
    /\ \/ part = "startup" /\ StartupNext
       \/ part # "startup" /\ UNCHANGED startupVars
    /\ \/ part = "signin" /\ SignInNext
       \/ part # "signin" /\ UNCHANGED signInVars
    /\ \/ part = "query" /\ ConditionNext
       \/ part # "query" /\ UNCHANGED conditionVars
    /\ \/ part = "access" /\ AccessNext
       \/ part # "access" /\ UNCHANGED accessVars
    /\ \/ part = "text" /\ TextNext
       \/ part # "text" /\ UNCHANGED textVars

machinesVars == <<part, fvars, tokenVars, startupVars, signInVars, conditionVars,
                  accessVars, textVars>>

\* The fairness is that of FairTokenSpec.
MachinesSpec ==
    /\ MachinesInit /\ [][MachinesNext]_machinesVars
    /\ WF_machinesVars(part = "token" /\ MachinesNext /\ Tick)
    /\ \A d \in Callers :
         /\ SF_tokenVars(TakeCached(d) \/ BeginFetch(d))
         /\ WF_tokenVars(FetchSucceeds(d) \/ FetchFails(d))

\* The types of the part that moves, and with them that the state and the
\* verifier in a browser are always those of one sign-in.
MachinesTypeOK ==
    /\ part = "file" => FileTypeOK
    /\ part = "token" => TokenTypeOK
    /\ part = "startup" => StartupTypeOK
    /\ part = "signin" => SignInTypeOK
    /\ part = "access" => AccessTypeOK
    /\ part = "text" => TextTypeOK
=============================================================================
