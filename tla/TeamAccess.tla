------------------------------ MODULE TeamAccess -------------------------------
(***************************************************************************)
(* Who may do what: the rules of the configuration                         *)
(* (internal/permissions/permissions.go and Config.Rules), what the pages  *)
(* offer because of them (List, Teams), and what a save is checked against *)
(* (Save and mutateTeamChecked), for one flag of one environment.          *)
(*                                                                         *)
(* The pages and the checks ask the same rules in different ways, for a    *)
(* team, for any team or for all rules of a group, and at different times: *)
(* in the single-file layout the flag's team is in the file and may change *)
(* in between, without Studio; in the layout of one file per team the file *)
(* is the team.                                                            *)
(***************************************************************************)
EXTENDS Integers, FiniteSets

CONSTANTS
    Everything,     \* "*", in a rule, for a team or an environment
    Anybody,        \* "*", in a rule, for a group
    OidcGroups,
    DeclaredTeams,  \* the teams of studio.yaml
    OtherTeams,     \* teams that a rule or a file names all the same
    NoTeam,
    Environments,
    Here,           \* the flag's environment
    Configurations, \* the configurations Studio may be started with
    Users,
    GroupsOf,       \* the groups of each user's session
    MaxMoves,       \* bound on changes of the flag's team
    Unseen          \* no configuration, no page

Actions == {"view", "toggle", "rollout", "edit_rules", "edit_variations", "create", "delete"}

Grantable ==
    [group : OidcGroups \cup {Anybody},
     teams : SUBSET (DeclaredTeams \cup OtherTeams \cup {Everything}),
     environments : SUBSET (Environments \cup {Everything}),
     actions : SUBSET Actions]

\* Studio does not start with a rule without a team.
ASSUME AccessAssumption ==
    /\ Configurations \subseteq
         [permissions : SUBSET {rule \in Grantable : rule.teams # {}},
          editors : [DeclaredTeams -> SUBSET OidcGroups],
          single : BOOLEAN]
    /\ GroupsOf \in [Users -> SUBSET OidcGroups]
    /\ Here \in Environments /\ Everything \notin Environments
    /\ Anybody \notin OidcGroups
    /\ NoTeam \notin DeclaredTeams \cup OtherTeams \cup {Everything}
    /\ Everything \notin DeclaredTeams \cup OtherTeams
    /\ DeclaredTeams \cap OtherTeams = {}
    /\ MaxMoves \in Nat

VARIABLES
    config,   \* the configuration Studio was started with, Unseen before
    owner,    \* the team of the flag
    page,     \* what a user was shown: the team, and the actions offered
    answer,   \* what became of the save a user made from that page
    moves     \* how often the flag's team was changed

accessVars == <<config, owner, page, answer, moves>>

(***************************************************************************)
(* The rules.  The editors of a team get one for all environments and      *)
(* actions.                                                                *)
(***************************************************************************)
EditorsRules(t) ==
    {[group |-> g, teams |-> {t}, environments |-> {}, actions |-> {}] :
       g \in config.editors[t]}

Granted == config.permissions \cup UNION {EditorsRules(t) : t \in DeclaredTeams}

HasGroup(groups, rule) == rule.group = Anybody \/ rule.group \in groups

EnvironmentMatches(rule, environment) ==
    \/ rule.environments = {}
    \/ Everything \in rule.environments
    \/ environment \in rule.environments

\* Any other action implies view.
ActionMatches(rule, action) ==
    \/ rule.actions = {}
    \/ action \in rule.actions
    \/ action = "view" /\ rule.actions \ {"view"} # {}

\* Only "*" reaches a flag without a team.
TeamMatches(rule, team) ==
    \/ Everything \in rule.teams
    \/ team # NoTeam /\ team \in rule.teams

Covers(rule, groups, environment, action) ==
    /\ HasGroup(groups, rule)
    /\ EnvironmentMatches(rule, environment)
    /\ ActionMatches(rule, action)

Allowed(groups, environment, team, action) ==
    \E rule \in Granted :
      Covers(rule, groups, environment, action) /\ TeamMatches(rule, team)

AllowedAnywhere(groups, environment, action) ==
    \E rule \in Granted : Covers(rule, groups, environment, action)

ActionsFor(groups, environment, team) ==
    {action \in Actions : Allowed(groups, environment, team, action)}

CanCreateEnvironments(groups) ==
    \E rule \in Granted :
      /\ HasGroup(groups, rule)
      /\ EnvironmentMatches(rule, Everything)
      /\ ActionMatches(rule, "create")

\* access: the team as the rules know it.
Access(team) == IF team \in DeclaredTeams THEN team ELSE NoTeam

(***************************************************************************)
(* GrantsFor, and what Teams makes of it for a user's page: the groups     *)
(* that a team's row lists, and whether they edit in some environment the  *)
(* user sees and have all teams in each.                                   *)
(***************************************************************************)

(* SEEDED FAULT: a rule that names no action grants none.                  *)
GrantsWritesNamed(rule) == rule.actions \ {"view"} # {}

GrantsWrites(rule) == \E action \in Actions \ {"view"} : ActionMatches(rule, action)

GrantsFor(environment, team) ==
    {rule \in Granted : EnvironmentMatches(rule, environment) /\ TeamMatches(rule, team)}

TeamEnvironments(groups, team) ==
    {e \in Environments : Allowed(groups, e, team, "view")}

TeamGroups(groups, team) ==
    LET seen == TeamEnvironments(groups, team)
        Of(g, e) == {rule \in GrantsFor(e, team) : rule.group = g}
        listed == {g \in OidcGroups \cup {Anybody} : \E e \in seen : Of(g, e) # {}}
    IN  {[name |-> g,
          edits |-> \E e \in seen : \E rule \in Of(g, e) : GrantsWrites(rule),
          allTeams |-> \A e \in seen : Of(g, e) # {} =>
                         \E rule \in Of(g, e) : Everything \in rule.teams] : g \in listed}

\* canEditAny, in some environment.
CanEdit(groups, team) ==
    \E e \in TeamEnvironments(groups, team) : ActionsFor(groups, e, team) \ {"view"} # {}

\* The teams List offers to create a flag in, and whether it offers that at all.
TeamOptions(groups, environment) ==
    {team \in DeclaredTeams \cup {NoTeam} : Allowed(groups, environment, team, "create")}

CanCreate(groups, environment) == AllowedAnywhere(groups, environment, "create")

(***************************************************************************)
(* Studio starts, a page is shown, and a save made from it.                *)
(***************************************************************************)
AccessInit ==
    /\ config = Unseen
    /\ owner \in DeclaredTeams \cup OtherTeams \cup {NoTeam}
    /\ page = [u \in Users |-> Unseen]
    /\ answer = [u \in Users |-> "none"]
    /\ moves = 0

StartStudio ==
    /\ config = Unseen
    /\ config' \in Configurations
    /\ UNCHANGED <<owner, page, answer, moves>>

(* SEEDED FAULT: an undeclared team is taken for a team.                   *)
ShowFlagAsOwned(u) ==
    /\ config # Unseen /\ page[u] = Unseen
    /\ AllowedAnywhere(GroupsOf[u], Here, "view")
    /\ Allowed(GroupsOf[u], Here, owner, "view")
    /\ page' = [page EXCEPT ![u] =
                  [team |-> owner, actions |-> ActionsFor(GroupsOf[u], Here, owner)]]
    /\ UNCHANGED <<config, owner, answer, moves>>

\* List and Get: the flag is not there for those who may not view it.
ShowFlag(u) ==
    /\ config # Unseen /\ page[u] = Unseen
    /\ AllowedAnywhere(GroupsOf[u], Here, "view")
    /\ Allowed(GroupsOf[u], Here, Access(owner), "view")
    /\ page' = [page EXCEPT ![u] =
                  [team |-> owner, actions |-> ActionsFor(GroupsOf[u], Here, Access(owner))]]
    /\ UNCHANGED <<config, owner, answer, moves>>

\* Save, of an action that the page offers: in the single-file layout against
\* any team before the file is read, and against the team in the file when it
\* is written; otherwise against the team whose file it is.
MaySave(u, action) ==
    IF config.single
      THEN /\ AllowedAnywhere(GroupsOf[u], Here, action)
           /\ Allowed(GroupsOf[u], Here, Access(owner), action)
      ELSE Allowed(GroupsOf[u], Here, Access(owner), action)

SaveShown(u) ==
    /\ page[u] # Unseen /\ answer[u] = "none"
    /\ \E action \in page[u].actions \ {"view"} :
         answer' = [answer EXCEPT ![u] = IF MaySave(u, action) THEN "saved" ELSE "forbidden"]
    /\ UNCHANGED <<config, owner, page, moves>>

\* Somebody edits metadata.team in the file.
MoveFlag ==
    /\ config # Unseen /\ config.single
    /\ moves < MaxMoves
    /\ moves' = moves + 1
    /\ owner' \in (DeclaredTeams \cup OtherTeams \cup {NoTeam}) \ {owner}
    /\ UNCHANGED <<config, page, answer>>

AccessNext ==
    \/ StartStudio
    \/ \E u \in Users : ShowFlag(u) \/ SaveShown(u)
    \/ MoveFlag

AccessSpec == AccessInit /\ [][AccessNext]_accessVars

(***************************************************************************)
(* Properties.                                                             *)
(***************************************************************************)
\* The types, and that nobody is shown the flag who may not view it.
AccessTypeOK ==
    /\ config \in Configurations \cup {Unseen}
    /\ owner \in DeclaredTeams \cup OtherTeams \cup {NoTeam}
    /\ page \in [Users -> {Unseen} \cup
                   [team : DeclaredTeams \cup OtherTeams \cup {NoTeam}, actions : SUBSET Actions]]
    /\ answer \in [Users -> {"none", "saved", "forbidden"}]
    /\ moves \in 0..MaxMoves
    /\ \A u \in Users : page[u] # Unseen => "view" \in page[u].actions

(***************************************************************************)
(* README.md:363, "Any action implies view": who may do anything to a flag *)
(* sees it, whichever rules together allow it, and who may create it in an *)
(* environment sees the environment.                                       *)
(***************************************************************************)
ViewIsImplied ==
    config # Unseen =>
    \A groups \in SUBSET OidcGroups, e \in Environments, action \in Actions :
      /\ \A team \in DeclaredTeams \cup {NoTeam} :
           Allowed(groups, e, team, action) => Allowed(groups, e, team, "view")
      /\ AllowedAnywhere(groups, e, action) => AllowedAnywhere(groups, e, "view")

(***************************************************************************)
(* The page of teams is consistent: it tells a user "you can edit" exactly *)
(* if one of the groups it lists as editing is the user's, or everybody's. *)
(***************************************************************************)
EditorsAreListed ==
    config # Unseen =>
    \A groups \in SUBSET OidcGroups, team \in DeclaredTeams :
      CanEdit(groups, team) <=>
        \E row \in TeamGroups(groups, team) : row.edits /\ row.name \in groups \cup {Anybody}

(***************************************************************************)
(* Creating a flag is offered exactly if there is a team, or none, to      *)
(* create it in, unless a rule names a team that is not declared, of which *)
(* Studio warns; and who may create an environment of any name may create  *)
(* flags in it.                                                            *)
(***************************************************************************)
CreateIsOffered ==
    config # Unseen =>
    \A groups \in SUBSET OidcGroups, e \in Environments :
      /\ (\A rule \in Granted : rule.teams \cap OtherTeams = {}) =>
           (CanCreate(groups, e) <=> TeamOptions(groups, e) # {})
      /\ CanCreateEnvironments(groups) => CanCreate(groups, e)

(***************************************************************************)
(* The questions the pages ask of the rules, of one team, of any team and  *)
(* of the rules of a group, have answers that fit together.                *)
(***************************************************************************)
PagesMatchRules == ViewIsImplied /\ EditorsAreListed /\ CreateIsOffered

(***************************************************************************)
(* What a page offers is allowed: a save is refused only if the flag has   *)
(* got another team since, and only in the single-file layout.             *)
(***************************************************************************)
OfferedIsAllowed ==
    \A u \in Users :
      answer[u] = "forbidden" => moves > 0 /\ config.single
================================================================================
