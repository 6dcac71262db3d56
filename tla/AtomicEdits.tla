---------------------------- MODULE AtomicEdits ----------------------------
(***************************************************************************)
(* What saving a flag promises, with no storage in sight: there is one     *)
(* file, and each request takes effect, or is turned down, at one instant, *)
(* on the file as it is at that instant.  A request that carries the flag  *)
(* its user was looking at takes effect only while the file still holds    *)
(* that flag as far as sameFlagState can tell.                             *)
(***************************************************************************)
EXTENDS FlagFile

CONSTANTS
    Request,    \* one save, delete or rename each
    NoDemand,   \* the request has not been made yet
    Resending   \* the requests whose write may reach the storage twice

VARIABLES
    file,       \* the flag file's content
    demand,     \* demand[r]: the edit r asks for and the flag it was shown
    outcome     \* outcome[r]: what r was told, "none" until then

vars == <<file, demand, outcome>>

Demand == [edit: Edit, loaded: Flag \cup {NoFlag}]

Outcome == {"none", "saved", "conflict", "notFound", "refused",
            "keptChanging", "failed"}

Init ==
    /\ file \in File
    /\ demand = [r \in Request |-> NoDemand]
    /\ outcome = [r \in Request |-> "none"]

Pending(r) == demand[r] # NoDemand /\ outcome[r] = "none"

Answer(r, o) == outcome' = [outcome EXCEPT ![r] = o]

Ask(r, d) ==
    /\ demand[r] = NoDemand
    /\ demand' = [demand EXCEPT ![r] = d]
    /\ UNCHANGED <<file, outcome>>

Permitted(r) == ~flagChanged(demand[r].loaded, demand[r].edit.key, file)

(* The edit happens.  The user may hear that it failed; if the write is    *)
(* delivered again, its own effect may look like somebody else's.          *)
TakeEffect(r) ==
    /\ Pending(r)
    /\ Permitted(r)
    /\ \E t \in Time :
         /\ Objection(demand[r].edit, file, t) = "none"
         /\ file' = Edited(demand[r].edit, file, t)
    /\ \/ \E o \in {"saved", "failed"} : Answer(r, o)
       \/ r \in Resending /\ (UNCHANGED outcome \/ Answer(r, "keptChanging"))
    /\ UNCHANGED demand

(* The request is turned down, truthfully, and changes nothing.            *)
TurnDown(r) ==
    /\ Pending(r)
    /\ \/ ~Permitted(r) /\ Answer(r, "conflict")
       \/ /\ Permitted(r)
          /\ \E t \in Time :
               LET no == Objection(demand[r].edit, file, t)
               IN  no # "none" /\ Answer(r, no)
       \/ \E o \in {"keptChanging", "failed"} : Answer(r, o)
    /\ UNCHANGED <<file, demand>>

(* Somebody commits to the repository or uploads to the bucket directly.   *)
EditElsewhere(content) ==
    /\ file' = content
    /\ UNCHANGED <<demand, outcome>>

Next ==
    \/ \E r \in Request :
         \/ \E d \in Demand : Ask(r, d)
         \/ TakeEffect(r)
         \/ TurnDown(r)
    \/ \E content \in Content : EditElsewhere(content)

Spec == Init /\ [][Next]_vars
=============================================================================
