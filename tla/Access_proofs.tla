--------------------------- MODULE Access_proofs ----------------------------
(***************************************************************************)
(* Proofs about who gets in, and to what.                                  *)
(*   SignIn, for any number of tabs, any ages of the cookies and any       *)
(* lifetimes of id tokens.                                                 *)
(*   TeamAccess, for every configuration, user and team.  Three of its     *)
(* properties are about the rules alone and hold of any rules Studio       *)
(* starts with; the last one is about time, and follows from what a page   *)
(* shows while the flag's team stays (PagesAreTrue).                       *)
(***************************************************************************)
EXTENDS SignIn, TeamAccess, TLAPS

-----------------------------------------------------------------------------
(* SignIn.                                                                 *)

Answers == [page : {"none", "app", "failed"}, own : BOOLEAN, session : Sessions]

LEMMA NothingIsTyped == NoSession \in Sessions /\ NoAnswer \in Answers
<1>1. NoSession \in Sessions
  BY DEF NoSession, Sessions
<1> QED
  BY <1>1 DEF NoAnswer, Answers

LEMMA FailedIsTyped == \A own \in BOOLEAN : Failed(own) \in Answers
  BY NothingIsTyped DEF Failed, FailedPage, Answers

LEMMA FailedShowsPage == \A own : Failed(own).page # "none"
  BY DEF Failed, FailedPage

LEMMA SealedIsTyped ==
    ASSUME NEW a \in Attempts, NEW lifetime \in IdLifetimes, clock \in Nat
    PROVE  Sealed(a, lifetime) \in Sessions
<1>1. lifetime = Unlimited \/ lifetime \in Nat
  BY SignInAssumption
<1>2. (IF lifetime = Unlimited \/ lifetime > SessionAge THEN SessionAge ELSE lifetime) \in Nat
  BY <1>1, SignInAssumption
<1> QED
  BY <1>1, <1>2 DEF Sealed, Sessions

LEMMA SignInInitTypes == SignInInit => SignInTypeOK
<1> SUFFICES ASSUME SignInInit PROVE SignInTypeOK
  OBVIOUS
<1>1. flying \in [Attempts -> Answers]
  BY NothingIsTyped DEF SignInInit
<1>2. jar \in [state : Attempts \cup {Absent}, verifier : Attempts \cup {Absent},
               until : Nat, session : Sessions]
  BY NothingIsTyped DEF SignInInit
<1> QED
  BY <1>1, <1>2 DEF SignInInit, SignInTypeOK, Answers

\* An answer that is on its way shows a page.
AnswersShowPages == \A a \in Attempts : flying[a].page = "none" => flying[a] = NoAnswer

(***************************************************************************)
(* What an answer does to the tab it is for.                               *)
(***************************************************************************)
LEMMA CallbackTypes ==
    ASSUME SignInTypeOK, NEW a \in Attempts, BackFromProvider(a),
           NEW reply \in Answers, Answer(a, reply),
           reply.page # "none", AnswersShowPages,
           used' \subseteq Attempts, faults' \in BOOLEAN
    PROVE  SignInTypeOK' /\ AnswersShowPages'
<1>1. flying' \in [Attempts -> Answers]
  BY DEF SignInTypeOK, Answer, Answers
<1>2. tab' \in [Attempts -> {"new", "provider", "callback", "app", "failed"}]
  BY DEF SignInTypeOK, BackFromProvider
<1>3. UNCHANGED <<clock, jar, code, newest, entered>>
  BY DEF BackFromProvider
<1>4. AnswersShowPages'
  BY DEF SignInTypeOK, Answer, AnswersShowPages
<1> QED
  BY <1>1, <1>2, <1>3, <1>4 DEF SignInTypeOK, Answers

LEMMA SignInStepTypes ==
    SignInTypeOK /\ AnswersShowPages /\ [SignInNext]_signInVars
      => SignInTypeOK' /\ AnswersShowPages'
<1> SUFFICES ASSUME SignInTypeOK, AnswersShowPages, [SignInNext]_signInVars
             PROVE  SignInTypeOK' /\ AnswersShowPages'
  OBVIOUS
<1>1. ASSUME NEW a \in Attempts, LoginArrives(a) PROVE SignInTypeOK' /\ AnswersShowPages'
  <2>1. jar' = [jar EXCEPT !.state = a, !.verifier = a, !.until = clock + CookieAge]
    BY <1>1 DEF LoginArrives
  <2>2. clock + CookieAge \in Nat
    BY SignInAssumption DEF SignInTypeOK
  <2>3. /\ jar' \in [state : Attempts \cup {Absent}, verifier : Attempts \cup {Absent},
                    until : Nat, session : Sessions]
        /\ jar'.state = jar'.verifier
    BY <2>1, <2>2 DEF SignInTypeOK
  <2>4. tab' \in [Attempts -> {"new", "provider", "callback", "app", "failed"}]
    BY <1>1 DEF LoginArrives, SignInTypeOK
  <2> QED
    BY <1>1, <2>3, <2>4 DEF LoginArrives, SignInTypeOK, AnswersShowPages
<1>2. ASSUME NEW a \in Attempts, ProviderAnswers(a) PROVE SignInTypeOK' /\ AnswersShowPages'
  <2>1. /\ code' \in [Attempts -> {"none", "code", "error"}]
        /\ faults' \in BOOLEAN
    BY <1>2 DEF ProviderAnswers, SignInTypeOK
  <2> QED
    BY <1>2, <2>1 DEF ProviderAnswers, SignInTypeOK, AnswersShowPages
<1>3. ASSUME NEW a \in Attempts, CallbackUnmatched(a) PROVE SignInTypeOK' /\ AnswersShowPages'
  BY <1>3, FailedIsTyped, FailedShowsPage, CallbackTypes DEF CallbackUnmatched, SignInTypeOK
<1>4. ASSUME NEW a \in Attempts, CallbackRefused(a) PROVE SignInTypeOK' /\ AnswersShowPages'
  BY <1>4, FailedIsTyped, FailedShowsPage, CallbackTypes DEF CallbackRefused, SignInTypeOK
<1>5. ASSUME NEW a \in Attempts, CallbackSignsIn(a) PROVE SignInTypeOK' /\ AnswersShowPages'
  <2>1. PICK lifetime \in IdLifetimes :
          Answer(a, [page |-> "app", own |-> TRUE, session |-> Sealed(a, lifetime)])
    BY <1>5 DEF CallbackSignsIn
  <2>2. [page |-> "app", own |-> TRUE, session |-> Sealed(a, lifetime)] \in Answers
    BY <2>1, SealedIsTyped DEF Answers, SignInTypeOK
  <2> QED
    BY <1>5, <2>1, <2>2, CallbackTypes DEF CallbackSignsIn, SignInTypeOK
<1>6. ASSUME NEW a \in Attempts, CallbackFails(a) PROVE SignInTypeOK' /\ AnswersShowPages'
  BY <1>6, FailedIsTyped, FailedShowsPage, CallbackTypes DEF CallbackFails, SignInTypeOK
<1>7. ASSUME NEW a \in Attempts, AnswerArrives(a) PROVE SignInTypeOK' /\ AnswersShowPages'
  <2>1. flying[a] \in Answers /\ jar.state = jar.verifier
    BY DEF SignInTypeOK, Answers
  <2>2. /\ JarAfter(a) \in [state : Attempts \cup {Absent}, verifier : Attempts \cup {Absent},
                            until : Nat, session : Sessions]
        /\ JarAfter(a).state = JarAfter(a).verifier
    BY <2>1 DEF JarAfter, Cleared, SignInTypeOK, Answers
  <2>3. flying' \in [Attempts -> Answers]
    BY <1>7, NothingIsTyped DEF AnswerArrives, SignInTypeOK, Answers
  <2>4. flying[a].page \in {"app", "failed"}
    BY <1>7, <2>1 DEF AnswerArrives, AnswersShowPages, Answers
  <2>5. tab' \in [Attempts -> {"new", "provider", "callback", "app", "failed"}]
    BY <1>7, <2>4 DEF AnswerArrives, SignInTypeOK
  <2>6. AnswersShowPages'
    BY <1>7 DEF AnswerArrives, AnswersShowPages, SignInTypeOK
  <2> QED
    BY <1>7, <2>1, <2>2, <2>3, <2>5, <2>6 DEF AnswerArrives, SignInTypeOK, Answers
<1>8. CASE Logout
  BY <1>8, NothingIsTyped DEF Logout, SignInTypeOK, AnswersShowPages
<1>9. CASE SignInTick
  BY <1>9 DEF SignInTick, SignInTypeOK, AnswersShowPages
<1>10. CASE UNCHANGED signInVars
  BY <1>10 DEF signInVars, SignInTypeOK, AnswersShowPages
<1> QED
  BY <1>1, <1>2, <1>3, <1>4, <1>5, <1>6, <1>7, <1>8, <1>9, <1>10 DEF SignInNext, Callback

(***************************************************************************)
(* The types; and that the state and verifier cookies are always those of  *)
(* one and the same sign-in, whichever answers came in whichever order.    *)
(***************************************************************************)
THEOREM SignInTypes == SignInSpec => []SignInTypeOK
<1>1. SignInInit => AnswersShowPages
  BY DEF SignInInit, AnswersShowPages
<1> QED
  BY <1>1, SignInInitTypes, SignInStepTypes, PTL DEF SignInSpec

-----------------------------------------------------------------------------
(***************************************************************************)
(* The session in the jar, and those on their way to it, end in time.      *)
(***************************************************************************)
EndsInTime(session) ==
    /\ session.expiry <= session.at + SessionAge
    /\ session.lifetime # Unlimited => session.expiry <= session.at + session.lifetime

SessionsEndInTime ==
    /\ EndsInTime(jar.session)
    /\ \A a \in Attempts : EndsInTime(flying[a].session)

LEMMA NoSessionEnds == EndsInTime(NoSession)
  BY SignInAssumption DEF EndsInTime, NoSession

LEMMA SealedEnds ==
    ASSUME NEW a \in Attempts, NEW lifetime \in IdLifetimes, clock \in Nat
    PROVE  EndsInTime(Sealed(a, lifetime))
<1>1. CASE lifetime = Unlimited
  BY <1>1, SignInAssumption DEF EndsInTime, Sealed
<1>2. CASE lifetime \in Nat /\ lifetime # Unlimited /\ lifetime > SessionAge
  BY <1>2, SignInAssumption DEF EndsInTime, Sealed
<1>3. CASE lifetime \in Nat /\ lifetime # Unlimited /\ ~(lifetime > SessionAge)
  BY <1>3, SignInAssumption DEF EndsInTime, Sealed
<1> QED
  BY <1>1, <1>2, <1>3, SignInAssumption

LEMMA AnswerEnds ==
    ASSUME SignInTypeOK, SessionsEndInTime, NEW a \in Attempts, NEW reply,
           Answer(a, reply), EndsInTime(reply.session), UNCHANGED jar
    PROVE  SessionsEndInTime'
<1>1. \A d \in Attempts : EndsInTime(flying'[d].session)
  BY DEF Answer, SessionsEndInTime, SignInTypeOK
<1> QED
  BY <1>1 DEF SessionsEndInTime, EndsInTime

LEMMA FailedEnds == \A own : EndsInTime(Failed(own).session)
  BY NoSessionEnds DEF Failed

LEMMA SessionsStep ==
    SignInTypeOK /\ SessionsEndInTime /\ [SignInNext]_signInVars => SessionsEndInTime'
<1> SUFFICES ASSUME SignInTypeOK, SessionsEndInTime, [SignInNext]_signInVars
             PROVE  SessionsEndInTime'
  OBVIOUS
<1>1. ASSUME NEW a \in Attempts, LoginArrives(a) PROVE SessionsEndInTime'
  <2>1. jar'.session = jar.session /\ flying' = flying
    BY <1>1 DEF LoginArrives, SignInTypeOK
  <2> QED
    BY <2>1 DEF SessionsEndInTime, EndsInTime
<1>2. ASSUME NEW a \in Attempts, ProviderAnswers(a) PROVE SessionsEndInTime'
  BY <1>2 DEF ProviderAnswers, SessionsEndInTime, EndsInTime
<1>3. ASSUME NEW a \in Attempts,
             CallbackUnmatched(a) \/ CallbackRefused(a) \/ CallbackFails(a)
      PROVE  SessionsEndInTime'
  BY <1>3, FailedEnds, AnswerEnds
     DEF CallbackUnmatched, CallbackRefused, CallbackFails, BackFromProvider
<1>4. ASSUME NEW a \in Attempts, CallbackSignsIn(a) PROVE SessionsEndInTime'
  <2>1. PICK lifetime \in IdLifetimes :
          Answer(a, [page |-> "app", own |-> TRUE, session |-> Sealed(a, lifetime)])
    BY <1>4 DEF CallbackSignsIn
  <2>2. EndsInTime(Sealed(a, lifetime))
    BY <2>1, SealedEnds DEF SignInTypeOK
  <2> QED
    BY <1>4, <2>1, <2>2, AnswerEnds DEF CallbackSignsIn, BackFromProvider
<1>5. ASSUME NEW a \in Attempts, AnswerArrives(a) PROVE SessionsEndInTime'
  <2>1. jar'.session = jar.session \/ jar'.session = flying[a].session
    BY <1>5 DEF AnswerArrives, JarAfter, Cleared, SignInTypeOK
  <2>2. \A d \in Attempts :
          \/ flying'[d].session = flying[d].session
          \/ flying'[d].session = NoSession
    BY <1>5 DEF AnswerArrives, SignInTypeOK, NoAnswer
  <2>3. EndsInTime(jar'.session)
    BY <2>1 DEF SessionsEndInTime
  <2>4. \A d \in Attempts : EndsInTime(flying'[d].session)
    BY <2>2, NoSessionEnds DEF SessionsEndInTime
  <2> QED
    BY <2>3, <2>4 DEF SessionsEndInTime, EndsInTime
<1>6. CASE Logout
  <2>1. jar'.session = NoSession /\ flying' = flying
    BY <1>6 DEF Logout, SignInTypeOK
  <2> QED
    BY <2>1, NoSessionEnds DEF SessionsEndInTime, EndsInTime
<1>7. CASE SignInTick
  BY <1>7 DEF SignInTick, SessionsEndInTime, EndsInTime
<1>8. CASE UNCHANGED signInVars
  BY <1>8 DEF signInVars, SessionsEndInTime, EndsInTime
<1> QED
  BY <1>1, <1>2, <1>3, <1>4, <1>5, <1>6, <1>7, <1>8 DEF SignInNext, Callback

(***************************************************************************)
(* Sealer.Read honours no session beyond SessionAge or the id token.       *)
(***************************************************************************)
THEOREM SessionsAlwaysEnd == SignInSpec => []SessionsEnd
<1>1. SignInInit => SessionsEndInTime
  BY NoSessionEnds DEF SignInInit, SessionsEndInTime, NoAnswer
<1>2. SignInTypeOK /\ SessionsEndInTime => SessionsEnd
  BY SignInAssumption
     DEF SignInTypeOK, SessionsEndInTime, EndsInTime, SessionsEnd, SignedIn, Sessions
<1> QED
  BY <1>1, <1>2, SessionsStep, SignInTypes, PTL DEF SignInSpec

-----------------------------------------------------------------------------
(***************************************************************************)
(* Replays.  The answer that brings a session clears the state and the     *)
(* verifier of its sign-in, which no later login sets again, so that no    *)
(* callback of a tab that got in ever matches (Closed), and what is on its *)
(* way to that tab neither sets nor clears anything.                       *)
(***************************************************************************)
Closed(a) ==
    /\ tab[a] # "new"
    /\ jar.state # a
    /\ flying[a].own = FALSE /\ flying[a].session = NoSession

OwnSession(a) ==
    /\ flying[a].session # NoSession => flying[a].session.from = a /\ flying[a].own
    /\ jar.session.from = a => a \in entered
    /\ SignedIn /\ jar.session.from = a => flying[a].page # "failed"

ReplayInv == \A a \in Attempts : OwnSession(a) /\ (a \in entered => Closed(a))

\* A tab's callback is answered: as one that does not match if it got in.
LEMMA ReplayAnswered ==
    ASSUME SignInTypeOK, ReplayInv, NEW a \in Attempts, BackFromProvider(a),
           NEW reply, Answer(a, reply),
           reply.session # NoSession => reply.session.from = a /\ reply.own,
           SignedIn => reply.page # "failed",
           a \in entered => reply.own = FALSE /\ reply.session = NoSession
    PROVE  ReplayInv'
<1>1. /\ UNCHANGED <<clock, jar, entered>>
      /\ tab' = [tab EXCEPT ![a] = "callback"]
      /\ flying' = [flying EXCEPT ![a] = reply]
  BY DEF BackFromProvider, Answer
<1>2. SUFFICES ASSUME NEW d \in Attempts
               PROVE  OwnSession(d)' /\ (d \in entered => Closed(d))'
  BY DEF ReplayInv
<1>3. OwnSession(d) /\ (d \in entered => Closed(d))
  BY DEF ReplayInv
<1>4. SignedIn' = SignedIn
  BY <1>1 DEF SignedIn
<1>5. CASE d = a
  BY <1>1, <1>3, <1>4, <1>5 DEF OwnSession, Closed, SignInTypeOK
<1>6. CASE d # a
  BY <1>1, <1>3, <1>4, <1>6 DEF OwnSession, Closed, SignInTypeOK
<1> QED
  BY <1>5, <1>6

LEMMA FailedAnswers ==
    \A own : /\ Failed(own).own = own /\ Failed(own).session = NoSession
             /\ SignedIn => Failed(own).page # "failed"
  BY DEF Failed, FailedPage

LEMMA ReplayStep ==
    SignInTypeOK /\ ReplayInv /\ [SignInNext]_signInVars => ReplayInv'
<1> SUFFICES ASSUME SignInTypeOK, ReplayInv, [SignInNext]_signInVars
             PROVE  ReplayInv'
  OBVIOUS
<1>0. \A d \in Attempts : OwnSession(d) /\ (d \in entered => Closed(d))
  BY DEF ReplayInv
<1>m. \A a \in Attempts : StateMatches(a) => a \notin entered
  BY <1>0 DEF StateMatches, Closed
<1>1. ASSUME NEW a \in Attempts, LoginArrives(a) PROVE ReplayInv'
  <2>1. /\ tab[a] = "new" /\ tab' = [tab EXCEPT ![a] = "provider"]
        /\ jar'.state = a /\ jar'.session = jar.session
        /\ UNCHANGED <<clock, flying, entered>>
    BY <1>1 DEF LoginArrives, SignInTypeOK
  <2>2. a \notin entered /\ SignedIn' = SignedIn
    BY <1>0, <2>1 DEF Closed, SignedIn
  <2> QED
    BY <1>0, <2>1, <2>2 DEF ReplayInv, OwnSession, Closed, SignInTypeOK
<1>2. ASSUME NEW a \in Attempts, ProviderAnswers(a) PROVE ReplayInv'
  BY <1>0, <1>2 DEF ProviderAnswers, ReplayInv, OwnSession, Closed, SignedIn
<1>3. ASSUME NEW a \in Attempts, CallbackUnmatched(a) PROVE ReplayInv'
  BY <1>3, FailedAnswers, ReplayAnswered DEF CallbackUnmatched
<1>4. ASSUME NEW a \in Attempts, CallbackRefused(a) PROVE ReplayInv'
  BY <1>4, <1>m, FailedAnswers, ReplayAnswered DEF CallbackRefused
<1>5. ASSUME NEW a \in Attempts, CallbackSignsIn(a) PROVE ReplayInv'
  <2>1. PICK lifetime \in IdLifetimes :
          Answer(a, [page |-> "app", own |-> TRUE, session |-> Sealed(a, lifetime)])
    BY <1>5 DEF CallbackSignsIn
  <2>2. Sealed(a, lifetime).from = a
    BY DEF Sealed
  <2> QED
    BY <1>5, <1>m, <2>1, <2>2, ReplayAnswered DEF CallbackSignsIn
<1>6. ASSUME NEW a \in Attempts, CallbackFails(a) PROVE ReplayInv'
  BY <1>6, <1>m, FailedAnswers, ReplayAnswered DEF CallbackFails
<1>7. ASSUME NEW a \in Attempts, AnswerArrives(a) PROVE ReplayInv'
  <2>1. /\ flying[a] # NoAnswer /\ jar' = JarAfter(a)
        /\ tab' = [tab EXCEPT ![a] = flying[a].page]
        /\ flying' = [flying EXCEPT ![a] = NoAnswer]
        /\ entered' = IF flying[a].session = NoSession THEN entered ELSE entered \cup {a}
        /\ clock' = clock
    BY <1>7 DEF AnswerArrives
  <2>2. /\ NoAnswer.own = FALSE /\ NoAnswer.session = NoSession
        /\ NoAnswer.page = "none"
    BY DEF NoAnswer
  <2>3. flying[a].page # "new"
    BY DEF SignInTypeOK
  <2>4. \A d \in Attempts : d # Absent
    BY SignInAssumption
  <2>5. CASE flying[a].session = NoSession
    <3>1. /\ jar'.session = jar.session /\ entered' = entered
          /\ jar'.state \in {jar.state, Absent}
      BY <2>1, <2>5 DEF JarAfter, Cleared, SignInTypeOK
    <3>2. SignedIn' = SignedIn
      BY <2>1, <3>1 DEF SignedIn
    <3>3. ASSUME NEW d \in Attempts PROVE OwnSession(d)' /\ (d \in entered => Closed(d))'
      <4>1. CASE d = a
        BY <1>0, <2>1, <2>2, <2>3, <2>4, <3>1, <3>2, <4>1
           DEF OwnSession, Closed, SignInTypeOK
      <4>2. CASE d # a
        BY <1>0, <2>1, <2>4, <3>1, <3>2, <4>2 DEF OwnSession, Closed, SignInTypeOK
      <4> QED
        BY <4>1, <4>2
    <3> QED
      BY <3>3 DEF ReplayInv
  <2>6. CASE flying[a].session # NoSession
    <3>1. flying[a].session.from = a /\ flying[a].own
      BY <1>0, <2>6 DEF OwnSession
    <3>2. /\ jar'.session.from = a /\ entered' = entered \cup {a}
          /\ jar'.state = Absent
      BY <2>1, <2>6, <3>1 DEF JarAfter, Cleared, SignInTypeOK
    <3>3. ASSUME NEW d \in Attempts PROVE OwnSession(d)' /\ (d \in entered => Closed(d))'
      <4>1. CASE d = a
        BY <2>1, <2>2, <2>3, <2>4, <3>2, <4>1 DEF OwnSession, Closed, SignInTypeOK
      <4>2. CASE d # a
        BY <1>0, <2>1, <2>4, <3>2, <4>2 DEF OwnSession, Closed, SignInTypeOK
      <4> QED
        BY <4>1, <4>2
    <3> QED
      BY <3>3 DEF ReplayInv
  <2> QED
    BY <2>5, <2>6
<1>8. CASE Logout
  <2>1. /\ jar'.session = NoSession /\ jar'.state = jar.state
        /\ UNCHANGED <<tab, flying, entered>>
    BY <1>8 DEF Logout, SignInTypeOK
  <2>2. ~SignedIn' /\ \A d \in Attempts : jar'.session.from # d
    BY <2>1, SignInAssumption DEF SignedIn, NoSession
  <2> QED
    BY <1>0, <2>1, <2>2 DEF ReplayInv, OwnSession, Closed
<1>9. CASE SignInTick
  <2>1. clock' = clock + 1 /\ UNCHANGED <<jar, tab, flying, entered>>
    BY <1>9 DEF SignInTick
  <2>2. SignedIn' => SignedIn
    BY <2>1 DEF SignedIn, SignInTypeOK, Sessions
  <2> QED
    BY <1>0, <2>1, <2>2 DEF ReplayInv, OwnSession, Closed
<1>10. CASE UNCHANGED signInVars
  BY <1>0, <1>10 DEF signInVars, ReplayInv, OwnSession, Closed, SignedIn
<1> QED
  BY <1>1, <1>2, <1>3, <1>4, <1>5, <1>6, <1>7, <1>8, <1>9, <1>10
     DEF SignInNext, Callback

(***************************************************************************)
(* A callback is harmless once its sign-in got a session: its answers      *)
(* change neither the session nor another tab's sign-in, in whatever order *)
(* they come, and show no failure while the session lasts.                 *)
(***************************************************************************)
THEOREM ReplaysHarmless == SignInSpec => []ReplaysAreHarmless
<1>1. SignInInit => ReplayInv
  <2>1. SUFFICES ASSUME SignInInit, NEW a \in Attempts
                 PROVE  OwnSession(a) /\ (a \in entered => Closed(a))
    BY DEF ReplayInv
  <2>2. /\ flying[a] = NoAnswer /\ jar.session = NoSession /\ entered = {}
    BY <2>1 DEF SignInInit
  <2>3. /\ NoAnswer.session = NoSession /\ NoSession.from # a
    BY SignInAssumption DEF NoAnswer, NoSession
  <2> QED
    BY <2>2, <2>3 DEF OwnSession
<1>2. SignInTypeOK /\ AnswersShowPages /\ ReplayInv => ReplaysAreHarmless
  <2>1. SUFFICES ASSUME SignInTypeOK, AnswersShowPages, ReplayInv,
                        NEW a \in entered, flying[a] # NoAnswer
                 PROVE  /\ JarAfter(a) = jar
                        /\ SignedIn /\ jar.session.from = a => flying[a].page = "app"
    BY DEF ReplaysAreHarmless
  <2>2. a \in Attempts /\ OwnSession(a) /\ Closed(a)
    BY <2>1 DEF ReplayInv, SignInTypeOK
  <2>3. flying[a].page \in {"app", "failed"}
    BY <2>1, <2>2 DEF AnswersShowPages, SignInTypeOK
  <2> QED
    BY <2>2, <2>3 DEF OwnSession, Closed, JarAfter
<1>3. SignInSpec => []AnswersShowPages
  <2>1. SignInInit => AnswersShowPages
    BY DEF SignInInit, AnswersShowPages
  <2> QED
    BY <2>1, SignInInitTypes, SignInStepTypes, PTL DEF SignInSpec
<1> QED
  BY <1>1, <1>2, <1>3, ReplayStep, SignInTypes, PTL DEF SignInSpec
-----------------------------------------------------------------------------
(***************************************************************************)
(* Tabs do not keep each other out.  Without a fault only an answer with a *)
(* session clears the cookies of a sign-in (Clearing), so the cookies of   *)
(* the newest login are in the jar unless a session has come instead, or   *)
(* they have become too old (NewestHolds); a tab that has not signed in    *)
(* yet has nothing on its way.                                             *)
(***************************************************************************)
Untouched == \A a \in Attempts : tab[a] = "new" => code[a] = "none" /\ flying[a] = NoAnswer

Clearing ==
    ~faults => \A a \in Attempts :
                 code[a] # "error" /\ (flying[a].own => flying[a].session # NoSession)

NewestHolds ==
    ~faults /\ newest # Absent =>
        clock >= jar.until \/ jar.session # NoSession \/ jar.state = newest

NewestInv == Untouched /\ Clearing /\ NewestHolds /\ NewestGetsIn

\* A session that was sealed for a tab is one.
LEMMA SealedIsSession ==
    ASSUME NEW a \in Attempts, NEW lifetime
    PROVE  Sealed(a, lifetime) # NoSession
<1>1. Sealed(a, lifetime).from = a /\ NoSession.from = Absent
  BY DEF Sealed, NoSession
<1> QED
  BY <1>1, SignInAssumption

\* A callback is answered; nothing else changes but what it says of faults.
LEMMA CallbackKeeps ==
    ASSUME SignInTypeOK, NewestInv, NEW a \in Attempts, BackFromProvider(a),
           NEW reply, Answer(a, reply), (faults' = faults) \/ faults',
           ~faults' => /\ reply.own => reply.session # NoSession
                       /\ reply.page = "failed" =>
                            ~(StateMatches(a) /\ HasVerifier)
    PROVE  NewestInv'
<1>1. /\ UNCHANGED <<clock, jar, code, newest>>
      /\ code[a] # "none"
      /\ tab' = [tab EXCEPT ![a] = "callback"]
      /\ flying' = [flying EXCEPT ![a] = reply]
  BY DEF BackFromProvider, Answer
<1>2. ~faults' => ~faults
  OBVIOUS
<1>3. Untouched'
  BY <1>1 DEF NewestInv, Untouched, SignInTypeOK
<1>4. Clearing'
  BY <1>1, <1>2 DEF NewestInv, Clearing, SignInTypeOK
<1>5. NewestHolds'
  BY <1>1, <1>2 DEF NewestInv, NewestHolds
<1>6. ASSUME NEW d \in Attempts, d = newest', ~faults', flying'[d].page = "failed"
      PROVE  clock' >= jar'.until \/ jar'.session # NoSession
  <2>1. CASE d = a
    <3>1. ~(StateMatches(a) /\ HasVerifier) /\ newest = a
      BY <1>1, <1>6, <2>1 DEF SignInTypeOK
    <3>2. jar.state = a => ~(clock < jar.until)
      BY <3>1, SignInAssumption DEF StateMatches, HasVerifier, SignInTypeOK
    <3>3. clock \in Nat /\ jar.until \in Nat
      BY DEF SignInTypeOK
    <3>4. clock >= jar.until \/ jar.session # NoSession \/ jar.state = a
      BY <1>2, <1>6, <3>1, SignInAssumption DEF NewestInv, NewestHolds
    <3> QED
      BY <1>1, <3>2, <3>3, <3>4
  <2>2. CASE d # a
    BY <1>1, <1>2, <1>6, <2>2 DEF NewestInv, NewestGetsIn, SignInTypeOK
  <2> QED
    BY <2>1, <2>2
<1> QED
  BY <1>3, <1>4, <1>5, <1>6 DEF NewestInv, NewestGetsIn

LEMMA NewestStep ==
    SignInTypeOK /\ NewestInv /\ [SignInNext]_signInVars => NewestInv'
<1> SUFFICES ASSUME SignInTypeOK, NewestInv, [SignInNext]_signInVars
             PROVE  NewestInv'
  OBVIOUS
<1>1. ASSUME NEW a \in Attempts, LoginArrives(a) PROVE NewestInv'
  <2>1. /\ tab[a] = "new" /\ newest' = a /\ jar'.state = a
        /\ tab' = [tab EXCEPT ![a] = "provider"]
        /\ UNCHANGED <<clock, code, flying, faults>>
    BY <1>1 DEF LoginArrives, SignInTypeOK
  <2>2. flying'[a].page = "none"
    BY <2>1 DEF NewestInv, Untouched, NoAnswer
  <2> QED
    BY <2>1, <2>2
       DEF NewestInv, Untouched, Clearing, NewestHolds, NewestGetsIn, SignInTypeOK
<1>2. ASSUME NEW a \in Attempts, ProviderAnswers(a) PROVE NewestInv'
  <2>1. PICK reply \in {"code", "error"} :
          /\ code' = [code EXCEPT ![a] = reply]
          /\ faults' = (faults \/ reply = "error")
    BY <1>2 DEF ProviderAnswers
  <2>2. tab[a] = "provider" /\ UNCHANGED <<clock, jar, tab, flying, newest>>
    BY <1>2 DEF ProviderAnswers
  <2>3. ~faults' => ~faults /\ reply = "code"
    BY <2>1
  <2>4. Untouched'
    BY <2>1, <2>2 DEF NewestInv, Untouched, SignInTypeOK
  <2>5. Clearing'
    BY <2>1, <2>2, <2>3 DEF NewestInv, Clearing, SignInTypeOK
  <2> QED
    BY <2>2, <2>3, <2>4, <2>5 DEF NewestInv, NewestHolds, NewestGetsIn
<1>3. ASSUME NEW a \in Attempts, CallbackUnmatched(a) PROVE NewestInv'
  <2>1. Failed(FALSE).own = FALSE
    BY DEF Failed
  <2> QED
    BY <1>3, <2>1, CallbackKeeps DEF CallbackUnmatched
<1>4. ASSUME NEW a \in Attempts, CallbackRefused(a) PROVE NewestInv'
  <2>1. faults' /\ faults' = faults
    BY <1>4 DEF CallbackRefused, NewestInv, Clearing, SignInTypeOK
  <2> QED
    BY <1>4, <2>1, CallbackKeeps DEF CallbackRefused
<1>5. ASSUME NEW a \in Attempts, CallbackSignsIn(a) PROVE NewestInv'
  <2>1. PICK lifetime \in IdLifetimes :
          Answer(a, [page |-> "app", own |-> TRUE, session |-> Sealed(a, lifetime)])
    BY <1>5 DEF CallbackSignsIn
  <2> QED
    BY <1>5, <2>1, SealedIsSession, CallbackKeeps DEF CallbackSignsIn
<1>6. ASSUME NEW a \in Attempts, CallbackFails(a) PROVE NewestInv'
  BY <1>6, CallbackKeeps DEF CallbackFails
<1>7. ASSUME NEW a \in Attempts, AnswerArrives(a) PROVE NewestInv'
  <2>1. /\ UNCHANGED <<clock, code, newest, faults>>
        /\ flying' = [flying EXCEPT ![a] = NoAnswer]
        /\ jar' = JarAfter(a) /\ flying[a] # NoAnswer
        /\ tab' = [tab EXCEPT ![a] = flying[a].page]
    BY <1>7 DEF AnswerArrives
  <2>2. NoAnswer.page = "none" /\ NoAnswer.own = FALSE
    BY DEF NoAnswer
  <2>3. /\ jar'.until = jar.until
        /\ jar.session # NoSession => jar'.session # NoSession
        /\ ~faults => jar'.state = jar.state \/ jar'.session # NoSession
    BY <2>1 DEF JarAfter, Cleared, SignInTypeOK, NewestInv, Clearing
  <2>4. tab'[a] # "new" /\ \A d \in Attempts : d # a => tab'[d] = tab[d]
    BY <2>1 DEF SignInTypeOK
  <2>5. Untouched'
    BY <2>1, <2>4 DEF NewestInv, Untouched, SignInTypeOK
  <2>6. Clearing'
    BY <2>1, <2>2 DEF NewestInv, Clearing, SignInTypeOK
  <2>7. NewestHolds'
    BY <2>1, <2>3 DEF NewestInv, NewestHolds
  <2>8. NewestGetsIn'
    BY <2>1, <2>2, <2>3 DEF NewestInv, NewestGetsIn, SignInTypeOK
  <2> QED
    BY <2>5, <2>6, <2>7, <2>8 DEF NewestInv
<1>8. CASE Logout
  BY <1>8 DEF Logout, NewestInv, Untouched, Clearing, NewestHolds, NewestGetsIn
<1>9. CASE SignInTick
  BY <1>9 DEF SignInTick, NewestInv, Untouched, Clearing, NewestHolds, NewestGetsIn,
              SignInTypeOK
<1>10. CASE UNCHANGED signInVars
  BY <1>10 DEF signInVars, NewestInv, Untouched, Clearing, NewestHolds, NewestGetsIn
<1> QED
  BY <1>1, <1>2, <1>3, <1>4, <1>5, <1>6, <1>7, <1>8, <1>9, <1>10
     DEF SignInNext, Callback

(***************************************************************************)
(* The tab that started to sign in last gets in, whatever the others do,   *)
(* unless it took too long or they got a session (handleCallback).         *)
(***************************************************************************)
THEOREM NewestAlwaysGetsIn == SignInSpec => []NewestGetsIn
<1>1. SignInInit => NewestInv
  BY DEF SignInInit, NewestInv, Untouched, Clearing, NewestHolds, NewestGetsIn, NoAnswer
<1>2. NewestInv => NewestGetsIn
  BY DEF NewestInv
<1> QED
  BY <1>1, <1>2, NewestStep, SignInTypes, PTL DEF SignInSpec

-----------------------------------------------------------------------------
(* TeamAccess.                                                             *)

(***************************************************************************)
(* What the rules in force look like, those of editors included.           *)
(***************************************************************************)
LEMMA RulesInForce ==
    ASSUME config \in Configurations, NEW rule \in Granted
    PROVE  /\ rule.group \in OidcGroups \cup {Anybody}
           /\ rule.teams # {}
           /\ rule.teams \subseteq DeclaredTeams \cup OtherTeams \cup {Everything}
<1>1. /\ config.permissions \subseteq {r \in Grantable : r.teams # {}}
      /\ config.editors \in [DeclaredTeams -> SUBSET OidcGroups]
  BY AccessAssumption
<1>2. CASE rule \in config.permissions
  BY <1>1, <1>2 DEF Grantable
<1>3. CASE \E t \in DeclaredTeams : rule \in EditorsRules(t)
  <2>1. PICK t \in DeclaredTeams : rule \in EditorsRules(t)
    BY <1>3
  <2>2. PICK g \in config.editors[t] :
          rule = [group |-> g, teams |-> {t}, environments |-> {}, actions |-> {}]
    BY <2>1 DEF EditorsRules
  <2> QED
    BY <1>1, <2>2
<1> QED
  BY <1>2, <1>3 DEF Granted

(***************************************************************************)
(* A rule that covers something covers viewing it.                         *)
(***************************************************************************)
LEMMA CoversView ==
    ASSUME NEW rule, NEW groups, NEW e, NEW action, Covers(rule, groups, e, action)
    PROVE  Covers(rule, groups, e, "view")
  BY DEF Covers, ActionMatches

LEMMA AllowedView ==
    ASSUME NEW groups, NEW e, NEW team, NEW action, Allowed(groups, e, team, action)
    PROVE  /\ Allowed(groups, e, team, "view")
           /\ AllowedAnywhere(groups, e, action)
  BY CoversView DEF Allowed, AllowedAnywhere

-----------------------------------------------------------------------------
(***************************************************************************)
(* The types, and that nobody is shown the flag who may not view it: List  *)
(* and Get leave out what Allowed says no to.                              *)
(***************************************************************************)
LEMMA InitTypes == AccessInit => AccessTypeOK
<1> SUFFICES ASSUME AccessInit PROVE AccessTypeOK
  OBVIOUS
<1>1. moves \in 0..MaxMoves
  BY AccessAssumption DEF AccessInit
<1> QED
  BY <1>1 DEF AccessInit, AccessTypeOK

LEMMA StepTypes == AccessTypeOK /\ [AccessNext]_accessVars => AccessTypeOK'
<1> SUFFICES ASSUME AccessTypeOK, [AccessNext]_accessVars PROVE AccessTypeOK'
  OBVIOUS
<1> USE DEF AccessTypeOK
<1>1. CASE StartStudio
  BY <1>1 DEF StartStudio
<1>2. ASSUME NEW u \in Users, ShowFlag(u) PROVE AccessTypeOK'
  <2> DEFINE shown == ActionsFor(GroupsOf[u], Here, Access(owner))
  <2>1. shown \in SUBSET Actions /\ "view" \in shown
    BY <1>2 DEF ShowFlag, ActionsFor, Actions
  <2>2. page' = [page EXCEPT ![u] = [team |-> owner, actions |-> shown]]
    BY <1>2 DEF ShowFlag
  <2>3. [team |-> owner, actions |-> shown]
          \in [team : DeclaredTeams \cup OtherTeams \cup {NoTeam}, actions : SUBSET Actions]
    BY <2>1
  <2> HIDE DEF shown
  <2>4. page' \in [Users -> {Unseen} \cup
                     [team : DeclaredTeams \cup OtherTeams \cup {NoTeam},
                      actions : SUBSET Actions]]
    BY <2>2, <2>3
  <2>5. \A d \in Users : page'[d] # Unseen => "view" \in page'[d].actions
    BY <2>1, <2>2
  <2> QED
    BY <1>2, <2>4, <2>5 DEF ShowFlag
<1>3. ASSUME NEW u \in Users, SaveShown(u) PROVE AccessTypeOK'
  BY <1>3 DEF SaveShown
<1>4. CASE MoveFlag
  BY <1>4, AccessAssumption DEF MoveFlag
<1>5. CASE UNCHANGED accessVars
  BY <1>5 DEF accessVars
<1> QED
  BY <1>1, <1>2, <1>3, <1>4, <1>5 DEF AccessNext

THEOREM AccessTypes == AccessSpec => []AccessTypeOK
  BY InitTypes, StepTypes, PTL DEF AccessSpec

-----------------------------------------------------------------------------
(***************************************************************************)
(* Any action implies view, for the rules of permissions.go as a whole.    *)
(***************************************************************************)
LEMMA RulesImplyView == ViewIsImplied
  BY AllowedView, CoversView DEF ViewIsImplied, AllowedAnywhere

THEOREM ViewAlways == AccessSpec => []ViewIsImplied
  BY RulesImplyView, PTL

-----------------------------------------------------------------------------
(***************************************************************************)
(* The page of teams lists who edits: a user can edit a team exactly if a  *)
(* group of theirs, or everybody, is listed as editing it.                 *)
(***************************************************************************)
LEMMA GrantedWrite ==
    ASSUME NEW groups, NEW e, NEW team, NEW action \in Actions \ {"view"},
           Allowed(groups, e, team, action)
    PROVE  \E rule \in GrantsFor(e, team) : GrantsWrites(rule) /\ HasGroup(groups, rule)
  BY DEF Allowed, Covers, GrantsFor, GrantsWrites

LEMMA WriteAllowed ==
    ASSUME NEW groups, NEW e, NEW team, NEW rule \in GrantsFor(e, team),
           GrantsWrites(rule), HasGroup(groups, rule)
    PROVE  \E action \in Actions \ {"view"} : Allowed(groups, e, team, action)
  BY DEF Allowed, Covers, GrantsFor, GrantsWrites

LEMMA TeamsPageIsTrue == config \in Configurations => EditorsAreListed
<1> SUFFICES ASSUME config \in Configurations,
                    NEW groups \in SUBSET OidcGroups, NEW team \in DeclaredTeams
             PROVE  CanEdit(groups, team) <=>
                      \E row \in TeamGroups(groups, team) :
                        row.edits /\ row.name \in groups \cup {Anybody}
  BY DEF EditorsAreListed
<1> DEFINE seen == TeamEnvironments(groups, team)
           Of(g, e) == {rule \in GrantsFor(e, team) : rule.group = g}
           listed == {g \in OidcGroups \cup {Anybody} : \E e \in seen : Of(g, e) # {}}
           Row(g) == [name |-> g,
                      edits |-> \E e \in seen : \E rule \in Of(g, e) : GrantsWrites(rule),
                      allTeams |-> \A e \in seen : Of(g, e) # {} =>
                                     \E rule \in Of(g, e) : Everything \in rule.teams]
<1>1. TeamGroups(groups, team) = {Row(g) : g \in listed}
  BY DEF TeamGroups
<1>2. ASSUME CanEdit(groups, team)
      PROVE  \E g \in listed : Row(g).edits /\ g \in groups \cup {Anybody}
  <2>1. PICK e \in seen : ActionsFor(groups, e, team) \ {"view"} # {}
    BY <1>2 DEF CanEdit
  <2>2. PICK action \in Actions \ {"view"} : Allowed(groups, e, team, action)
    BY <2>1 DEF ActionsFor
  <2>3. PICK rule \in GrantsFor(e, team) : GrantsWrites(rule) /\ HasGroup(groups, rule)
    BY <2>2, GrantedWrite
  <2>4. rule.group \in OidcGroups \cup {Anybody}
    BY <2>3, RulesInForce DEF GrantsFor
  <2>5. rule.group \in listed /\ rule \in Of(rule.group, e)
    BY <2>1, <2>3, <2>4
  <2>6. Row(rule.group).edits
    BY <2>1, <2>3, <2>5
  <2> QED
    BY <2>3, <2>5, <2>6 DEF HasGroup
<1>3. ASSUME NEW g \in listed, Row(g).edits, g \in groups \cup {Anybody}
      PROVE  CanEdit(groups, team)
  <2>1. PICK e \in seen : \E rule \in Of(g, e) : GrantsWrites(rule)
    BY <1>3
  <2>2. PICK rule \in Of(g, e) : GrantsWrites(rule)
    BY <2>1
  <2>3. rule \in GrantsFor(e, team) /\ HasGroup(groups, rule)
    BY <1>3, <2>2 DEF HasGroup
  <2>4. PICK action \in Actions \ {"view"} : Allowed(groups, e, team, action)
    BY <2>2, <2>3, WriteAllowed
  <2>5. action \in ActionsFor(groups, e, team) \ {"view"}
    BY <2>4 DEF ActionsFor
  <2> QED
    BY <2>1, <2>5 DEF CanEdit
<1>4. \A g : Row(g).name = g
  OBVIOUS
<1> HIDE DEF Row, listed
<1> QED
  BY <1>1, <1>2, <1>3, <1>4

THEOREM EditorsAlwaysListed == AccessSpec => []EditorsAreListed
<1>1. AccessTypeOK => EditorsAreListed
  BY TeamsPageIsTrue DEF AccessTypeOK, EditorsAreListed
<1> QED
  BY <1>1, AccessTypes, PTL

-----------------------------------------------------------------------------
(***************************************************************************)
(* What List offers to create a flag in, and who may create environments.  *)
(***************************************************************************)
LEMMA OfferIsTrue == config \in Configurations => CreateIsOffered
<1> SUFFICES ASSUME config \in Configurations,
                    NEW groups \in SUBSET OidcGroups, NEW e \in Environments
             PROVE  /\ (\A rule \in Granted : rule.teams \cap OtherTeams = {}) =>
                         (CanCreate(groups, e) <=> TeamOptions(groups, e) # {})
                    /\ CanCreateEnvironments(groups) => CanCreate(groups, e)
  BY DEF CreateIsOffered
<1>1. ASSUME TeamOptions(groups, e) # {} PROVE CanCreate(groups, e)
  BY <1>1, AllowedView DEF TeamOptions, CanCreate
<1>2. ASSUME \A rule \in Granted : rule.teams \cap OtherTeams = {}, CanCreate(groups, e)
      PROVE  TeamOptions(groups, e) # {}
  <2>1. PICK rule \in Granted : Covers(rule, groups, e, "create")
    BY <1>2 DEF CanCreate, AllowedAnywhere
  <2>2. PICK team \in rule.teams : team \in DeclaredTeams \cup {Everything}
    BY <1>2, RulesInForce
  <2>3. CASE team = Everything
    <3>1. TeamMatches(rule, NoTeam)
      BY <2>2, <2>3 DEF TeamMatches
    <3>2. Allowed(groups, e, NoTeam, "create")
      BY <2>1, <3>1 DEF Allowed
    <3> QED
      BY <3>2 DEF TeamOptions
  <2>4. CASE team \in DeclaredTeams
    <3>1. TeamMatches(rule, team)
      BY <2>2, <2>4, AccessAssumption DEF TeamMatches
    <3>2. Allowed(groups, e, team, "create")
      BY <2>1, <3>1 DEF Allowed
    <3> QED
      BY <2>4, <3>2 DEF TeamOptions
  <2> QED
    BY <2>2, <2>3, <2>4
<1>3. ASSUME CanCreateEnvironments(groups) PROVE CanCreate(groups, e)
  BY <1>3 DEF CanCreateEnvironments, CanCreate, AllowedAnywhere, Covers, EnvironmentMatches
<1> QED
  BY <1>1, <1>2, <1>3

THEOREM CreateAlwaysOffered == AccessSpec => []CreateIsOffered
<1>1. AccessTypeOK => CreateIsOffered
  BY OfferIsTrue DEF AccessTypeOK, CreateIsOffered
<1> QED
  BY <1>1, AccessTypes, PTL

-----------------------------------------------------------------------------
(***************************************************************************)
(* A page is true as long as the flag's team has not changed, which it     *)
(* only does in the single-file layout; a save made from a true page is    *)
(* allowed.                                                                *)
(***************************************************************************)
TrueNow(u) ==
    page[u].actions = ActionsFor(GroupsOf[u], Here, Access(owner))

PagesAreTrue ==
    /\ config = Unseen => moves = 0
    /\ \A u \in Users : page[u] # Unseen => config # Unseen
    /\ config # Unseen /\ (moves = 0 \/ ~config.single) =>
         \A u \in Users : page[u] # Unseen => TrueNow(u)

LEMMA OfferedIsAllowedNow ==
    ASSUME NEW u \in Users, NEW action, page[u] # Unseen, TrueNow(u),
           action \in page[u].actions
    PROVE  MaySave(u, action)
<1>1. Allowed(GroupsOf[u], Here, Access(owner), action)
  BY DEF TrueNow, ActionsFor
<1> QED
  BY <1>1, AllowedView DEF MaySave

LEMMA StepPages ==
    AccessTypeOK /\ PagesAreTrue /\ OfferedIsAllowed /\ [AccessNext]_accessVars
      => PagesAreTrue' /\ OfferedIsAllowed'
<1> SUFFICES ASSUME AccessTypeOK, PagesAreTrue, OfferedIsAllowed, [AccessNext]_accessVars
             PROVE  PagesAreTrue' /\ OfferedIsAllowed'
  OBVIOUS
<1>1. CASE StartStudio
  BY <1>1 DEF StartStudio, PagesAreTrue, OfferedIsAllowed
<1>2. ASSUME NEW u \in Users, ShowFlag(u) PROVE PagesAreTrue' /\ OfferedIsAllowed'
  <2>1. /\ config' = config /\ owner' = owner /\ moves' = moves /\ answer' = answer
        /\ config # Unseen
        /\ page' = [page EXCEPT ![u] =
                      [team |-> owner,
                       actions |-> ActionsFor(GroupsOf[u], Here, Access(owner))]]
    BY <1>2 DEF ShowFlag
  <2>2. TrueNow(u)'
    BY <2>1 DEF TrueNow, AccessTypeOK, ActionsFor, Allowed, Granted, EditorsRules
  <2>3. \A d \in Users : d # u => page'[d] = page[d]
    BY <2>1 DEF AccessTypeOK
  <2>4. ASSUME NEW d \in Users, d # u, TrueNow(d) PROVE TrueNow(d)'
    <3>1. ActionsFor(GroupsOf[d], Here, Access(owner))'
            = ActionsFor(GroupsOf[d], Here, Access(owner))
      BY <2>1 DEF ActionsFor, Allowed, Granted, EditorsRules
    <3> QED
      BY <2>3, <2>4, <3>1 DEF TrueNow
  <2>5. PagesAreTrue'
    BY <2>1, <2>2, <2>3, <2>4 DEF PagesAreTrue
  <2>6. OfferedIsAllowed'
    BY <2>1 DEF OfferedIsAllowed
  <2> QED
    BY <2>5, <2>6
<1>3. ASSUME NEW u \in Users, SaveShown(u) PROVE PagesAreTrue' /\ OfferedIsAllowed'
  <2>1. PICK action \in page[u].actions :
          answer' = [answer EXCEPT ![u] = IF MaySave(u, action) THEN "saved" ELSE "forbidden"]
    BY <1>3 DEF SaveShown
  <2>2. /\ config' = config /\ owner' = owner /\ moves' = moves /\ page' = page
        /\ page[u] # Unseen
    BY <1>3 DEF SaveShown
  <2>3. PagesAreTrue'
    BY <2>2 DEF PagesAreTrue, TrueNow, ActionsFor, Allowed, Granted, EditorsRules
  <2>4. moves = 0 \/ ~config.single => MaySave(u, action)
    BY <2>1, <2>2, OfferedIsAllowedNow DEF PagesAreTrue
  <2>5. moves \in Nat
    BY AccessAssumption DEF AccessTypeOK
  <2>6. OfferedIsAllowed'
    BY <2>1, <2>2, <2>4, <2>5 DEF OfferedIsAllowed, AccessTypeOK
  <2> QED
    BY <2>3, <2>6
<1>4. CASE MoveFlag
  <2>1. /\ config # Unseen /\ config.single /\ moves' = moves + 1
        /\ config' = config /\ page' = page /\ answer' = answer
    BY <1>4 DEF MoveFlag
  <2>2. moves' > 0
    BY <2>1, AccessAssumption DEF AccessTypeOK
  <2> QED
    BY <2>1, <2>2 DEF PagesAreTrue, OfferedIsAllowed
<1>5. CASE UNCHANGED accessVars
  BY <1>5 DEF accessVars, PagesAreTrue, OfferedIsAllowed, TrueNow, ActionsFor, Allowed,
              Granted, EditorsRules
<1> QED
  BY <1>1, <1>2, <1>3, <1>4, <1>5 DEF AccessNext

(***************************************************************************)
(* What a page offers is allowed, unless the flag has got another team in  *)
(* the single-file layout.                                                 *)
(***************************************************************************)
THEOREM OfferedAlwaysAllowed == AccessSpec => []OfferedIsAllowed
<1>1. AccessInit => PagesAreTrue /\ OfferedIsAllowed
  BY DEF AccessInit, PagesAreTrue, OfferedIsAllowed
<1> QED
  BY <1>1, StepPages, AccessTypes, PTL DEF AccessSpec

(***************************************************************************)
(* What the pages say of the rules is true of the rules.                   *)
(***************************************************************************)
THEOREM PagesAlwaysMatchRules == AccessSpec => []PagesMatchRules
<1>1. ViewIsImplied /\ EditorsAreListed /\ CreateIsOffered => PagesMatchRules
  BY DEF PagesMatchRules
<1> QED
  BY <1>1, ViewAlways, EditorsAlwaysListed, CreateAlwaysOffered, PTL
=============================================================================
