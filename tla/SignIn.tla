-------------------------------- MODULE SignIn ---------------------------------
(***************************************************************************)
(* Signing in with OpenID Connect, in several tabs of one browser          *)
(* (handleLogin, handleCallback, signInFailed, handleLogout and            *)
(* withSession of internal/server/server.go over internal/auth).           *)
(*                                                                         *)
(* Studio keeps nothing between two requests: the state and the PKCE       *)
(* verifier of a sign-in, and the session, live in three cookies that all  *)
(* tabs share, and each sign-in overwrites the first two.  A request       *)
(* carries the cookies of the moment it is sent; what its answer sets or   *)
(* clears takes effect when the answer arrives, in any order.              *)
(***************************************************************************)
EXTENDS Integers

CONSTANTS
    Attempts,     \* tabs that sign in, each once: also their state and verifier
    CookieAge,    \* MaxAge of the state and verifier cookies (10 minutes)
    SessionAge,   \* how long a session may last (12 hours)
    IdLifetimes,  \* how long the provider says the id token lasts
    Unlimited,    \* an id token without an expiry
    MaxSignInTime,
    Absent        \* no such cookie, or a cookie left as it is

ASSUME SignInAssumption ==
    /\ CookieAge \in Nat /\ SessionAge \in Nat /\ MaxSignInTime \in Nat
    /\ IdLifetimes \subseteq Nat \cup {Unlimited}
    /\ Unlimited \notin Nat
    /\ Absent \notin Attempts

VARIABLES
    clock,
    jar,       \* the browser's cookies
    tab,       \* where each tab is
    code,      \* the provider's answer for each sign-in
    used,      \* codes the provider has exchanged
    flying,    \* answers on their way to the browser, per tab
    newest,    \* for the properties: the login that set the cookies last
    entered,   \* for the properties: the tabs whose session the browser got
    faults     \* for the properties: a refusal, failure or logout has happened

signInVars == <<clock, jar, tab, code, used, flying, newest, entered, faults>>

NoSession == [from |-> Absent, at |-> 0, lifetime |-> 0, expiry |-> 0]
NoAnswer == [page |-> "none", own |-> FALSE, session |-> NoSession]

SignInInit ==
    /\ clock = 0
    /\ jar = [state |-> Absent, verifier |-> Absent, until |-> 0, session |-> NoSession]
    /\ tab = [a \in Attempts |-> "new"]
    /\ code = [a \in Attempts |-> "none"]
    /\ used = {}
    /\ flying = [a \in Attempts |-> NoAnswer]
    /\ newest = Absent
    /\ entered = {}
    /\ faults = FALSE

\* Sealer.Read: the cookie is there and its own expiry has not passed.
SignedIn == jar.session # NoSession /\ clock <= jar.session.expiry

(***************************************************************************)
(* handleLogin: a fresh state and verifier, both set by one answer, which  *)
(* sends the tab to the provider.                                          *)
(***************************************************************************)
LoginArrives(a) ==
    /\ tab[a] = "new"
    /\ jar' = [jar EXCEPT !.state = a, !.verifier = a, !.until = clock + CookieAge]
    /\ tab' = [tab EXCEPT ![a] = "provider"]
    /\ newest' = a
    /\ UNCHANGED <<clock, code, used, flying, entered, faults>>

(***************************************************************************)
(* The provider sends the tab back, with a code or with an error.          *)
(***************************************************************************)
ProviderAnswers(a) ==
    /\ tab[a] = "provider" /\ code[a] = "none"
    /\ \E answer \in {"code", "error"} :
         /\ code' = [code EXCEPT ![a] = answer]
         /\ faults' = (faults \/ answer = "error")
    /\ UNCHANGED <<clock, jar, tab, used, flying, newest, entered>>

\* signInFailed: a visitor who is signed in goes to the start page instead.
FailedPage == IF SignedIn THEN "app" ELSE "failed"

(* SEEDED FAULT: a callback that matches no sign-in clears the cookies too.*)
FailedClearing(own) == [page |-> FailedPage, own |-> TRUE, session |-> NoSession]

\* What an answer without a session does: the page it shows, and whether it
\* clears the state and verifier cookies, being to the cookies' own sign-in.
Failed(own) == [page |-> FailedPage, own |-> own, session |-> NoSession]

(* SEEDED FAULT: only a token without an expiry is limited.                *)
SealedUnlimited(a, lifetime) ==
    [from |-> a, at |-> clock, lifetime |-> lifetime,
     expiry |-> clock + IF lifetime = Unlimited THEN SessionAge ELSE lifetime]

\* The session Exchange returns: it ends with the id token, but lasts no
\* longer than SessionAge.
Sealed(a, lifetime) ==
    [from |-> a, at |-> clock, lifetime |-> lifetime,
     expiry |-> clock + IF lifetime = Unlimited \/ lifetime > SessionAge
                          THEN SessionAge ELSE lifetime]

\* CheckState and Verifier.
StateMatches(a) == jar.state = a /\ clock < jar.until
HasVerifier == jar.verifier # Absent /\ clock < jar.until

(***************************************************************************)
(* handleCallback, in a tab that comes back or that is reloaded: an answer *)
(* to the request before, if it has not arrived, is never looked at.       *)
(***************************************************************************)
Answer(a, answer) == flying' = [flying EXCEPT ![a] = answer]

BackFromProvider(a) ==
    /\ code[a] # "none"
    /\ tab' = [tab EXCEPT ![a] = "callback"]
    /\ UNCHANGED <<clock, jar, code, newest, entered>>

CallbackUnmatched(a) ==
    /\ BackFromProvider(a)
    /\ ~(StateMatches(a) /\ HasVerifier)
    /\ Answer(a, Failed(FALSE))
    /\ UNCHANGED <<used, faults>>

CallbackRefused(a) ==
    /\ BackFromProvider(a)
    /\ StateMatches(a) /\ HasVerifier
    /\ code[a] = "error"
    /\ Answer(a, Failed(TRUE))
    /\ UNCHANGED <<used, faults>>

\* The provider gives one session per code, to whoever has its verifier.
Exchanges(a) == code[a] = "code" /\ jar.verifier = a /\ a \notin used

CallbackSignsIn(a) ==
    /\ BackFromProvider(a)
    /\ StateMatches(a) /\ HasVerifier
    /\ Exchanges(a)
    /\ \E lifetime \in IdLifetimes :
         Answer(a, [page |-> "app", own |-> TRUE, session |-> Sealed(a, lifetime)])
    /\ used' = used \cup {a}
    /\ UNCHANGED faults

\* The exchange fails: the code was used before, or the provider or the
\* network fails, or the token has no email.
CallbackFails(a) ==
    /\ BackFromProvider(a)
    /\ StateMatches(a) /\ HasVerifier
    /\ code[a] = "code"
    /\ Answer(a, Failed(TRUE))
    /\ used' = used \cup {a}
    /\ faults' = TRUE

(* SEEDED FAULT: the verifier is left.                                     *)
ClearedState == [jar EXCEPT !.state = Absent]

\* ClearState and ClearVerifier.
Cleared == [jar EXCEPT !.state = Absent, !.verifier = Absent]

(* SEEDED FAULT: only a sign-in that fails clears its state and verifier.  *)
JarLeftOpen(a) ==
    LET kept == IF flying[a].own /\ flying[a].session = NoSession THEN Cleared ELSE jar
    IN  IF flying[a].session = NoSession
          THEN kept ELSE [kept EXCEPT !.session = flying[a].session]

(***************************************************************************)
(* The answer arrives: the cookies it clears and sets change, the tab      *)
(* shows its page.                                                         *)
(***************************************************************************)
JarAfter(a) ==
    LET kept == IF flying[a].own THEN Cleared ELSE jar
    IN  IF flying[a].session = NoSession
          THEN kept ELSE [kept EXCEPT !.session = flying[a].session]

AnswerArrives(a) ==
    /\ flying[a] # NoAnswer
    /\ jar' = JarAfter(a)
    /\ tab' = [tab EXCEPT ![a] = flying[a].page]
    /\ flying' = [flying EXCEPT ![a] = NoAnswer]
    /\ entered' = IF flying[a].session = NoSession THEN entered ELSE entered \cup {a}
    /\ UNCHANGED <<clock, code, used, newest, faults>>

(***************************************************************************)
(* handleLogout; and time passing.                                         *)
(***************************************************************************)
Logout ==
    /\ jar.session # NoSession
    /\ jar' = [jar EXCEPT !.session = NoSession]
    /\ faults' = TRUE
    /\ UNCHANGED <<clock, tab, code, used, flying, newest, entered>>

SignInTick ==
    /\ clock < MaxSignInTime
    /\ clock' = clock + 1
    /\ UNCHANGED <<jar, tab, code, used, flying, newest, entered, faults>>

Callback(a) ==
    \/ CallbackUnmatched(a) \/ CallbackRefused(a)
    \/ CallbackSignsIn(a) \/ CallbackFails(a)

SignInNext ==
    \/ \E a \in Attempts :
         LoginArrives(a) \/ ProviderAnswers(a) \/ Callback(a) \/ AnswerArrives(a)
    \/ Logout
    \/ SignInTick

SignInSpec == SignInInit /\ [][SignInNext]_signInVars

(***************************************************************************)
(* Properties.                                                             *)
(***************************************************************************)
Sessions ==
    [from : Attempts \cup {Absent}, at : Nat,
     lifetime : Nat \cup {Unlimited}, expiry : Nat]

(***************************************************************************)
(* The types, and that the two cookies of a sign-in are always of the same *)
(* one: a verifier is never sent with another sign-in's code.              *)
(***************************************************************************)
SignInTypeOK ==
    /\ clock \in Nat
    /\ jar \in [state : Attempts \cup {Absent}, verifier : Attempts \cup {Absent},
                until : Nat, session : Sessions]
    /\ tab \in [Attempts -> {"new", "provider", "callback", "app", "failed"}]
    /\ code \in [Attempts -> {"none", "code", "error"}]
    /\ used \subseteq Attempts
    /\ flying \in [Attempts -> [page : {"none", "app", "failed"}, own : BOOLEAN,
                                session : Sessions]]
    /\ newest \in Attempts \cup {Absent}
    /\ entered \subseteq Attempts
    /\ faults \in BOOLEAN
    /\ jar.state = jar.verifier

(***************************************************************************)
(* A session is honoured no longer than SessionAge after the sign-in, nor  *)
(* longer than the provider's id token, whichever tab set it last.         *)
(***************************************************************************)
SessionsEnd ==
    SignedIn => /\ clock <= jar.session.at + SessionAge
                /\ \/ jar.session.lifetime = Unlimited
                   \/ clock <= jar.session.at + jar.session.lifetime

(***************************************************************************)
(* server.go:160, "A reloaded or replayed callback is harmless when the    *)
(* visitor is already signed in": once the session of a sign-in has come,  *)
(* the answers to all later callbacks of it leave every cookie as it is:   *)
(* that session, or a newer one, or none after a logout, and the state and *)
(* verifier of a sign-in that another tab has begun.  And as long as that  *)
(* session lasts, the visitor is not told that signing in has failed.      *)
(***************************************************************************)
ReplaysAreHarmless ==
    \A a \in entered : flying[a] # NoAnswer =>
      /\ JarAfter(a) = jar
      /\ SignedIn /\ jar.session.from = a => flying[a].page = "app"

(***************************************************************************)
(* Tabs do not keep each other out: as long as the provider neither        *)
(* refuses nor fails and nobody logs out, the tab that started to sign in  *)
(* last gets in, though another tab's answer may have cleared its cookies  *)
(* in between; unless it took longer than its cookies last, or the session *)
(* the other tab got has ended already.                                    *)
(***************************************************************************)
NewestGetsIn ==
    \A a \in Attempts :
      a = newest /\ ~faults /\ flying[a].page = "failed" =>
        clock >= jar.until \/ jar.session # NoSession
================================================================================
