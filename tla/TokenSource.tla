------------------------------ MODULE TokenSource ------------------------------
(***************************************************************************)
(* The GitHub App installation token that every call of the GitHub API     *)
(* needs (internal/githubapp/installation.go), and the callers of          *)
(* Client.do, which ask for it once per call and then send their request.  *)
(*                                                                         *)
(* Token holds one mutex from its look at the cached token to the end of   *)
(* the HTTP request that replaces it, and that request runs under the      *)
(* context of whoever got the mutex.  Time is counted in ticks; a step of  *)
(* the program takes none, so the clock only moves while every caller is   *)
(* waiting for GitHub or for the mutex.                                    *)
(***************************************************************************)
EXTENDS Integers

CONSTANTS
    Callers,    \* handlers, each of them calling Client.do again and again
    Lifetime,   \* for how long GitHub issues a token (an hour)
    Margin,     \* two minutes: a token this close to its end is replaced
    Timeout,    \* the HTTP client's timeout, for the token and for its use
    MaxTime,    \* bound on the clock
    NoToken,    \* no token yet
    Free        \* nobody holds the mutex

ASSUME TokenAssumption ==
    /\ Lifetime \in Nat /\ Margin \in Nat /\ Timeout \in Nat /\ MaxTime \in Nat
    /\ Timeout < Margin
    /\ Margin + Timeout < Lifetime
    /\ NoToken \notin Nat
    /\ Free \notin Callers

VARIABLES
    now,
    token,      \* the cached token, as the time it expires at, or NoToken
    holder,     \* who holds mu
    doing,
    since,      \* when a caller began to fetch, or to use what it got
    got,        \* the token it was given
    cancelled,  \* whose context has ended
    unfailed    \* for the properties: when a caller in Token called, or when
                \* a fetch failed last since then

tokenVars == <<now, token, holder, doing, since, got, cancelled, unfailed>>

Waiting(c) == doing[c] = "waiting"
Fetching(c) == doing[c] = "fetching"

TokenInit ==
    /\ now = 0
    /\ token = NoToken
    /\ holder = Free
    /\ doing = [c \in Callers |-> "idle"]
    /\ since = [c \in Callers |-> 0]
    /\ got = [c \in Callers |-> NoToken]
    /\ cancelled = {}
    /\ unfailed = [c \in Callers |-> 0]

(***************************************************************************)
(* A call of Token: it queues for the mutex, whatever its context says.    *)
(***************************************************************************)
Call(c) ==
    /\ doing[c] = "idle"
    /\ doing' = [doing EXCEPT ![c] = "waiting"]
    /\ unfailed' = [unfailed EXCEPT ![c] = now]
    /\ UNCHANGED <<now, token, holder, since, got, cancelled>>

\* The call is over, and with it all that is known of it.
Leave(c) ==
    /\ doing' = [doing EXCEPT ![c] = "idle"]
    /\ since' = [since EXCEPT ![c] = 0]
    /\ got' = [got EXCEPT ![c] = NoToken]
    /\ cancelled' = cancelled \ {c}

(* SEEDED FAULT: a token is used until the moment it expires.              *)
UsableToTheEnd == token # NoToken /\ now < token

\* i.token != "" && time.Now().Before(i.expires.Add(-2*time.Minute))
Usable == token # NoToken /\ now < token - Margin

\* The mutex goes to anybody who waits for it.  sync.Mutex keeps no order: who
\* calls at the moment of an Unlock may overtake those who were there before,
\* and only when the first of them was woken in vain, a millisecond or more
\* after it called, is the mutex handed on in turn.
Turn(c) == Waiting(c) /\ holder = Free

(***************************************************************************)
(* The mutex is free: look at the cached token, and return it at once or   *)
(* keep the mutex and ask GitHub for another one.                          *)
(***************************************************************************)
TakeCached(c) ==
    /\ Turn(c)
    /\ Usable
    /\ doing' = [doing EXCEPT ![c] = "using"]
    /\ got' = [got EXCEPT ![c] = token]
    /\ since' = [since EXCEPT ![c] = now]
    /\ unfailed' = [unfailed EXCEPT ![c] = 0]
    /\ UNCHANGED <<now, token, holder, cancelled>>

(* SEEDED FAULT: a caller that waited does not look at the cache.          *)
BeginFetchBlindly(c) ==
    /\ Turn(c)
    /\ holder' = c
    /\ doing' = [doing EXCEPT ![c] = "fetching"]
    /\ since' = [since EXCEPT ![c] = now]
    /\ UNCHANGED <<now, token, got, cancelled, unfailed>>

BeginFetch(c) ==
    /\ Turn(c)
    /\ ~Usable
    /\ holder' = c
    /\ doing' = [doing EXCEPT ![c] = "fetching"]
    /\ since' = [since EXCEPT ![c] = now]
    /\ UNCHANGED <<now, token, got, cancelled, unfailed>>

\* A context that ended before the request does not let it leave.
Answered(c) == Fetching(c) /\ c \notin cancelled

(***************************************************************************)
(* GitHub's answer arrives.  It issued the token at some time since the    *)
(* request was sent.                                                       *)
(***************************************************************************)
FetchSucceeds(c) ==
    /\ Answered(c)
    /\ \E at \in since[c]..now :
         /\ token' = at + Lifetime
         /\ got' = [got EXCEPT ![c] = at + Lifetime]
    /\ holder' = Free
    /\ doing' = [doing EXCEPT ![c] = "using"]
    /\ since' = [since EXCEPT ![c] = now]
    /\ unfailed' = [unfailed EXCEPT ![c] = 0]
    /\ UNCHANGED <<now, cancelled>>

(* SEEDED FAULT: the mutex is not released on an error path.               *)
FetchFailsLocked(c) ==
    /\ Fetching(c)
    /\ unfailed' = [d \in Callers |-> IF d # c /\ Waiting(d) THEN now ELSE 0]
    /\ Leave(c)
    /\ UNCHANGED <<now, token, holder>>

(***************************************************************************)
(* An error, a status that is not 2xx, an unreadable body or no token in   *)
(* it; also the end of the caller's context or of the client's timeout.    *)
(* What was cached stays.                                                  *)
(***************************************************************************)
FetchFails(c) ==
    /\ Fetching(c)
    /\ holder' = Free
    /\ unfailed' = [d \in Callers |-> IF d # c /\ Waiting(d) THEN now ELSE 0]
    /\ Leave(c)
    /\ UNCHANGED <<now, token>>

Token(c) ==
    Call(c) \/ TakeCached(c) \/ BeginFetch(c) \/ FetchSucceeds(c) \/ FetchFails(c)

(***************************************************************************)
(* Client.do sends its request with the token, which reaches GitHub before *)
(* the client's timeout.                                                   *)
(***************************************************************************)
Use(c) ==
    /\ doing[c] = "using"
    /\ Leave(c)
    /\ UNCHANGED <<now, token, holder, unfailed>>

(***************************************************************************)
(* The browser goes away, or the handler's context ends otherwise.         *)
(***************************************************************************)
Cancel(c) ==
    /\ doing[c] \in {"waiting", "fetching"}
    /\ c \notin cancelled
    /\ cancelled' = cancelled \cup {c}
    /\ UNCHANGED <<now, token, holder, doing, since, got, unfailed>>

(***************************************************************************)
(* Time passes while somebody waits for GitHub and no deadline is due, or  *)
(* while nobody does anything.                                             *)
(***************************************************************************)

(* SEEDED FAULT: the HTTP client has no timeout.                           *)
DueWhenCancelled(c) ==
    \/ Waiting(c) /\ holder = Free
    \/ Fetching(c) /\ c \in cancelled
    \/ doing[c] = "using" /\ now = since[c] + Timeout

Due(c) ==
    \/ Waiting(c) /\ holder = Free
    \/ Fetching(c) /\ (c \in cancelled \/ now = since[c] + Timeout)
    \/ doing[c] = "using" /\ now = since[c] + Timeout

Tick ==
    /\ now < MaxTime
    /\ \A c \in Callers : ~Due(c)
    /\ now' = now + 1
    /\ UNCHANGED <<token, holder, doing, since, got, cancelled, unfailed>>

TokenNext == (\E c \in Callers : Token(c) \/ Use(c) \/ Cancel(c)) \/ Tick

TokenSpec == TokenInit /\ [][TokenNext]_tokenVars

(***************************************************************************)
(* Time passes, and a handler runs: it asks for the mutex, which goes to   *)
(* everyone who waits for it at some time (starvation mode), and its       *)
(* request ends.  Nobody has to call, to cancel or to succeed.             *)
(***************************************************************************)
FairTokenSpec ==
    /\ TokenSpec
    /\ WF_tokenVars(Tick)
    /\ \A c \in Callers :
         /\ SF_tokenVars(TakeCached(c) \/ BeginFetch(c))
         /\ WF_tokenVars(FetchSucceeds(c) \/ FetchFails(c))

(***************************************************************************)
(* Properties.                                                             *)
(***************************************************************************)
Tokens == Nat \cup {NoToken}

\* The types, and that a caller is asking GitHub exactly while it has mu.
TokenTypeOK ==
    /\ now \in Nat
    /\ token \in Tokens
    /\ holder \in Callers \cup {Free}
    /\ doing \in [Callers -> {"idle", "waiting", "fetching", "using"}]
    /\ since \in [Callers -> Nat]
    /\ got \in [Callers -> Tokens]
    /\ cancelled \subseteq Callers
    /\ unfailed \in [Callers -> Nat]
    /\ \A c \in Callers : Fetching(c) <=> holder = c

(***************************************************************************)
(* A request reaches GitHub with a token that has not expired, wherever    *)
(* the token came from and however long the request took to get there.     *)
(* This is what the two minutes of Token are for.                          *)
(***************************************************************************)
NoExpiredTokenUsed ==
    \A c \in Callers : doing[c] = "using" => now < got[c]

(***************************************************************************)
(* One token serves everybody who waits for it: GitHub is not asked again  *)
(* until the last one it issued is near its end.  Callers that queued      *)
(* while a token was fetched look at the cache before they fetch.          *)
(***************************************************************************)
TokensAreShared ==
    [][token # NoToken /\ token' # token => now >= token - Margin]_tokenVars

(***************************************************************************)
(* A call of Token takes no longer than the HTTP client's timeout, however *)
(* many wait and in whatever order the mutex goes to them, unless GitHub   *)
(* let a fetch fail since it came; and then no longer than that after the  *)
(* last failure.  For one fetch serves all who wait, the mutex is held     *)
(* only by somebody who fetches, and a token that was just issued has more *)
(* than the margin left.                                                   *)
(***************************************************************************)
OnlyFailuresProlongWaits ==
    \A c \in Callers :
      Waiting(c) \/ Fetching(c) => now <= unfailed[c] + Timeout

(***************************************************************************)
(* Every call of Token returns, though a fetch is made under the context   *)
(* of one caller while the others wait, and that caller may go away.       *)
(***************************************************************************)
EveryTokenCallReturns ==
    \A c \in Callers : Waiting(c) ~> doing[c] \in {"using", "idle"}
================================================================================
