-------------------------- MODULE Timeouts_proofs ---------------------------
(***************************************************************************)
(* Proofs about what waits for an answer.                                  *)
(*   TokenSource, for any number of callers and any lifetime, margin and   *)
(* timeout with Timeout < Margin and Margin + Timeout < Lifetime.          *)
(*   Startup, for every budget, timeout, backoff and probe.                *)
(***************************************************************************)
EXTENDS TokenSource, Startup, TLAPS

-----------------------------------------------------------------------------
(* TokenSource.                                                            *)

LEMMA TokenInitTypes == TokenInit => TokenTypeOK
<1> SUFFICES ASSUME TokenInit PROVE TokenTypeOK
  OBVIOUS
<1> QED
  BY TokenAssumption DEF TokenInit, TokenTypeOK, Tokens, Fetching

(***************************************************************************)
(* One step per action; the last conjunct, that the caller who is asking   *)
(* GitHub is the one who holds the mutex, needs holder = Free in Turn.     *)
(***************************************************************************)
LEMMA TokenStepTypes == TokenTypeOK /\ [TokenNext]_tokenVars => TokenTypeOK'
<1> SUFFICES ASSUME TokenTypeOK, [TokenNext]_tokenVars PROVE TokenTypeOK'
  OBVIOUS
<1> USE TokenAssumption DEF TokenTypeOK, Fetching
<1>1. ASSUME NEW c \in Callers, Call(c) PROVE TokenTypeOK'
  BY <1>1 DEF Call
<1>2. ASSUME NEW c \in Callers, TakeCached(c) PROVE TokenTypeOK'
  BY <1>2 DEF TakeCached, Turn, Waiting
<1>3. ASSUME NEW c \in Callers, BeginFetch(c) PROVE TokenTypeOK'
  BY <1>3 DEF BeginFetch, Turn, Waiting
<1>4. ASSUME NEW c \in Callers, FetchSucceeds(c) PROVE TokenTypeOK'
  <2>1. PICK at \in since[c]..now :
          /\ token' = at + Lifetime
          /\ got' = [got EXCEPT ![c] = at + Lifetime]
    BY <1>4 DEF FetchSucceeds
  <2>2. at + Lifetime \in Tokens
    BY <2>1 DEF Tokens
  <2>3. Fetching(c)
    BY <1>4 DEF FetchSucceeds, Answered
  <2> QED
    BY <1>4, <2>1, <2>2, <2>3 DEF FetchSucceeds
<1>5. ASSUME NEW c \in Callers, FetchFails(c) PROVE TokenTypeOK'
  BY <1>5 DEF FetchFails, Leave, Tokens
<1>6. ASSUME NEW c \in Callers, Use(c) PROVE TokenTypeOK'
  BY <1>6 DEF Use, Leave, Tokens
<1>7. ASSUME NEW c \in Callers, Cancel(c) PROVE TokenTypeOK'
  BY <1>7 DEF Cancel
<1>8. CASE Tick
  BY <1>8 DEF Tick
<1>9. CASE UNCHANGED tokenVars
  BY <1>9 DEF tokenVars
<1> QED
  BY <1>1, <1>2, <1>3, <1>4, <1>5, <1>6, <1>7, <1>8, <1>9 DEF TokenNext, Token

(***************************************************************************)
(* The types of the token source; a caller is asking GitHub exactly while  *)
(* it holds mu.                                                            *)
(***************************************************************************)
THEOREM TokenTypes == TokenSpec => []TokenTypeOK
  BY TokenInitTypes, TokenStepTypes, PTL DEF TokenSpec

-----------------------------------------------------------------------------
(***************************************************************************)
(* What the clock means to a caller: a fetch and a use end within the      *)
(* timeout (Due), what a caller uses outlives the use, and whoever fetches *)
(* has found the cached token near its end, which it still is.             *)
(***************************************************************************)
InTime(c) ==
    /\ doing[c] \in {"fetching", "using"} =>
         since[c] <= now /\ now <= since[c] + Timeout
    /\ doing[c] = "using" => got[c] \in Nat /\ since[c] + Timeout < got[c]
    /\ Fetching(c) /\ token # NoToken => now >= token - Margin

TokenInv == \A c \in Callers : InTime(c)

\* Whoever a step is not about knows what it knew.
LEMMA OthersInTime ==
    ASSUME TokenTypeOK, TokenInv, NEW d \in Callers,
           doing'[d] = doing[d], since'[d] = since[d], got'[d] = got[d],
           now' = now, token' = token
    PROVE  InTime(d)'
  BY DEF TokenInv, InTime, Fetching

LEMMA TokenStepInTime ==
    TokenTypeOK /\ TokenInv /\ [TokenNext]_tokenVars => TokenInv'
<1> SUFFICES ASSUME TokenTypeOK, TokenInv, [TokenNext]_tokenVars,
                    NEW d \in Callers
             PROVE  InTime(d)'
  BY DEF TokenInv
<1>0. InTime(d)
  BY DEF TokenInv
<1> USE TokenAssumption DEF TokenTypeOK
<1>1. ASSUME NEW c \in Callers, Call(c) PROVE InTime(d)'
  <2>1. CASE c = d
    BY <1>1, <2>1 DEF Call, InTime, Fetching
  <2> QED
    BY <1>1, <2>1, OthersInTime DEF Call
<1>2. ASSUME NEW c \in Callers, TakeCached(c) PROVE InTime(d)'
  <2>1. CASE c = d
    BY <1>2, <2>1 DEF TakeCached, Usable, InTime, Fetching, Tokens
  <2> QED
    BY <1>2, <2>1, OthersInTime DEF TakeCached
<1>3. ASSUME NEW c \in Callers, BeginFetch(c) PROVE InTime(d)'
  <2>1. CASE c = d
    BY <1>3, <2>1 DEF BeginFetch, Usable, InTime, Fetching, Tokens
  <2> QED
    BY <1>3, <2>1, OthersInTime DEF BeginFetch
<1>4. ASSUME NEW c \in Callers, FetchSucceeds(c) PROVE InTime(d)'
  <2>1. PICK at \in since[c]..now :
          /\ token' = at + Lifetime
          /\ got' = [got EXCEPT ![c] = at + Lifetime]
    BY <1>4 DEF FetchSucceeds
  <2>2. /\ now' = now /\ doing' = [doing EXCEPT ![c] = "using"]
        /\ since' = [since EXCEPT ![c] = now] /\ Fetching(c) /\ holder = c
    BY <1>4 DEF FetchSucceeds, Answered
  <2>3. now <= since[c] + Timeout
    BY <2>2 DEF TokenInv, InTime, Fetching
  <2>4. CASE c = d
    <3>1. at \in Nat /\ now < at + Lifetime - Timeout
      BY <2>1, <2>3
    <3> QED
      BY <2>1, <2>2, <2>4, <3>1 DEF InTime, Fetching
  <2>5. CASE c # d
    <3>1. ~Fetching(d)
      BY <2>2, <2>5
    <3> QED
      BY <1>0, <2>1, <2>2, <2>5, <3>1 DEF InTime, Fetching
  <2> QED
    BY <2>4, <2>5
<1>5. ASSUME NEW c \in Callers, FetchFails(c) PROVE InTime(d)'
  <2>1. CASE c = d
    BY <1>5, <2>1 DEF FetchFails, Leave, InTime, Fetching
  <2> QED
    BY <1>5, <2>1, OthersInTime DEF FetchFails, Leave
<1>6. ASSUME NEW c \in Callers, Use(c) PROVE InTime(d)'
  <2>1. CASE c = d
    BY <1>6, <2>1 DEF Use, Leave, InTime, Fetching
  <2> QED
    BY <1>6, <2>1, OthersInTime DEF Use, Leave
<1>7. ASSUME NEW c \in Callers, Cancel(c) PROVE InTime(d)'
  BY <1>7, OthersInTime DEF Cancel
<1>8. CASE Tick
  <2>1. ~Due(d) /\ now' = now + 1
    BY <1>8 DEF Tick
  <2>2. doing[d] \in {"fetching", "using"} => now < since[d] + Timeout
    BY <1>0, <2>1 DEF Due, InTime, Fetching
  <2> QED
    BY <1>0, <1>8, <2>1, <2>2 DEF Tick, InTime, Fetching, Tokens
<1>9. CASE UNCHANGED tokenVars
  BY <1>9, OthersInTime DEF tokenVars
<1> QED
  BY <1>1, <1>2, <1>3, <1>4, <1>5, <1>6, <1>7, <1>8, <1>9 DEF TokenNext, Token

LEMMA TokenInvariant == TokenSpec => []TokenInv
<1>1. TokenInit => TokenInv
  BY DEF TokenInit, TokenInv, InTime, Fetching
<1> QED
  BY <1>1, TokenStepInTime, TokenTypes, PTL DEF TokenSpec

-----------------------------------------------------------------------------
(***************************************************************************)
(* Client.do never sends a token that has expired when it gets there.      *)
(***************************************************************************)
THEOREM TokensOutliveTheirUse == TokenSpec => []NoExpiredTokenUsed
<1>1. TokenTypeOK /\ TokenInv => NoExpiredTokenUsed
  BY TokenAssumption DEF TokenTypeOK, TokenInv, InTime, NoExpiredTokenUsed
<1> QED
  BY <1>1, TokenTypes, TokenInvariant, PTL

(***************************************************************************)
(* Token asks GitHub for another token only when the last one is near its  *)
(* end, however many callers wait.                                         *)
(***************************************************************************)
LEMMA ReplacedNearItsEnd ==
    ASSUME TokenTypeOK, TokenInv, [TokenNext]_tokenVars
    PROVE  token # NoToken /\ token' # token => now >= token - Margin
<1>1. ASSUME NEW c \in Callers, FetchSucceeds(c), token # NoToken
      PROVE  now >= token - Margin
  BY <1>1 DEF TokenInv, InTime, FetchSucceeds, Answered
<1>2. ASSUME NEW c \in Callers,
             \/ Call(c) \/ TakeCached(c) \/ BeginFetch(c) \/ FetchFails(c)
             \/ Use(c) \/ Cancel(c)
      PROVE  token' = token
  BY <1>2 DEF Call, TakeCached, BeginFetch, FetchFails, Use, Cancel
<1>3. Tick \/ UNCHANGED tokenVars => token' = token
  BY DEF Tick, tokenVars
<1> QED
  BY <1>1, <1>2, <1>3 DEF TokenNext, Token

THEOREM TokensShared == TokenSpec => TokensAreShared
<1>1. TokenTypeOK /\ TokenInv /\ [TokenNext]_tokenVars
        => [token # NoToken /\ token' # token => now >= token - Margin]_tokenVars
  BY ReplacedNearItsEnd
<1> QED
  BY <1>1, TokenTypes, TokenInvariant, PTL DEF TokenSpec, TokensAreShared
-----------------------------------------------------------------------------
(***************************************************************************)
(* How long a call takes.  While somebody fetches, that fetch began before *)
(* the call, or right after the last failure: whoever gets the free mutex  *)
(* once time has passed finds a token that is usable.                      *)
(***************************************************************************)
WaitsForOneFetch(c) ==
    Waiting(c) \/ Fetching(c) =>
      /\ unfailed[c] <= now /\ now <= unfailed[c] + Timeout
      /\ holder = Free => Usable \/ unfailed[c] = now
      /\ holder # Free => since[holder] <= unfailed[c]

WaitInv == \A c \in Callers : WaitsForOneFetch(c)

\* A caller that a step is not about, when the mutex stays where it is.
LEMMA StillWaits ==
    ASSUME WaitInv, NEW c \in Callers, doing'[c] = doing[c],
           unfailed'[c] = unfailed[c], now' = now, token' = token, holder' = holder,
           holder # Free => since'[holder] = since[holder]
    PROVE  WaitsForOneFetch(c)'
  BY DEF WaitInv, WaitsForOneFetch, Waiting, Fetching, Usable

LEMMA WaitStep ==
    TokenTypeOK /\ TokenInv /\ WaitInv /\ [TokenNext]_tokenVars => WaitInv'
<1> SUFFICES ASSUME TokenTypeOK, TokenInv, WaitInv, [TokenNext]_tokenVars,
                    NEW c \in Callers
             PROVE  WaitsForOneFetch(c)'
  BY DEF WaitInv
<1>0. /\ WaitsForOneFetch(c)
      /\ holder # Free => /\ holder \in Callers /\ Fetching(holder)
                          /\ since[holder] <= now /\ now <= since[holder] + Timeout
  BY DEF WaitInv, TokenTypeOK, TokenInv, InTime, Fetching
<1> USE TokenAssumption DEF TokenTypeOK
<1>1. ASSUME NEW d \in Callers, Call(d) PROVE WaitsForOneFetch(c)'
  <2>1. CASE d = c
    BY <1>0, <1>1, <2>1 DEF Call, WaitsForOneFetch
  <2> QED
    BY <1>1, <2>1, StillWaits DEF Call
<1>2. ASSUME NEW d \in Callers, TakeCached(d) PROVE WaitsForOneFetch(c)'
  <2>1. CASE d = c
    BY <1>2, <2>1 DEF TakeCached, WaitsForOneFetch, Waiting, Fetching
  <2> QED
    BY <1>2, <2>1, StillWaits DEF TakeCached, Turn
<1>3. ASSUME NEW d \in Callers, BeginFetch(d) PROVE WaitsForOneFetch(c)'
  <2>1. /\ ~Usable /\ holder = Free /\ Waiting(d) /\ holder' = d
        /\ doing' = [doing EXCEPT ![d] = "fetching"]
        /\ since' = [since EXCEPT ![d] = now] /\ UNCHANGED <<now, unfailed>>
    BY <1>3 DEF BeginFetch, Turn
  <2>2. Waiting(c)' \/ Fetching(c)' => unfailed[c] = now
    BY <1>0, <2>1 DEF WaitsForOneFetch, Waiting, Fetching
  <2> QED
    BY <2>1, <2>2 DEF WaitsForOneFetch
<1>4. ASSUME NEW d \in Callers, FetchSucceeds(d) PROVE WaitsForOneFetch(c)'
  <2>1. PICK at \in since[d]..now : token' = at + Lifetime
    BY <1>4 DEF FetchSucceeds
  <2>2. /\ Fetching(d) /\ holder = d /\ holder' = Free /\ now' = now
        /\ doing' = [doing EXCEPT ![d] = "using"]
        /\ unfailed' = [unfailed EXCEPT ![d] = 0]
    BY <1>4 DEF FetchSucceeds, Answered
  <2>3. Usable'
    <3>1. at \in Nat /\ now < at + Lifetime - Margin
      BY <1>0, <2>1, <2>2
    <3> QED
      BY <2>1, <2>2, <3>1 DEF Usable
  <2>4. CASE d = c
    BY <2>2, <2>4 DEF WaitsForOneFetch, Waiting, Fetching
  <2>5. CASE d # c
    BY <1>0, <2>2, <2>3, <2>5 DEF WaitsForOneFetch, Waiting, Fetching
  <2> QED
    BY <2>4, <2>5
<1>5. ASSUME NEW d \in Callers, FetchFails(d) PROVE WaitsForOneFetch(c)'
  <2>1. /\ holder = d /\ holder' = Free /\ now' = now
        /\ doing' = [doing EXCEPT ![d] = "idle"]
        /\ unfailed' = [e \in Callers |-> IF e # d /\ Waiting(e) THEN now ELSE 0]
    BY <1>5 DEF FetchFails, Leave
  <2>2. Waiting(c)' \/ Fetching(c)' => c # d /\ Waiting(c)
    BY <2>1 DEF Waiting, Fetching
  <2>3. c # d /\ Waiting(c) => unfailed'[c] = now
    BY <2>1
  <2> QED
    BY <2>1, <2>2, <2>3 DEF WaitsForOneFetch
<1>6. ASSUME NEW d \in Callers, Use(d) PROVE WaitsForOneFetch(c)'
  <2>1. /\ doing[d] = "using" /\ doing' = [doing EXCEPT ![d] = "idle"]
        /\ since' = [since EXCEPT ![d] = 0]
        /\ UNCHANGED <<now, token, holder, unfailed>>
    BY <1>6 DEF Use, Leave
  <2>2. CASE d = c
    BY <2>1, <2>2 DEF WaitsForOneFetch, Waiting, Fetching
  <2>3. CASE d # c
    <3>1. holder # d
      BY <1>0, <2>1 DEF Fetching
    <3> QED
      BY <2>1, <2>3, <3>1, <1>0, StillWaits
  <2> QED
    BY <2>2, <2>3
<1>7. ASSUME NEW d \in Callers, Cancel(d) PROVE WaitsForOneFetch(c)'
  BY <1>7, StillWaits DEF Cancel
<1>8. CASE Tick
  <2>1. /\ now' = now + 1 /\ \A d \in Callers : ~Due(d)
        /\ UNCHANGED <<token, holder, doing, since, unfailed>>
    BY <1>8 DEF Tick
  <2>2. Waiting(c) \/ Fetching(c) => holder # Free
    BY <2>1 DEF Due, Fetching
  <2>3. holder # Free => now < since[holder] + Timeout
    BY <1>0, <2>1 DEF Due
  <2> QED
    BY <1>0, <2>1, <2>2, <2>3 DEF WaitsForOneFetch, Waiting, Fetching
<1>9. CASE UNCHANGED tokenVars
  BY <1>9, StillWaits DEF tokenVars
<1> QED
  BY <1>1, <1>2, <1>3, <1>4, <1>5, <1>6, <1>7, <1>8, <1>9 DEF TokenNext, Token

(***************************************************************************)
(* A call of Token takes one timeout at most, from when it came or, if a   *)
(* fetch failed since then, from the last failure: whatever order the      *)
(* mutex goes round in, for any number of callers.                         *)
(***************************************************************************)
THEOREM WaitsProlongedByFailuresOnly == TokenSpec => []OnlyFailuresProlongWaits
<1>1. TokenInit => WaitInv
  BY DEF TokenInit, WaitInv, WaitsForOneFetch, Waiting, Fetching
<1>2. WaitInv => OnlyFailuresProlongWaits
  BY DEF WaitInv, WaitsForOneFetch, OnlyFailuresProlongWaits
<1> QED
  BY <1>1, <1>2, WaitStep, TokenTypes, TokenInvariant, PTL DEF TokenSpec

-----------------------------------------------------------------------------
(* Startup.                                                                *)

(***************************************************************************)
(* What a loop knows of its deadline: an attempt does not begin after it,  *)
(* and a sleep ends before it, which GiveUp sees to before either begins.  *)
(***************************************************************************)
DeadlinesKept ==
    /\ Starting => elapsed <= until
    /\ Starting /\ trying => until - AttemptTimeout <= began + Budget
    /\ Starting /\ ~trying => until <= began + Budget

StartupInv ==
    /\ StartupTypeOK
    /\ DeadlinesKept
    /\ BudgetIsUsed
    /\ KilledOnlyAfterSlowStorage

LEMMA StartupBegins == StartupInit => StartupInv
<1> SUFFICES ASSUME StartupInit PROVE StartupInv
  OBVIOUS
<1>1. StartupTypeOK
  BY StartupAssumption DEF StartupInit, StartupTypeOK
<1> QED
  BY <1>1, StartupAssumption
     DEF StartupInit, StartupInv, DeadlinesKept, BudgetIsUsed, KilledOnlyAfterSlowStorage

(***************************************************************************)
(* A sleep is never longer than twice the cap.                             *)
(***************************************************************************)
LEMMA BackoffBounded ==
    ASSUME backoff \in FirstBackoff..(2 * BackoffCap)
    PROVE  Doubled \in FirstBackoff..(2 * BackoffCap)
  BY StartupAssumption DEF Doubled

LEMMA StartupStep == StartupInv /\ [StartupNext]_startupVars => StartupInv'
<1> SUFFICES ASSUME StartupInv, [StartupNext]_startupVars PROVE StartupInv'
  OBVIOUS
<1> USE StartupAssumption
        DEF StartupInv, StartupTypeOK, DeadlinesKept, BudgetIsUsed,
            KilledOnlyAfterSlowStorage, Starting
<1>1. CASE AttemptSucceeds
  <2>1. CASE NextLoop
    BY <1>1, <2>1 DEF AttemptSucceeds, NextLoop
  <2>2. CASE LastLoop
    BY <1>1, <2>2 DEF AttemptSucceeds, LastLoop
  <2> QED
    BY <1>1, <2>1, <2>2 DEF AttemptSucceeds
<1>2. CASE AttemptFails
  <2>1. /\ Starting /\ trying' = FALSE /\ until' = elapsed + backoff
        /\ elapsed' = elapsed /\ stage' = stage /\ began' = began /\ backoff' = backoff
    BY <1>2 DEF AttemptFails
  <2>2. /\ backoff \in Nat
        /\ elapsed + backoff <= began + Budget
    BY <1>2 DEF AttemptFails, OutOfTime
  <2>3. StartupTypeOK'
    <3>1. trying' \in BOOLEAN
      BY <2>1
    <3>2. /\ elapsed' \in Nat /\ began' \in 0..elapsed' /\ until' \in Nat
          /\ backoff' \in FirstBackoff..(2 * BackoffCap)
      BY <2>1, <2>2
    <3>3. stage' \in {"storage", "oidc", "listening", "exited", "killed"}
      BY <2>1
    <3> QED
      BY <3>1, <3>2, <3>3
  <2>4. DeadlinesKept'
    <3>1. ~trying'
      BY <2>1
    <3>2. until' <= began' + Budget /\ elapsed' <= until'
      BY <2>1, <2>2
    <3> QED
      BY <3>1, <3>2
  <2> QED
    BY <2>1, <2>3, <2>4
<1>3. CASE GiveUp
  BY <1>3 DEF GiveUp, OutOfTime
<1>4. CASE WakeUp
  <2>1. Doubled \in FirstBackoff..(2 * BackoffCap)
    BY BackoffBounded
  <2> QED
    BY <1>4, <2>1 DEF WakeUp
<1>5. CASE ProbeKills
  <2>1. elapsed <= began + Budget + AttemptTimeout
    BY <1>5 DEF ProbeKills
  <2> QED
    BY <1>5, <2>1 DEF ProbeKills
<1>6. CASE StartupTick
  BY <1>6 DEF StartupTick
<1>7. CASE UNCHANGED startupVars
  BY <1>7 DEF startupVars
<1> QED
  BY <1>1, <1>2, <1>3, <1>4, <1>5, <1>6, <1>7 DEF StartupNext

LEMMA StartupInvariant == StartupSpec => []StartupInv
  BY StartupBegins, StartupStep, PTL DEF StartupSpec

(***************************************************************************)
(* The types; among them, how long a sleep of retry loops can be.          *)
(***************************************************************************)
THEOREM StartupTypes == StartupSpec => []StartupTypeOK
<1>1. StartupInv => StartupTypeOK
  BY DEF StartupInv
<1> QED
  BY <1>1, StartupInvariant, PTL

(***************************************************************************)
(* checkStorage and discoverOIDC end within their timeout and one attempt. *)
(***************************************************************************)
THEOREM LoopsKeepTheirBudget == StartupSpec => []BudgetIsKept
<1>1. StartupInv => BudgetIsKept
  BY StartupAssumption DEF StartupInv, StartupTypeOK, DeadlinesKept, BudgetIsKept
<1> QED
  BY <1>1, StartupInvariant, PTL

(***************************************************************************)
(* They do not give up early.                                              *)
(***************************************************************************)
THEOREM LoopsUseTheirBudget == StartupSpec => []BudgetIsUsed
<1>1. StartupInv => BudgetIsUsed
  BY DEF StartupInv
<1> QED
  BY <1>1, StartupInvariant, PTL

(***************************************************************************)
(* The startup probe kills only a Studio whose current loop began late.    *)
(***************************************************************************)
THEOREM ProbeLeavesOneLoop == StartupSpec => []KilledOnlyAfterSlowStorage
<1>1. StartupInv => KilledOnlyAfterSlowStorage
  BY DEF StartupInv
<1> QED
  BY <1>1, StartupInvariant, PTL

(***************************************************************************)
(* All three: startup takes the time it was given.                         *)
(***************************************************************************)
THEOREM StartupInTime == StartupSpec => []StartupIsInTime
<1>1. BudgetIsKept /\ BudgetIsUsed /\ KilledOnlyAfterSlowStorage => StartupIsInTime
  BY DEF StartupIsInTime
<1> QED
  BY <1>1, LoopsKeepTheirBudget, LoopsUseTheirBudget, ProbeLeavesOneLoop, PTL
=============================================================================
