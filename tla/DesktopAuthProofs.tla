-------------------------- MODULE DesktopAuthProofs --------------------------
(***************************************************************************)
(* The desktop app's authentication is right for any number of sign-ins,   *)
(* rotations, concurrent calls and restarts, over either transport and with*)
(* or without encryption.  Three invariants are proved: LoginInv of the    *)
(* browser login alone, SessionInv of the token engine over it, and        *)
(* ViewInv of the renderer over both.                                      *)
(***************************************************************************)
EXTENDS DesktopAuth, FiniteSetTheorems, TLAPS

(* The slot is taken by exactly one attempt, and the live flow is its own,  *)
(* waiting where the flow's state says.  OneLogin alone is not inductive:   *)
(* a redirect must find its attempt at the browser, with no code spent.     *)
LoginInv ==
    /\ LoginTypeOK
    /\ inProgress <=> \E f \in Attempts : Live(f)
    /\ \A f, g \in Attempts : Live(f) /\ Live(g) => f = g
    /\ current # None =>
         /\ Live(current.flow)
         /\ task[current.flow] \in IF current.state THEN {"browser"} ELSE {"listen", "build"}
    /\ \A f \in Attempts :
         /\ task[f] \in {"new", "discover"} => result[f] = "unset"
         /\ task[f] \notin {"exchange", "done"} => exchanges[f] = 0
         /\ exchanges[f] <= 1

(* A signed-in session comes from a login that succeeded, whoever holds its *)
(* token; Keycloak knows no other.                                          *)
FromSuccess ==
    /\ SessionFromSuccess
    /\ inflight # None => result[inflight.login] = "ok"
    /\ \A f \in Attempts : result[f] # "ok" => idp[f] = [gen |-> 0, revoked |-> FALSE]

(* The disk follows memory, and a flight that began without tokens is the   *)
(* boot restore's.                                                          *)
DiskInv ==
    /\ DiskFollowsMemory
    /\ disk # None => Encryption
    /\ ready <=> ~restoring
    /\ inflight # None /\ ~inflight.live => restoring
    /\ inflight # None => restoring \/ callers > 0

(* The generation of f's token that is in memory and on disk. *)
Held(f) == IF inflight # None /\ inflight.login = f THEN inflight.gen ELSE idp[f].gen

(* Keycloak's newest token of a session that is not torn is held, or is in  *)
(* the flight that was granted it.                                          *)
NewestHeld ==
    \A f \in Attempts \ torn :
        /\ ~idp[f].revoked
        /\ tokens # None /\ tokens.login = f => tokens.gen = Held(f)
        /\ disk # None /\ disk.login = f => disk.gen = Held(f)
        /\ inflight # None /\ inflight.login = f =>
             /\ inflight.stage # "refused"
             /\ inflight.stage \in {"config", "sent"} => inflight.gen = idp[f].gen
             /\ inflight.stage = "granted" => inflight.next = idp[f].gen

SessionInv == /\ TypeOK
              /\ LoginInv
              /\ FromSuccess
              /\ DiskInv
              /\ NewestHeld
              /\ SpentOnce

MainState == [ready |-> ready, user |-> MainUser]

(* A mounted renderer is told, is asking, or knows. *)
Informed ==
    \/ changed > 0
    \/ \E r \in reads : r.latest /\ r.answer \in {None, MainState}
    \/ (\A r \in reads : ~r.latest) /\ view = MainState

ViewInv ==
    /\ \A r, o \in reads : r.latest /\ o.latest => r = o
    /\ page = "mounted" /\ ~silent => Informed

-----------------------------------------------------------------------------
(* The browser login. *)

(* No attempt has been made. *)
LEMMA LoginInitInv == LoginInit => LoginInv
  <1> SUFFICES ASSUME LoginInit PROVE LoginInv
    OBVIOUS
  <1>1. LoginTypeOK
    <2>1. inProgress \in BOOLEAN /\ current = None
      BY DEF LoginInit
    <2>2. task \in [Attempts -> Tasks]
      BY DEF LoginInit, Tasks
    <2>3. result \in [Attempts -> Results]
      BY DEF LoginInit, Results
    <2>4. exchanges \in [Attempts -> 0..2]
      BY DEF LoginInit
    <2> QED BY <2>1, <2>2, <2>3, <2>4 DEF LoginTypeOK
  <1>2. \A f \in Attempts : ~Live(f)
    BY DEF LoginInit, Live
  <1> QED BY <1>1, <1>2 DEF LoginInit, LoginInv

(* finish, called by an attempt that waits past discovery, frees the slot   *)
(* that attempt holds and no other's.                                       *)
LEMMA FinishKeeps ==
  ASSUME LoginInv, NEW f \in Attempts, NEW r \in {"ok", "failed"}, NEW t \in {task[f], "done"},
         task[f] \notin {"new", "discover"},
         Goto(f, t), Finish(f, r), UNCHANGED exchanges
  PROVE  LoginInv'
  <1>1. task' = [task EXCEPT ![f] = t] /\ exchanges' = exchanges /\ t \in Tasks \ {"new", "discover"}
    BY DEF Goto, LoginInv, LoginTypeOK, Tasks
  <1>2. CASE Settled(f)
    <2>1. UNCHANGED <<result, current, inProgress>> /\ ~Live(f)
      BY <1>2 DEF Finish, Live
    <2>2. \A g \in Attempts : Live(g)' = Live(g)
      BY <1>1, <1>2, <2>1 DEF Live, Settled, LoginInv, LoginTypeOK
    <2>3. current # None => current.flow \in Attempts /\ current.flow # f
      BY <2>1 DEF LoginInv, LoginTypeOK
    <2> QED BY <1>1, <1>2, <2>1, <2>2, <2>3 DEF LoginInv, LoginTypeOK, Settled
  <1>3. CASE ~Settled(f)
    <2>1. result' = [result EXCEPT ![f] = r] /\ current' = None /\ inProgress' = FALSE
      BY <1>3 DEF Finish
    <2>2. Live(f)
      BY <1>3 DEF Live
    <2>3. \A g \in Attempts : ~Live(g)'
      BY <1>1, <2>1, <2>2 DEF Live, Settled, LoginInv, LoginTypeOK
    <2>4. LoginTypeOK'
      BY <1>1, <2>1 DEF LoginInv, LoginTypeOK, Results
    <2> QED BY <1>1, <2>1, <2>3, <2>4 DEF LoginInv, LoginTypeOK
  <1> QED BY <1>2, <1>3

(* Every step of a login, a restart included, keeps the slot right. *)
LEMMA LoginStepKeeps ==
  ASSUME LoginInv, NEW f \in Attempts,
         RunLogin(f) \/ RunLoginBusy(f) \/ LoginStep(f) \/ Exchanged(f)
  PROVE  LoginInv'
  <1> USE DEF LoginInv, LoginTypeOK, Goto
  <1>1. CASE RunLoginBusy(f)
    <2>1. \A g \in Attempts : Live(g)' = Live(g)
      BY <1>1 DEF RunLoginBusy, IsNext, Live, Settled
    <2>2. current # None => current.flow \in Attempts /\ current.flow # f
      BY <1>1 DEF RunLoginBusy, IsNext, Live
    <2> QED BY <1>1, <2>1, <2>2 DEF RunLoginBusy, IsNext, Tasks, Results
  <1>2. CASE RunLogin(f)
    <2>1. current = None /\ \A g \in Attempts : ~Live(g)
      BY <1>2 DEF RunLogin
    <2>2. Live(f)' /\ \A g \in Attempts : Live(g)' => g = f
      BY <1>2, <2>1 DEF RunLogin, IsNext, Live, Settled
    <2> QED BY <1>2, <2>1, <2>2 DEF RunLogin, IsNext, Tasks
  <1>3. CASE DiscoveryFailed(f)
    <2>1. Live(f) /\ current = None
      BY <1>3 DEF DiscoveryFailed, Live, Settled
    <2>2. \A g \in Attempts : ~Live(g)'
      BY <1>3, <2>1 DEF DiscoveryFailed, Live, Settled
    <2> QED BY <1>3, <2>1, <2>2 DEF DiscoveryFailed, Tasks, Results
  <1>4. CASE Discovered(f)
    <2>1. Live(f)
      BY <1>4 DEF Discovered, Live, Settled
    <2>2. \A g \in Attempts : Live(g)' = Live(g)
      BY <1>4 DEF Discovered, Live, Settled
    <2>3. current'.flow = f /\ current'.state = FALSE
      BY <1>4 DEF Discovered
    <2> QED BY <1>4, <2>1, <2>2, <2>3 DEF Discovered, Tasks
  <1>5. CASE Listening(f)
    <2>1. \A g \in Attempts : Live(g)' = Live(g)
      BY <1>5 DEF Listening, Live, Settled
    <2>2. current # None => current.flow \in Attempts
      OBVIOUS
    <2>3. current # None /\ current.flow = f => ~current.state
      BY <1>5 DEF Listening
    <2> QED BY <1>5, <2>1, <2>2, <2>3 DEF Listening, Tasks
  <1>6. CASE Built(f)
    <2>1. \A g \in Attempts : Live(g)' = Live(g)
      BY <1>6 DEF Built, Live, Settled
    <2>2. CASE Settled(f)
      <3>1. current # None => current.flow \in Attempts /\ current.flow # f
        BY <2>2 DEF Live
      <3> QED BY <1>6, <2>1, <2>2, <3>1 DEF Built, Tasks, Settled
    <2>3. CASE ~Settled(f)
      <3>1. Live(f)
        BY <1>6, <2>3 DEF Built, Live
      <3>2. current'.flow = f /\ current'.state = TRUE
        BY <1>6, <2>3 DEF Built
      <3>3. /\ current' \in [flow : Attempts, state : BOOLEAN]
            /\ task' = [task EXCEPT ![f] = "browser"] /\ task[f] = "build"
            /\ UNCHANGED <<inProgress, result, exchanges>>
        <4>1. /\ current' = [flow |-> f, state |-> TRUE]
              /\ task' = [task EXCEPT ![f] = "browser"] /\ task[f] = "build"
              /\ UNCHANGED <<inProgress, result, exchanges>>
          BY <1>6, <2>3 DEF Built
        <4> QED BY <4>1
      <3>4. LoginTypeOK'
        <4>1. task' \in [Attempts -> Tasks]
          BY <3>3 DEF Tasks
        <4>2. inProgress' \in BOOLEAN /\ result' \in [Attempts -> Results] /\ exchanges' \in [Attempts -> 0..2]
          BY <3>3
        <4> QED BY <3>3, <4>1, <4>2
      <3> QED BY <2>1, <3>1, <3>2, <3>3, <3>4
    <2> QED BY <2>2, <2>3
  <1>7. CASE Redirect(f)
    <2>1. current # None /\ current.flow = f /\ current.state = TRUE
      <3>1. current = [flow |-> f, state |-> TRUE] /\ current \in [flow : Attempts, state : BOOLEAN]
        BY <1>7 DEF Redirect, Consumes
      <3> QED BY <3>1, NoFlowAssumption
    <2>2. task[f] = "browser" /\ exchanges[f] = 0 /\ current' = None
      BY <1>7, <2>1 DEF Redirect, Consumes
    <2>3. \A g \in Attempts : Live(g)' = Live(g)
      BY <1>7, <2>2 DEF Redirect, Live, Settled
    <2> QED BY <1>7, <2>2, <2>3 DEF Redirect, Tasks
  <1>8. CASE RedirectError(f)
    <2>1. current # None /\ current.flow = f /\ current.state = TRUE
      <3>1. current = [flow |-> f, state |-> TRUE] /\ current \in [flow : Attempts, state : BOOLEAN]
        BY <1>8 DEF RedirectError
      <3> QED BY <3>1, NoFlowAssumption
    <2>2. task[f] = "browser"
      BY <2>1
    <2> QED BY <1>8, <2>2, FinishKeeps DEF RedirectError
  <1>9. ASSUME \/ ServerError(f) \/ BuildFailed(f) \/ BrowserOpenFailed(f)
               \/ Timeout(f) \/ ExchangeFailed(f) \/ Exchanged(f)
        PROVE  LoginInv'
    BY <1>9, FinishKeeps DEF ServerError, BuildFailed, BrowserOpenFailed, Timeout, ExchangeFailed,
       Exchanged, Drop
  <1> QED BY <1>1, <1>2, <1>3, <1>4, <1>5, <1>6, <1>7, <1>8, <1>9 DEF LoginStep

(* cancelLogin settles the flow that holds the slot. *)
LEMMA CancelKeeps == LoginInv /\ CancelLogin => LoginInv'
  <1> SUFFICES ASSUME LoginInv, CancelLogin PROVE LoginInv'
    OBVIOUS
  <1>1. current.flow \in Attempts /\ task[current.flow] \in {"browser", "listen", "build"}
    BY DEF CancelLogin, LoginInv, LoginTypeOK
  <1> QED BY <1>1, FinishKeeps DEF CancelLogin, Drop

(* A restart leaves no attempt live. *)
LEMMA LostKeeps == LoginInv /\ LoginLost => LoginInv'
  <1> SUFFICES ASSUME LoginInv, LoginLost PROVE LoginInv'
    OBVIOUS
  <1>1. \A f \in Attempts : ~Live(f)'
    BY DEF LoginLost, Live, Settled, LoginInv, LoginTypeOK
  <1>2. LoginTypeOK'
    BY DEF LoginLost, LoginInv, LoginTypeOK, Tasks, Results
  <1> QED BY <1>1, <1>2 DEF LoginLost, LoginInv, LoginTypeOK, Live

-----------------------------------------------------------------------------
(* The token engine. *)

(* The process has just been started for the first time. *)
LEMMA SessionInit == Init => SessionInv
  <1> SUFFICES ASSUME Init PROVE SessionInv
    OBVIOUS
  <1>1. LoginInv
    BY LoginInitInv DEF Init
  <1>2. TypeOK
    <2>1. idp \in [Attempts -> [gen : Gens, revoked : BOOLEAN]]
      BY BoundsAssumption DEF Init, Gens
    <2>2. view \in State
      BY DEF Init, Splash, State
    <2>3. callers \in 0..MaxCalls /\ changed \in 0..EventCap /\ restarts \in 0..MaxRestarts
      BY BoundsAssumption DEF Init
    <2>4. /\ reads \in SUBSET [latest : BOOLEAN, answer : State \cup {None}]
          /\ torn \in SUBSET Attempts /\ reused \in SUBSET Attempts
      BY DEF Init
    <2>5. /\ tokens = None /\ inflight = None /\ disk = None
          /\ restoring \in BOOLEAN /\ ready \in BOOLEAN /\ silent \in BOOLEAN /\ unsaved \in BOOLEAN
          /\ page \in {"closed", "loading", "mounted"}
      BY DEF Init
    <2> QED BY <1>1, <2>1, <2>2, <2>3, <2>4, <2>5 DEF TypeOK, LoginInv
  <1>3. FromSuccess /\ DiskInv /\ NewestHeld /\ SpentOnce
    BY DEF Init, FromSuccess, SessionFromSuccess, DiskInv, DiskFollowsMemory, NewestHeld, SpentOnce
  <1> QED BY <1>1, <1>2, <1>3 DEF SessionInv

(* What notify does to the count of undelivered events. *)
LEMMA Notified ==
  ASSUME TypeOK, NEW k \in Nat, Notify(k)
  PROVE  /\ changed' \in 0..EventCap
         /\ silent' = FALSE
         /\ page = "mounted" /\ k > 0 => changed' > 0
  BY BoundsAssumption DEF TypeOK, Notify, Capped

(* Nothing but the renderer, the silent observer and the logins moves.      *)
LEMMA SessionFrame ==
  ASSUME SessionInv, TypeOK', LoginInv',
         UNCHANGED <<tokens, inflight, callers, restoring, disk, ready, idp, unsaved, torn, reused>>,
         \A f \in Attempts : result'[f] = "ok" <=> result[f] = "ok"
  PROVE  SessionInv'
  <1>1. /\ tokens # None => tokens.login \in Attempts
        /\ disk # None => disk.login \in Attempts
        /\ inflight # None => inflight.login \in Attempts
    BY DEF SessionInv, TypeOK, Tokens, RefreshToken, Flight
  <1>2. FromSuccess'
    BY <1>1 DEF SessionInv, FromSuccess, SessionFromSuccess
  <1>3. DiskInv' /\ NewestHeld' /\ SpentOnce'
    BY DEF SessionInv, DiskInv, DiskFollowsMemory, RefreshOf, NewestHeld, Held, SpentOnce
  <1> QED BY <1>2, <1>3 DEF SessionInv

(* An unchanged login keeps its invariant. *)
LEMMA LoginSame == LoginInv /\ UNCHANGED loginVars => LoginInv'
  BY DEF LoginInv, LoginTypeOK, loginVars, Live, Settled

(* The logins never make a success of a failure, nor take one back; only an *)
(* exchange that finds its attempt open makes one.                          *)
LEMMA SuccessStable ==
  ASSUME LoginInv,
         \/ \E f \in Attempts : RunLogin(f) \/ RunLoginBusy(f) \/ LoginStep(f)
         \/ CancelLogin \/ LoginLost
  PROVE  \A g \in Attempts : result'[g] = "ok" <=> result[g] = "ok"
  <1>1. ASSUME NEW f \in Attempts, Finish(f, "failed")
        PROVE  \A g \in Attempts : result'[g] = "ok" <=> result[g] = "ok"
    BY <1>1 DEF Finish, Settled, LoginInv, LoginTypeOK
  <1>2. ASSUME NEW f \in Attempts, RunLogin(f) \/ RunLoginBusy(f) \/ DiscoveryFailed(f) \/ Discovered(f)
                                   \/ Listening(f) \/ Built(f) \/ Redirect(f)
        PROVE  \A g \in Attempts : result'[g] = "ok" <=> result[g] = "ok"
    BY <1>2 DEF RunLogin, RunLoginBusy, IsNext, DiscoveryFailed, Discovered, Listening, Built,
                Redirect, LoginInv, LoginTypeOK
  <1>3. ASSUME NEW f \in Attempts, \/ ServerError(f) \/ BuildFailed(f) \/ BrowserOpenFailed(f)
                                   \/ Timeout(f) \/ RedirectError(f) \/ ExchangeFailed(f)
        PROVE  Finish(f, "failed")
    BY <1>3 DEF ServerError, BuildFailed, BrowserOpenFailed, Timeout, RedirectError, ExchangeFailed
  <1>4. ASSUME CancelLogin PROVE current.flow \in Attempts /\ Finish(current.flow, "failed")
    BY <1>4 DEF CancelLogin, LoginInv, LoginTypeOK
  <1>5. ASSUME LoginLost PROVE \A g \in Attempts : result'[g] = "ok" <=> result[g] = "ok"
    BY <1>5 DEF LoginLost, Live, Settled, LoginInv, LoginTypeOK
  <1> QED BY <1>1, <1>2, <1>3, <1>4, <1>5 DEF LoginStep

(* Sign-in, its steps and its cancellation. *)
LEMMA LoginOnlyStep == SessionInv /\ LoginOnly => SessionInv'
  <1> SUFFICES ASSUME SessionInv, LoginOnly PROVE SessionInv'
    OBVIOUS
  <1>1. /\ \/ \E f \in Attempts : RunLogin(f) \/ RunLoginBusy(f) \/ LoginStep(f)
           \/ CancelLogin
        /\ UNCHANGED <<sessionVars, idp, rendererVars, restarts, observers>>
    BY DEF LoginOnly, SignIn
  <1>2. LoginInv'
    BY <1>1, LoginStepKeeps, CancelKeeps DEF SessionInv
  <1>3. TypeOK'
    BY <1>1, <1>2 DEF SessionInv, TypeOK, LoginInv, sessionVars, rendererVars, observers
  <1>4. \A g \in Attempts : result'[g] = "ok" <=> result[g] = "ok"
    BY <1>1, SuccessStable DEF SessionInv
  <1> QED BY <1>1, <1>2, <1>3, <1>4, SessionFrame DEF sessionVars, observers

(* The renderer's own steps. *)
LEMMA RendererTypes ==
  ASSUME SessionInv, RendererStep
  PROVE  page' \in {"closed", "loading", "mounted"} /\ changed' \in 0..EventCap
         /\ reads' \in SUBSET [latest : BOOLEAN, answer : State \cup {None}]
         /\ view' \in State
         /\ silent' \in {silent, FALSE}
         /\ UNCHANGED <<loginVars, sessionVars, idp, restarts, unsaved, torn, reused>>
  <1> USE DEF observers
  <1> DEFINE Reads == [latest : BOOLEAN, answer : State \cup {None}]
  <1>1. Splash \in State
    BY DEF Splash, State
  <1>2. Sync => reads' \in SUBSET Reads
    <2> SUFFICES ASSUME Sync, NEW x \in reads' PROVE x \in Reads
      OBVIOUS
    <2>1. CASE x = [latest |-> TRUE, answer |-> None]
      BY <2>1
    <2>2. ASSUME NEW r \in reads, x = [r EXCEPT !.latest = FALSE] PROVE x \in Reads
      <3>1. r \in Reads
        BY DEF SessionInv, TypeOK
      <3> QED BY <2>2, <3>1
    <2> QED BY <2>1, <2>2 DEF Sync
  <1>3. CASE Mount
    BY <1>2, <1>3 DEF Mount, SessionInv, TypeOK
  <1>4. CASE OnAuthChanged
    BY <1>2, <1>4, BoundsAssumption DEF OnAuthChanged, SessionInv, TypeOK, rendererVars
  <1>5. ASSUME NEW r \in reads, AnswerRead(r) PROVE
          /\ reads' \in SUBSET Reads
          /\ UNCHANGED <<loginVars, sessionVars, idp, page, changed, view, restarts, observers>>
    <2>1. r \in Reads
      BY DEF SessionInv, TypeOK
    <2>2. [ready |-> ready, user |-> MainUser] \in State
      <3>1. MainUser \in Attempts \cup {None}
        BY DEF MainUser, SessionInv, TypeOK, Tokens
      <3> QED BY <3>1 DEF SessionInv, TypeOK, State
    <2>3. [r EXCEPT !.answer = [ready |-> ready, user |-> MainUser]] \in Reads
      BY <2>1, <2>2
    <2> QED BY <1>5, <2>3 DEF AnswerRead, SessionInv, TypeOK
  <1>6. ASSUME NEW r \in reads, ApplyRead(r) PROVE
          /\ reads' \in SUBSET Reads
          /\ view' \in State
          /\ UNCHANGED <<loginVars, sessionVars, idp, page, changed, restarts, observers>>
    <2>1. r \in Reads /\ view \in State
      BY DEF SessionInv, TypeOK
    <2>2. r.answer # None => r.answer \in State
      BY <2>1
    <2> QED BY <1>6, <2>1, <2>2 DEF ApplyRead, SessionInv, TypeOK
  <1>7. CASE CloseWindow
    BY <1>1, <1>7, BoundsAssumption DEF CloseWindow, SessionInv, TypeOK
  <1>8. CASE Activate
    BY <1>8 DEF Activate, SessionInv, TypeOK
  <1>9. page \in {"closed", "loading", "mounted"} /\ changed \in 0..EventCap /\ view \in State
    BY DEF SessionInv, TypeOK
  <1> QED BY <1>3, <1>4, <1>5, <1>6, <1>7, <1>8, <1>9 DEF RendererStep

(* The windows, pages and their reads do not touch the session. *)
LEMMA RendererKeeps == SessionInv /\ RendererStep => SessionInv'
  <1> SUFFICES ASSUME SessionInv, RendererStep PROVE SessionInv'
    OBVIOUS
  <1>1. LoginInv' /\ result' = result
    BY RendererTypes, LoginSame DEF SessionInv, loginVars
  <1>2. TypeOK'
    BY <1>1, RendererTypes DEF SessionInv, TypeOK, LoginInv, sessionVars
  <1> QED BY <1>1, <1>2, RendererTypes, SessionFrame DEF sessionVars

(* The steps of the engine that leave tokens, disk and Keycloak alone: a    *)
(* call that is refused, a restore with nothing to restore, a flight that   *)
(* starts or sends its grant.                                               *)
LEMMA FlightStarts ==
  ASSUME SessionInv, inflight = None \/ inflight' = inflight,
         inflight = None => /\ Spendable # None
                            /\ inflight' = [login |-> Spendable.login, gen |-> Spendable.gen,
                                            live |-> tokens # None, stage |-> "config",
                                            next |-> Spendable.gen],
         restoring' = restoring, callers' \in 0..MaxCalls, callers' >= callers,
         restoring \/ callers' > 0, tokens = None /\ inflight = None => restoring,
         UNCHANGED <<loginVars, tokens, disk, ready, idp, rendererVars, restarts, observers>>
  PROVE  SessionInv'
  <1>1. CASE inflight # None
    BY <1>1, LoginSame DEF SessionInv, TypeOK, LoginInv, FromSuccess, SessionFromSuccess, DiskInv, DiskFollowsMemory,
          RefreshOf, NewestHeld, Held, SpentOnce, loginVars, rendererVars, observers
  <1>2. CASE inflight = None
    <2> DEFINE rt == Spendable
    <2>1. /\ rt.login \in Attempts /\ rt.gen \in Gens
          /\ result[rt.login] = "ok"
          /\ rt.login \notin torn => rt.gen = idp[rt.login].gen
      <3>1. CASE tokens # None
        <4>1. tokens \in Tokens /\ rt.login = tokens.login /\ rt.gen = tokens.gen
          BY <3>1 DEF Spendable, RefreshOf, SessionInv, TypeOK
        <4>2. tokens.login \in Attempts /\ tokens.gen \in Gens
          BY <4>1 DEF Tokens
        <4> QED BY <1>2, <3>1, <4>1, <4>2 DEF SessionInv, FromSuccess, SessionFromSuccess, NewestHeld, Held
      <3>2. CASE tokens = None
        <4>1. disk # None /\ disk \in RefreshToken /\ rt = disk
          BY <1>2, <3>2 DEF Spendable, Load, SessionInv, TypeOK
        <4>2. disk.login \in Attempts /\ disk.gen \in Gens
          BY <4>1 DEF RefreshToken
        <4> QED BY <1>2, <4>1, <4>2 DEF SessionInv, FromSuccess, SessionFromSuccess, NewestHeld, Held
      <3> QED BY <3>1, <3>2
    <2>2. /\ inflight' \in Flight /\ inflight'.login = rt.login /\ inflight'.gen = rt.gen
          /\ inflight'.live <=> tokens # None
          /\ inflight'.stage = "config"
      <3> DEFINE L == rt.login
                 G == rt.gen
                 B == tokens # None
      <3>1. inflight' = [login |-> L, gen |-> G, live |-> B, stage |-> "config", next |-> G]
        BY <1>2
      <3>2. L \in Attempts /\ G \in Gens /\ B \in BOOLEAN
        BY <2>1
      <3> HIDE DEF L, G, B
      <3>3. inflight' \in Flight /\ inflight'.login = L /\ inflight'.gen = G /\ inflight'.live = B
            /\ inflight'.stage = "config"
        BY <3>1, <3>2 DEF Flight
      <3> QED BY <3>3 DEF L, G, B
    <2>3. LoginInv'
      BY LoginSame DEF SessionInv
    <2>4. TypeOK'
      BY <2>2, <2>3 DEF SessionInv, TypeOK, LoginInv, rendererVars, observers
    <2>5. FromSuccess'
      BY <2>1, <2>2 DEF SessionInv, FromSuccess, SessionFromSuccess, loginVars
    <2>6. DiskInv'
      BY <1>2, <2>2, NoneAssumption DEF SessionInv, DiskInv, DiskFollowsMemory, RefreshOf, observers
    <2>7. NewestHeld'
      BY <1>2, <2>1, <2>2 DEF SessionInv, NewestHeld, Held, observers
    <2>8. SpentOnce'
      BY DEF SessionInv, SpentOnce, observers
    <2> QED BY <2>3, <2>4, <2>5, <2>6, <2>7, <2>8 DEF SessionInv
  <1> QED BY <1>1, <1>2

(* What the engine does before it asks for tokens, or instead of that. *)
LEMMA RestoreSteps ==
  ASSUME SessionInv, RestoreNothing \/ RestoreRefresh \/ GetAccessTokenSignedOut \/ GetAccessTokenStale
  PROVE  SessionInv'
  <1>1. CASE RestoreNothing
    <2>1. changed' \in 0..EventCap /\ silent' = FALSE
      BY <1>1, Notified DEF RestoreNothing, SessionInv
    <2>2. LoginInv'
      BY <1>1, LoginSame DEF RestoreNothing, SessionInv
    <2>3. TypeOK'
      BY <1>1, <2>1, <2>2 DEF RestoreNothing, SessionInv, TypeOK, LoginInv
    <2>4. FromSuccess' /\ NewestHeld' /\ SpentOnce'
      BY <1>1 DEF RestoreNothing, SessionInv, FromSuccess, SessionFromSuccess, NewestHeld, Held,
                  SpentOnce, loginVars
    <2>5. tokens = None => disk = None
      BY <1>1 DEF RestoreNothing, Load, SessionInv, DiskInv
    <2>6. DiskInv'
      BY <1>1, <2>5 DEF RestoreNothing, SessionInv, DiskInv, DiskFollowsMemory, RefreshOf
    <2> QED BY <2>2, <2>3, <2>4, <2>6 DEF SessionInv
  <1>2. CASE RestoreRefresh
    <2>1. Spendable = Load /\ callers \in 0..MaxCalls
      BY <1>2 DEF RestoreRefresh, Spendable, SessionInv, TypeOK
    <2> QED BY <1>2, <2>1, FlightStarts DEF RestoreRefresh, Refresh
  <1>3. CASE GetAccessTokenSignedOut
    <2>1. changed' \in 0..EventCap /\ silent' = FALSE
      BY <1>3, Notified DEF GetAccessTokenSignedOut, SessionInv
    <2>2. LoginInv' /\ result' = result
      BY <1>3, LoginSame DEF GetAccessTokenSignedOut, SessionInv, loginVars
    <2>3. TypeOK'
      BY <1>3, <2>1, <2>2 DEF GetAccessTokenSignedOut, SessionInv, TypeOK, LoginInv, sessionVars
    <2> QED BY <1>3, <2>2, <2>3, SessionFrame DEF GetAccessTokenSignedOut, sessionVars
  <1>4. CASE GetAccessTokenStale
    <2>1. callers \in 0..MaxCalls /\ callers' = callers + 1 /\ callers < MaxCalls
      BY <1>4 DEF GetAccessTokenStale, SessionInv, TypeOK
    <2>2. callers' \in 0..MaxCalls /\ callers' >= callers /\ callers' > 0
      BY <2>1, BoundsAssumption
    <2>3. tokens = None /\ inflight = None => restoring
      BY <1>4 DEF GetAccessTokenStale, Spendable, Load, SessionInv, DiskInv, DiskFollowsMemory
    <2> QED BY <1>4, <2>2, <2>3, FlightStarts DEF GetAccessTokenStale, Refresh
  <1> QED BY <1>1, <1>2, <1>3, <1>4

(* An access token that expires, and a flight that sends its grant. *)
LEMMA WaitSteps ==
  ASSUME SessionInv, Expire \/ SendGrant
  PROVE  SessionInv'
  <1>1. CASE Expire
    <2>1. /\ tokens # None /\ tokens \in Tokens
          /\ tokens' = [tokens EXCEPT !.fresh = FALSE]
          /\ UNCHANGED <<loginVars, inflight, callers, restoring, disk, ready, idp,
                         rendererVars, restarts, observers>>
      BY <1>1 DEF Expire, SessionInv, TypeOK
    <2>2. tokens' \in Tokens /\ tokens'.login = tokens.login /\ tokens'.gen = tokens.gen
      BY <2>1 DEF Tokens
    <2>3. LoginInv'
      BY <2>1, LoginSame DEF SessionInv
    <2>4. TypeOK'
      BY <2>1, <2>2, <2>3 DEF SessionInv, TypeOK, LoginInv, rendererVars, observers
    <2>5. tokens' # None
      BY <2>2, NoneAssumption
    <2>6. FromSuccess' /\ NewestHeld' /\ SpentOnce'
      BY <2>1, <2>2 DEF SessionInv, FromSuccess, SessionFromSuccess, NewestHeld, Held, SpentOnce,
                        loginVars, observers
    <2>7. DiskInv'
      BY <2>1, <2>2, <2>5 DEF SessionInv, DiskInv, DiskFollowsMemory, RefreshOf, observers
    <2> QED BY <2>3, <2>4, <2>6, <2>7 DEF SessionInv
  <1>2. CASE SendGrant
    <2>1. /\ inflight # None /\ inflight \in Flight /\ inflight.stage = "config"
          /\ inflight' = [inflight EXCEPT !.stage = "sent"]
          /\ UNCHANGED <<loginVars, tokens, callers, restoring, disk, ready, idp,
                         rendererVars, restarts, observers>>
      BY <1>2 DEF SendGrant, SessionInv, TypeOK
    <2>2. /\ inflight' \in Flight /\ inflight'.login = inflight.login /\ inflight'.gen = inflight.gen
          /\ inflight'.live = inflight.live /\ inflight'.stage = "sent"
      BY <2>1 DEF Flight
    <2>3. LoginInv'
      BY <2>1, LoginSame DEF SessionInv
    <2>4. TypeOK'
      BY <2>1, <2>2, <2>3 DEF SessionInv, TypeOK, LoginInv, rendererVars, observers
    <2>5. FromSuccess' /\ SpentOnce'
      BY <2>1, <2>2 DEF SessionInv, FromSuccess, SessionFromSuccess, SpentOnce, loginVars, observers
    <2>6. DiskInv'
      BY <2>1, <2>2, NoneAssumption DEF SessionInv, DiskInv, DiskFollowsMemory, RefreshOf, observers
    <2>7. NewestHeld'
      BY <2>1, <2>2, NoneAssumption DEF SessionInv, NewestHeld, Held, observers
    <2> QED BY <2>3, <2>4, <2>5, <2>6, <2>7 DEF SessionInv
  <1> QED BY <1>1, <1>2

(* Keycloak's answer: for a session that is not torn it is a grant. *)
LEMMA IdpStep ==
  ASSUME SessionInv, IdpAnswers
  PROVE  SessionInv'
  <1> DEFINE L == inflight.login
  <1>1. /\ inflight # None /\ inflight \in Flight /\ inflight.stage = "sent"
        /\ UNCHANGED <<loginVars, tokens, callers, restoring, disk, ready,
                       rendererVars, restarts, silent, unsaved, torn>>
    BY DEF IdpAnswers, SessionInv, TypeOK
  <1>2. L \in Attempts /\ result[L] = "ok" /\ idp[L] \in [gen : Gens, revoked : BOOLEAN]
    BY <1>1 DEF SessionInv, TypeOK, FromSuccess, Flight
  <1>3. ASSUME NEW new \in Flight, NEW grant \in [gen : Gens, revoked : BOOLEAN],
               inflight' = new, idp' = [idp EXCEPT ![L] = grant],
               reused' = reused \/ reused' = reused \cup {L},
               new.login = L, new.gen = inflight.gen, new.live = inflight.live,
               L \in torn \/ ( /\ reused' = reused /\ ~grant.revoked
                               /\ new.stage = "granted" /\ new.next = grant.gen )
        PROVE  SessionInv'
    <2>1. new # None
      BY NoneAssumption
    <2>2. LoginInv'
      BY <1>1, LoginSame DEF SessionInv
    <2>3. /\ idp' \in [Attempts -> [gen : Gens, revoked : BOOLEAN]]
          /\ idp'[L] = grant
          /\ \A f \in Attempts \ {L} : idp'[f] = idp[f]
      BY <1>2, <1>3 DEF SessionInv, TypeOK
    <2>4. TypeOK'
      BY <1>1, <1>2, <1>3, <2>2, <2>3 DEF SessionInv, TypeOK, LoginInv, rendererVars
    <2>5. FromSuccess'
      BY <1>1, <1>2, <1>3, <2>3 DEF SessionInv, FromSuccess, SessionFromSuccess, loginVars
    <2>6. DiskInv'
      BY <1>1, <1>3, <2>1 DEF SessionInv, DiskInv, DiskFollowsMemory, RefreshOf
    <2>7. SpentOnce'
      BY <1>1, <1>3 DEF SessionInv, SpentOnce
    <2>8. NewestHeld'
      <3> SUFFICES ASSUME NEW f \in Attempts \ torn
                   PROVE  /\ ~idp'[f].revoked
                          /\ tokens # None /\ tokens.login = f => tokens.gen = Held(f)'
                          /\ disk # None /\ disk.login = f => disk.gen = Held(f)'
                          /\ L = f => /\ new.stage = "granted"
                                      /\ new.next = idp'[f].gen
        BY <1>1, <1>3, <2>1 DEF NewestHeld
      <3>1. Held(f)' = Held(f)
        BY <1>1, <1>3, <2>1, <2>3 DEF Held
      <3> QED BY <1>1, <1>3, <2>3, <3>1 DEF SessionInv, NewestHeld
    <2> QED BY <2>2, <2>4, <2>5, <2>6, <2>7, <2>8 DEF SessionInv
  <1>4. CASE inflight.gen = idp[L].gen /\ ~idp[L].revoked
    <2>1. PICK g \in Gens : /\ inflight' = [inflight EXCEPT !.stage = "granted", !.next = g]
                            /\ idp' = [idp EXCEPT ![L].gen = g]
                            /\ reused' = reused
      BY <1>4 DEF IdpAnswers
    <2> DEFINE new == [inflight EXCEPT !.stage = "granted", !.next = g]
               grant == [idp[L] EXCEPT !.gen = g]
    <2>2. /\ new \in Flight /\ new.login = L /\ new.gen = inflight.gen /\ new.live = inflight.live
          /\ new.stage = "granted" /\ new.next = g
      BY <1>1 DEF Flight
    <2>3. grant \in [gen : Gens, revoked : BOOLEAN] /\ grant.gen = g /\ grant.revoked = idp[L].revoked
      BY <1>2
    <2>4. inflight' = new /\ idp' = [idp EXCEPT ![L] = grant]
      BY <2>1
    <2> HIDE DEF new, grant
    <2> QED BY <1>3, <1>4, <2>1, <2>2, <2>3, <2>4
  <1>5. CASE ~(inflight.gen = idp[L].gen /\ ~idp[L].revoked)
    <2>1. /\ inflight' = [inflight EXCEPT !.stage = "refused"]
          /\ idp' = [idp EXCEPT ![L].revoked = TRUE]
          /\ reused' = reused \/ reused' = reused \cup {L}
      BY <1>5 DEF IdpAnswers
    <2> DEFINE new == [inflight EXCEPT !.stage = "refused"]
               grant == [idp[L] EXCEPT !.revoked = TRUE]
    <2>2. /\ new \in Flight /\ new.login = L /\ new.gen = inflight.gen /\ new.live = inflight.live
      BY <1>1 DEF Flight
    <2>3. grant \in [gen : Gens, revoked : BOOLEAN]
      BY <1>2
    <2>4. inflight' = new /\ idp' = [idp EXCEPT ![L] = grant]
      BY <2>1
    <2>5. L \in torn
      BY <1>1, <1>2, <1>5 DEF SessionInv, NewestHeld
    <2> HIDE DEF new, grant
    <2> QED BY <1>3, <2>1, <2>2, <2>3, <2>4, <2>5
  <1> QED BY <1>4, <1>5

(* New tokens for session f, adopted and saved. *)
LEMMA Adopts ==
  ASSUME SessionInv, NEW f \in Attempts, NEW g \in Gens,
         tokens' = [login |-> f, gen |-> g, fresh |-> TRUE],
         Save([login |-> f, gen |-> g])
  PROVE  /\ tokens' \in Tokens /\ tokens'.login = f /\ tokens'.gen = g /\ tokens' # None
         /\ disk' \in RefreshToken \cup {None}
         /\ disk' # None => Encryption /\ disk'.login = f /\ disk'.gen = g
         /\ Encryption => disk' = RefreshOf(tokens')
         /\ unsaved' = FALSE
  <1> DEFINE rt == [login |-> f, gen |-> g]
  <1>1. rt \in RefreshToken /\ rt.login = f /\ rt.gen = g
    BY DEF RefreshToken
  <1>2. tokens' \in Tokens /\ tokens'.login = f /\ tokens'.gen = g
    BY DEF Tokens
  <1>3. disk' = (IF Encryption THEN rt ELSE disk) /\ unsaved' = FALSE
    BY DEF Save
  <1>4. RefreshOf(tokens') = rt
    BY <1>2 DEF RefreshOf
  <1> HIDE DEF rt
  <1> QED BY <1>1, <1>2, <1>3, <1>4, NoneAssumption DEF SessionInv, TypeOK, DiskInv

(* A refresh is answered. *)
LEMMA RefreshSteps ==
  ASSUME SessionInv, RefreshDone \/ RefreshFailed
  PROVE  SessionInv'
  <1> DEFINE L == inflight.login
  <1>1. inflight # None /\ inflight \in Flight /\ L \in Attempts /\ inflight.next \in Gens
    BY DEF RefreshDone, RefreshFailed, SessionInv, TypeOK, Flight
  <1>2. /\ inflight' = None /\ callers' = 0 /\ restoring' = FALSE /\ ready' = (ready \/ restoring)
        /\ UNCHANGED <<loginVars, idp, page, reads, view, restarts, torn, reused>>
        /\ unsaved' = FALSE
    BY DEF RefreshDone, RefreshFailed, EndFlight, Save, Clear, SessionInv, TypeOK
  <1>3. changed' \in 0..EventCap /\ silent' \in BOOLEAN
    <2>1. (callers + IF restoring THEN 1 ELSE 0) \in Nat
      BY BoundsAssumption DEF SessionInv, TypeOK
    <2>2. Overtaken \in BOOLEAN /\ silent \in BOOLEAN /\ changed \in 0..EventCap
      BY DEF Overtaken, SessionInv, TypeOK
    <2>3. CASE RefreshDone
      <3>1. CASE restoring
        BY <2>3, <3>1, Notified DEF RefreshDone, SessionInv
      <3>2. CASE ~restoring
        BY <2>2, <2>3, <3>2 DEF RefreshDone
      <3> QED BY <3>1, <3>2
    <2>4. CASE RefreshFailed
      BY <2>1, <2>4, Notified DEF RefreshFailed, SessionInv
    <2> QED BY <2>3, <2>4
  <1>4. LoginInv' /\ result' = result
    BY <1>2, LoginSame DEF SessionInv, loginVars
  <1>5. ready' \in BOOLEAN /\ (ready' <=> ~restoring')
    BY <1>2 DEF SessionInv, DiskInv, TypeOK
  <1>6. callers' \in 0..MaxCalls /\ restoring' \in BOOLEAN
    <2>1. callers' = 0 /\ restoring' = FALSE
      BY <1>2
    <2>2. 0 \in 0..MaxCalls
      BY BoundsAssumption
    <2> QED BY <2>1, <2>2
  <1>7. CASE RefreshDone
    <2>1. /\ tokens' \in Tokens /\ tokens'.login = L /\ tokens'.gen = inflight.next /\ tokens' # None
          /\ disk' \in RefreshToken \cup {None}
          /\ disk' # None => Encryption /\ disk'.login = L /\ disk'.gen = inflight.next
          /\ Encryption => disk' = RefreshOf(tokens')
      BY <1>1, <1>7, Adopts DEF RefreshDone
    <2>2. TypeOK'
      BY <1>2, <1>3, <1>4, <1>5, <1>6, <2>1 DEF SessionInv, TypeOK, LoginInv
    <2>3. FromSuccess'
      BY <1>1, <1>2, <1>4, <2>1 DEF SessionInv, FromSuccess, SessionFromSuccess
    <2>4. DiskInv'
      BY <1>2, <1>5, <2>1 DEF DiskInv, DiskFollowsMemory
    <2>5. L \notin torn => inflight.next = idp[L].gen
      BY <1>1, <1>7 DEF RefreshDone, SessionInv, NewestHeld
    <2>6. NewestHeld' /\ SpentOnce'
      BY <1>2, <2>1, <2>5 DEF SessionInv, NewestHeld, Held, SpentOnce
    <2> QED BY <1>4, <2>2, <2>3, <2>4, <2>6 DEF SessionInv
  <1>8. CASE RefreshFailed
    <2>1. tokens' = None /\ disk' = None
      BY <1>8 DEF RefreshFailed, Clear
    <2>2. TypeOK'
      BY <1>2, <1>3, <1>4, <1>5, <1>6, <2>1 DEF SessionInv, TypeOK, LoginInv
    <2>3. FromSuccess' /\ DiskInv'
      BY <1>2, <1>4, <1>5, <2>1 DEF SessionInv, FromSuccess, SessionFromSuccess, DiskInv, DiskFollowsMemory
    <2>4. NewestHeld' /\ SpentOnce'
      BY <1>2, <2>1 DEF SessionInv, NewestHeld, Held, SpentOnce
    <2> QED BY <1>4, <2>2, <2>3, <2>4 DEF SessionInv
  <1> QED BY <1>7, <1>8

(* A login delivers tokens, the user signs out, the app is restarted. *)
LEMMA UserSteps ==
  ASSUME SessionInv, (\E f \in Attempts : LoginDone(f)) \/ Logout \/ Restart
  PROVE  SessionInv'
  <1>1. ASSUME NEW f \in Attempts, LoginDone(f) PROVE SessionInv'
    <2>1. /\ Exchanged(f)
          /\ UNCHANGED <<inflight, callers, restoring, ready, idp, page, reads,
                         view, restarts, torn, reused>>
      BY <1>1 DEF LoginDone
    <2>2. LoginInv'
      BY <2>1, LoginStepKeeps DEF SessionInv
    <2>3. CASE result[f] # "unset"
      <3>1. UNCHANGED <<tokens, disk, changed, silent, unsaved>> /\ result' = result
        BY <1>1, <2>3 DEF LoginDone, Exchanged, Finish, Settled
      <3>2. TypeOK'
        BY <2>1, <2>2, <3>1 DEF SessionInv, TypeOK, LoginInv
      <3> QED BY <2>1, <2>2, <3>1, <3>2, SessionFrame
    <2>4. CASE result[f] = "unset"
      <3>1. /\ tokens' = [login |-> f, gen |-> 0, fresh |-> TRUE]
            /\ \/ Save([login |-> f, gen |-> 0]) /\ Notify(1)
               \/ SaveFails /\ silent' = TRUE /\ UNCHANGED changed
        BY <1>1, <2>4 DEF LoginDone, Settled
      <3>2. result' = [result EXCEPT ![f] = "ok"]
        BY <2>1, <2>4 DEF Exchanged, Finish, Settled
      <3>3. 0 \in Gens
        BY BoundsAssumption DEF Gens
      <3>4. /\ tokens' \in Tokens /\ tokens'.login = f /\ tokens'.gen = 0 /\ tokens' # None
            /\ disk' \in RefreshToken \cup {None}
            /\ disk' # None => Encryption /\ (disk' = disk \/ (disk'.login = f /\ disk'.gen = 0))
            /\ Encryption => disk' = RefreshOf(tokens') \/ unsaved'
            /\ unsaved' \in BOOLEAN
        <4>1. CASE SaveFails
          <5>1. tokens' \in Tokens /\ tokens'.login = f /\ tokens'.gen = 0
            BY <3>1, <3>3 DEF Tokens
          <5>2. tokens' # None
            BY <5>1, NoneAssumption
          <5>3. disk' \in {disk, None} /\ unsaved' = TRUE /\ Encryption
            BY <4>1 DEF SaveFails
          <5>4. disk' \in RefreshToken \cup {None}
            BY <5>3 DEF SessionInv, TypeOK
          <5> QED BY <5>1, <5>2, <5>3, <5>4
        <4>2. CASE Save([login |-> f, gen |-> 0])
          BY <3>1, <3>3, <4>2, Adopts
        <4> QED BY <3>1, <4>1, <4>2
      <3>5. changed' \in 0..EventCap /\ silent' \in BOOLEAN
        BY <3>1, Notified DEF SessionInv, TypeOK
      <3>6. TypeOK'
        BY <2>1, <2>2, <3>4, <3>5 DEF SessionInv, TypeOK, LoginInv
      <3>7. inflight # None => inflight.login \in Attempts /\ inflight.login # f
        BY <2>4 DEF SessionInv, TypeOK, FromSuccess, Flight
      <3>8. idp[f].gen = 0
        BY <2>4 DEF SessionInv, FromSuccess
      <3>9. FromSuccess'
        <4>1. disk # None => disk.login \in Attempts
          BY DEF SessionInv, TypeOK, RefreshToken
        <4> QED BY <2>1, <3>2, <3>4, <3>7, <4>1
                DEF SessionInv, TypeOK, LoginTypeOK, FromSuccess, SessionFromSuccess
      <3>10. DiskInv'
        BY <2>1, <3>4 DEF SessionInv, DiskInv, DiskFollowsMemory
      <3>11. NewestHeld' /\ SpentOnce'
        BY <2>1, <3>4, <3>7, <3>8 DEF SessionInv, NewestHeld, Held, SpentOnce
      <3> QED BY <2>2, <3>6, <3>9, <3>10, <3>11 DEF SessionInv
    <2> QED BY <2>3, <2>4
  <1>2. CASE Logout
    <2>1. /\ tokens' = None /\ disk' = None /\ unsaved' = FALSE
          /\ UNCHANGED <<loginVars, inflight, callers, restoring, ready, idp, page,
                         reads, view, restarts, torn, reused>>
      BY <1>2 DEF Logout, Clear
    <2>2. changed' \in 0..EventCap /\ silent' = FALSE
      BY <1>2, Notified DEF Logout, SessionInv
    <2>3. LoginInv' /\ result' = result
      BY <2>1, LoginSame DEF SessionInv, loginVars
    <2>4. TypeOK'
      BY <2>1, <2>2, <2>3 DEF SessionInv, TypeOK, LoginInv
    <2>5. FromSuccess' /\ DiskInv'
      BY <2>1, <2>3 DEF SessionInv, FromSuccess, SessionFromSuccess, DiskInv, DiskFollowsMemory
    <2>6. NewestHeld' /\ SpentOnce'
      BY <2>1 DEF SessionInv, NewestHeld, Held, SpentOnce
    <2> QED BY <2>3, <2>4, <2>5, <2>6 DEF SessionInv
  <1>3. CASE Restart
    <2>1. LoginInv' /\ \A g \in Attempts : result'[g] = "ok" <=> result[g] = "ok"
      BY <1>3, LostKeeps, SuccessStable DEF Restart, SessionInv
    <2>2. Splash \in State
      BY DEF Splash, State
    <2>3. TypeOK'
      <3>1. callers' \in 0..MaxCalls /\ changed' \in 0..EventCap /\ restarts' \in 0..MaxRestarts
        BY <1>3, BoundsAssumption DEF Restart, SessionInv, TypeOK
      <3>2. torn' \in SUBSET Attempts
        BY <1>3 DEF Restart, SessionInv, TypeOK
      <3> QED BY <1>3, <2>1, <2>2, <3>1, <3>2 DEF Restart, SessionInv, TypeOK, LoginInv
    <2>4. disk # None => disk.login \in Attempts
      BY DEF SessionInv, TypeOK, RefreshToken
    <2>5. FromSuccess'
      BY <1>3, <2>1, <2>4 DEF Restart, SessionInv, FromSuccess, SessionFromSuccess
    <2>6. DiskInv'
      BY <1>3 DEF Restart, SessionInv, DiskInv, DiskFollowsMemory
    <2>7. NewestHeld' /\ SpentOnce'
      BY <1>3 DEF Restart, SessionInv, NewestHeld, Held, SpentOnce
    <2> QED BY <2>1, <2>3, <2>5, <2>6, <2>7 DEF SessionInv
  <1> QED BY <1>1, <1>2, <1>3

(* Every step preserves the engine's invariant. *)
LEMMA SessionStepKeeps == SessionInv /\ [Next]_vars => SessionInv'
  <1> SUFFICES ASSUME SessionInv, [Next]_vars PROVE SessionInv'
    OBVIOUS
  <1>1. CASE UNCHANGED vars
    <2>1. LoginInv' /\ result' = result
      BY <1>1, LoginSame DEF SessionInv, vars, loginVars
    <2>2. TypeOK'
      BY <1>1, <2>1 DEF SessionInv, TypeOK, LoginInv, vars, sessionVars, rendererVars, observers
    <2> QED BY <1>1, <2>1, <2>2, SessionFrame DEF vars, sessionVars, observers
  <1> QED BY <1>1, LoginOnlyStep, RendererKeeps, RestoreSteps, WaitSteps, IdpStep, RefreshSteps,
             UserSteps DEF Next, SessionStep

-----------------------------------------------------------------------------
(* The renderer. *)

(* The window is not mounted at first. *)
LEMMA ViewInit == Init => ViewInv
  BY DEF Init, ViewInv

(* A change of the main process that a mounted renderer is told of, or that *)
(* it cannot see, leaves it informed.                                       *)
LEMMA ToldOrSame ==
  ASSUME ViewInv, UNCHANGED <<reads, view, page>>,
         \/ silent' = TRUE
         \/ page = "mounted" => changed' > 0
         \/ MainState' = MainState /\ (changed > 0 => changed' > 0) /\ (silent => silent')
  PROVE  ViewInv'
  BY DEF ViewInv, Informed

(* One notification is enough. *)
LEMMA OneTold == SessionInv /\ Notify(1) /\ page = "mounted" => changed' > 0
  BY BoundsAssumption DEF SessionInv, TypeOK, Notify, Capped

(* The steps of the main process: the only changes without a notification   *)
(* are made by a refresh whose session was signed out or replaced meanwhile *)
(* and by a login whose token could not be saved.                           *)
LEMMA MainTells ==
  ASSUME SessionInv, ViewInv, LoginOnly \/ SessionStep
  PROVE  ViewInv'
  <1> USE DEF MainState, MainUser
  <1>1. CASE LoginOnly
    BY <1>1, ToldOrSame DEF LoginOnly, sessionVars, rendererVars, observers
  <1>2. ASSUME RestoreRefresh \/ GetAccessTokenStale \/ SendGrant \/ IdpAnswers
        PROVE  ViewInv'
    <2>1. UNCHANGED <<tokens, ready, page, changed, reads, view, silent>>
      BY <1>2 DEF RestoreRefresh, GetAccessTokenStale, SendGrant, IdpAnswers, rendererVars, observers
    <2> QED BY <2>1, ToldOrSame
  <1>3. CASE Expire
    <2>1. tokens \in Tokens /\ tokens' = [tokens EXCEPT !.fresh = FALSE] /\ tokens # None
      BY <1>3 DEF Expire, SessionInv, TypeOK
    <2>2. tokens' \in Tokens /\ tokens'.login = tokens.login
      BY <2>1 DEF Tokens
    <2>3. MainState' = MainState
      BY <1>3, <2>1, <2>2, NoneAssumption DEF Expire
    <2> QED BY <1>3, <2>3, ToldOrSame DEF Expire, rendererVars, observers
  <1>4. ASSUME RestoreNothing \/ GetAccessTokenSignedOut \/ Logout PROVE ViewInv'
    <2>1. Notify(1) /\ UNCHANGED <<page, reads, view>>
      BY <1>4 DEF RestoreNothing, GetAccessTokenSignedOut, Logout
    <2>2. page = "mounted" => changed' > 0
      BY <2>1, OneTold
    <2> QED BY <2>1, <2>2, ToldOrSame
  <1>5. ASSUME NEW f \in Attempts, LoginDone(f) PROVE ViewInv'
    <2>1. CASE result[f] = "unset"
      <3>1. UNCHANGED <<page, reads, view>> /\ (Notify(1) \/ silent' = TRUE)
        BY <1>5, <2>1 DEF LoginDone, Settled
      <3>2. silent' \/ (page = "mounted" => changed' > 0)
        BY <3>1, OneTold
      <3> QED BY <3>1, <3>2, ToldOrSame
    <2>2. CASE result[f] # "unset"
      BY <1>5, <2>2, ToldOrSame DEF LoginDone
    <2> QED BY <2>1, <2>2
  <1>6. CASE RefreshDone
    <2>1. UNCHANGED <<page, reads, view>>
          /\ (~restoring => silent' = (silent \/ Overtaken) /\ changed' = changed)
      BY <1>6 DEF RefreshDone
    <2>2. CASE restoring
      <3>1. Notify(1)
        BY <1>6, <2>2 DEF RefreshDone
      <3>2. page = "mounted" => changed' > 0
        BY <3>1, OneTold
      <3> QED BY <2>1, <3>2, ToldOrSame
    <2>3. CASE ~restoring /\ ~Overtaken
      <3>1. inflight # None /\ inflight.live /\ tokens # None /\ tokens.login = inflight.login
        BY <1>6, <2>3 DEF RefreshDone, SessionInv, DiskInv, Overtaken
      <3>2. inflight.login \in Attempts /\ inflight.next \in Gens
        BY <3>1 DEF SessionInv, TypeOK, Flight
      <3>3. tokens' # None /\ tokens'.login = inflight.login
        BY <1>6, <3>2, Adopts DEF RefreshDone
      <3>4. ready' = ready
        BY <1>6, <2>3 DEF RefreshDone, EndFlight, SessionInv, TypeOK
      <3>5. MainState' = MainState
        BY <3>1, <3>3, <3>4
      <3>6. silent => silent'
        BY <2>1, <2>3
      <3> QED BY <2>1, <2>3, <3>5, <3>6, ToldOrSame
    <2>4. CASE ~restoring /\ Overtaken
      BY <2>1, <2>4, ToldOrSame
    <2> QED BY <2>2, <2>3, <2>4
  <1>7. CASE RefreshFailed
    <2> DEFINE k == callers + IF restoring THEN 1 ELSE 0
    <2>1. k \in Nat /\ k > 0
      BY <1>7, BoundsAssumption DEF RefreshFailed, SessionInv, TypeOK, DiskInv
    <2>2. Notify(k) /\ UNCHANGED <<page, reads, view>>
      BY <1>7 DEF RefreshFailed
    <2> HIDE DEF k
    <2>3. page = "mounted" => changed' > 0
      BY <2>1, <2>2, Notified DEF SessionInv
    <2> QED BY <2>2, <2>3, ToldOrSame
  <1>8. CASE Restart
    BY <1>8 DEF Restart, ViewInv
  <1> QED BY <1>1, <1>2, <1>3, <1>4, <1>5, <1>6, <1>7, <1>8 DEF SessionStep

(* A new read is the only latest one. *)
LEMMA SyncAsks ==
  ASSUME SessionInv, Sync
  PROVE  /\ \A r, o \in reads' : r.latest /\ o.latest => r = o
         /\ \E r \in reads' : r.latest /\ r.answer = None
  <1> DEFINE new == [latest |-> TRUE, answer |-> None]
  <1>1. new \in reads' /\ new.latest /\ new.answer = None
    BY DEF Sync
  <1>2. ASSUME NEW r \in reads', r.latest PROVE r = new
    <2>1. ASSUME NEW o \in reads, r = [o EXCEPT !.latest = FALSE] PROVE FALSE
      <3>1. o \in [latest : BOOLEAN, answer : State \cup {None}]
        BY DEF SessionInv, TypeOK
      <3> QED BY <1>2, <2>1, <3>1
    <2> QED BY <2>1 DEF Sync
  <1> HIDE DEF new
  <1> QED BY <1>1, <1>2

(* The renderer's steps: a read is answered from the state of that moment,  *)
(* and only the latest answer is shown.                                     *)
LEMMA RendererAsks ==
  ASSUME SessionInv, ViewInv, RendererStep
  PROVE  ViewInv'
  <1>1. MainState' = MainState
    BY RendererTypes DEF sessionVars, MainState, MainUser
  <1>2. ASSUME Mount \/ OnAuthChanged PROVE ViewInv'
    <2>1. Sync
      BY <1>2 DEF Mount, OnAuthChanged
    <2> QED BY <2>1, SyncAsks DEF ViewInv, Informed
  <1>3. ASSUME NEW r \in reads, AnswerRead(r) PROVE ViewInv'
    <2> DEFINE told == [r EXCEPT !.answer = MainState]
    <2>1. r \in [latest : BOOLEAN, answer : State \cup {None}]
      BY DEF SessionInv, TypeOK
    <2>2. told.latest = r.latest /\ told.answer = MainState
      BY <2>1
    <2>3. reads' = (reads \ {r}) \cup {told} /\ UNCHANGED <<page, changed, view, silent>>
      BY <1>3 DEF AnswerRead, MainState, observers
    <2> HIDE DEF told
    <2>4. \A a, b \in reads' : a.latest /\ b.latest => a = b
      BY <2>2, <2>3 DEF ViewInv
    <2>5. Informed => Informed'
      BY <1>1, <2>2, <2>3 DEF Informed
    <2> QED BY <1>1, <2>3, <2>4, <2>5 DEF ViewInv
  <1>4. ASSUME NEW r \in reads, ApplyRead(r) PROVE ViewInv'
    <2>1. /\ r.answer # None /\ reads' = reads \ {r}
          /\ view' = IF r.latest THEN r.answer ELSE view
          /\ UNCHANGED <<page, changed, silent>>
      BY <1>4 DEF ApplyRead, observers
    <2>2. ViewInv /\ Informed => Informed'
      <3>1. CASE r.latest
        BY <1>1, <2>1, <3>1 DEF ViewInv, Informed
      <3>2. CASE ~r.latest
        BY <1>1, <2>1, <3>2 DEF Informed
      <3> QED BY <3>1, <3>2
    <2> QED BY <1>1, <2>1, <2>2 DEF ViewInv
  <1>5. ASSUME CloseWindow \/ Activate PROVE ViewInv'
    BY <1>5 DEF CloseWindow, Activate, ViewInv, observers
  <1> QED BY <1>2, <1>3, <1>4, <1>5 DEF RendererStep

(* Every step leaves a mounted renderer informed. *)
LEMMA ViewStep == SessionInv /\ ViewInv /\ [Next]_vars => ViewInv'
  <1> SUFFICES ASSUME SessionInv, ViewInv, [Next]_vars PROVE ViewInv'
    OBVIOUS
  <1>1. CASE UNCHANGED vars
    BY <1>1, ToldOrSame DEF vars, sessionVars, rendererVars, observers, MainState, MainUser
  <1> QED BY <1>1, MainTells, RendererAsks DEF Next

-----------------------------------------------------------------------------
(* Both invariants hold in every behaviour. *)
THEOREM AuthCorrect == Spec => [](SessionInv /\ ViewInv)
  <1> QED BY SessionInit, ViewInit, SessionStepKeeps, ViewStep, PTL DEF Spec

(* A rotating refresh token is spent once: the single flight of             *)
(* auth-session.ts shares it among the callers, and only an app that died   *)
(* between the rotation and the save presents it again.                     *)
THEOREM TokenSpentOnce == Spec => []SpentOnce
  <1>1. SessionInv => SpentOnce
    BY DEF SessionInv
  <1> QED BY <1>1, AuthCorrect, PTL

(* One login runs at a time, a code is exchanged once, a session comes from *)
(* a login that succeeded and the disk follows memory.                      *)
THEOREM SessionIsSound == Spec => []SessionSound
  <1>1. LoginInv => OneLogin
    <2> SUFFICES ASSUME LoginInv PROVE OneLogin
      OBVIOUS
    <2>1. CASE inProgress
      <3>1. PICK f \in Attempts : Live(f)
        BY <2>1 DEF LoginInv
      <3>2. {g \in Attempts : Live(g)} = {f}
        BY <3>1 DEF LoginInv
      <3> QED BY <2>1, <3>2, FS_Singleton DEF LoginInv, OneLogin
    <2>2. CASE ~inProgress
      <3>1. {g \in Attempts : Live(g)} = {}
        BY <2>2 DEF LoginInv
      <3> QED BY <2>2, <3>1, FS_EmptySet DEF LoginInv, OneLogin
    <2> QED BY <2>1, <2>2
  <1>2. SessionInv => SessionSound
    BY <1>1 DEF SessionInv, LoginInv, FromSuccess, DiskInv, CodeExchangedOnce, SessionSound
  <1> QED BY <1>2, AuthCorrect, PTL

(* Once its reads have settled the renderer shows the main process's user,  *)
(* however the notifications, the reads and their answers interleave.       *)
THEOREM ViewIsTrue == Spec => []ViewAgrees
  <1>1. SessionInv /\ ViewInv => ViewAgrees
    BY DEF ViewInv, Informed, ViewAgrees, Quiet, MainState
  <1> QED BY <1>1, AuthCorrect, PTL
=============================================================================
