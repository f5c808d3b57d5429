----------------------------- MODULE DesktopAuth -----------------------------
(***************************************************************************)
(* The desktop app's authentication: the token engine of the main process  *)
(* (main/auth-session.ts), its orchestrator and IPC surface                *)
(* (main/keycloak-auth.ts, main.ts), the safeStorage token file            *)
(* (main/token-store.ts), the renderer's provider                          *)
(* (renderer/lib/keycloak-auth-provider.tsx) and the login flow of         *)
(* DesktopLogin, all under web/apps/electron/src.                          *)
(*                                                                         *)
(* A turn of the main process's event loop is atomic: a promise's          *)
(* continuations run before the next IPC message or network answer.  A     *)
(* session is named by the login attempt that created it, and its refresh  *)
(* tokens by their generation; Keycloak rotates them and revokes a session *)
(* whose old token is presented again.  Its answers carry a refresh token  *)
(* and an ID token, for the scope asks for openid and offline_access.      *)
(***************************************************************************)
EXTENDS DesktopLogin

CONSTANTS Encryption,  \* whether safeStorage encrypts on this machine
          MaxCalls,    \* bound: concurrent auth:get-access-token calls
          MaxGen,      \* bound: refresh-token rotations per session
          MaxRestarts, \* bound: restarts of the app
          EventCap,    \* bound: undelivered auth:changed events, coalesced above
          MaxReads     \* bound: auth:get-state reads under way

ASSUME BoundsAssumption ==
    /\ Encryption \in BOOLEAN
    /\ MaxCalls \in Nat
    /\ MaxGen \in Nat
    /\ MaxRestarts \in Nat
    /\ EventCap \in Nat \ {0}
    /\ MaxReads \in Nat \ {0}

VARIABLES tokens,      \* AuthSession.tokens
          inflight,    \* the refresh in flight, with the token it spends
          callers,     \* the calls that share that flight
          restoring,   \* restoreSession has not returned
          disk,        \* the persisted refresh token; a file that cannot be decrypted
                       \* counts as none
          ready,       \* restoreComplete
          idp,         \* Keycloak: newest generation and revocation, by session
          page,        \* the renderer: no window, page loading, mounted
          changed,     \* auth:changed events sent and not yet handled
          reads,       \* the renderer's auth:get-state reads under way
          view,        \* the renderer's provider state
          restarts,
          silent,      \* observer: nobody was notified when a refresh ended on tokens it
                       \* did not start from, or a login whose tokens could not be saved
          unsaved,     \* observer: the write of the token in memory failed
          torn,        \* observer: sessions whose rotation the app never saved
          reused       \* observer: sessions whose spent token was presented again

sessionVars == <<tokens, inflight, callers, restoring, disk, ready>>
rendererVars == <<page, changed, reads, view>>
observers == <<silent, unsaved, torn, reused>>
vars == <<loginVars, sessionVars, idp, rendererVars, restarts, observers>>

Gens == 0..MaxGen
RefreshToken == [login : Attempts, gen : Gens]
Tokens == [login : Attempts, gen : Gens, fresh : BOOLEAN]
Flight == [login : Attempts, gen : Gens, live : BOOLEAN,
           stage : {"config", "sent", "granted", "refused"}, next : Gens]
State == [ready : BOOLEAN, user : Attempts \cup {None}]

(* No tokens, flight, stored token or answer is told apart from every one.  *)
ASSUME NoneAssumption == None \notin RefreshToken \cup Tokens \cup Flight \cup State

(* The main process's session, the token on disk, what the provider knows   *)
(* and what the window shows have their types, in every restart.            *)
TypeOK ==
    /\ LoginTypeOK
    /\ tokens \in Tokens \cup {None}
    /\ inflight \in Flight \cup {None}
    /\ callers \in 0..MaxCalls
    /\ restoring \in BOOLEAN
    /\ disk \in RefreshToken \cup {None}
    /\ ready \in BOOLEAN
    /\ idp \in [Attempts -> [gen : Gens, revoked : BOOLEAN]]
    /\ page \in {"closed", "loading", "mounted"}
    /\ changed \in 0..EventCap
    /\ reads \in SUBSET [latest : BOOLEAN, answer : State \cup {None}]
    /\ view \in State
    /\ restarts \in 0..MaxRestarts
    /\ silent \in BOOLEAN
    /\ unsaved \in BOOLEAN
    /\ torn \in SUBSET Attempts
    /\ reused \in SUBSET Attempts

Splash == [ready |-> FALSE, user |-> None]

(* The app is starting: the window is created and restoreSession is called. *)
Init ==
    /\ LoginInit
    /\ tokens = None
    /\ inflight = None
    /\ callers = 0
    /\ restoring = TRUE
    /\ disk = None
    /\ ready = FALSE
    /\ idp = [f \in Attempts |-> [gen |-> 0, revoked |-> FALSE]]
    /\ page = "loading"
    /\ changed = 0
    /\ reads = {}
    /\ view = Splash
    /\ restarts = 0
    /\ silent = FALSE
    /\ unsaved = FALSE
    /\ torn = {}
    /\ reused = {}

-----------------------------------------------------------------------------
(* The main process. *)

Capped(n) == IF n > EventCap THEN EventCap ELSE n

(* notify reaches a renderer that has subscribed; to a window that is closed*)
(* or whose page is still loading the event is lost.  k calls at once.      *)
Notify(k) ==
    /\ changed' = IF page = "mounted" THEN Capped(changed + k) ELSE changed
    /\ silent' = FALSE

(* persistence.save declines where safeStorage would not encrypt. *)
Save(rt) ==
    /\ disk' = IF Encryption THEN rt ELSE disk
    /\ unsaved' = FALSE

(* The file cannot be written: it stays as it is, or is cut short. *)
SaveFails ==
    /\ Encryption
    /\ disk' \in {disk, None}
    /\ unsaved' = TRUE

Load == IF Encryption THEN disk ELSE None

RefreshOf(t) == [login |-> t.login, gen |-> t.gen]

Clear ==
    /\ tokens' = None
    /\ disk' = None
    /\ unsaved' = FALSE

(* Mutant: every call starts a flight of its own. *)
Refresh_NoSingleFlight(rt) ==
    inflight' = [login |-> rt.login, gen |-> rt.gen, live |-> tokens # None,
                 stage |-> "config", next |-> rt.gen]

(* refresh(rt): join the flight, or start one.                              *)
Refresh(rt) ==
    inflight' = IF inflight # None THEN inflight
                ELSE [login |-> rt.login, gen |-> rt.gen, live |-> tokens # None,
                      stage |-> "config", next |-> rt.gen]

(* The session was signed out or replaced since the flight started.         *)
Overtaken ==
    IF inflight.live THEN tokens = None \/ tokens.login # inflight.login
    ELSE tokens # None

(* The refresh token a call without a fresh access token would spend.       *)
Spendable == IF tokens # None THEN RefreshOf(tokens) ELSE Load

(* restoreSession at boot with nothing to restore: ready at once.           *)
RestoreNothing ==
    /\ restoring /\ inflight = None
    /\ tokens = None => Load = None
    /\ restoring' = FALSE
    /\ ready' = TRUE
    /\ Notify(1)
    /\ UNCHANGED <<loginVars, tokens, inflight, callers, disk, idp, page,
                   reads, view, restarts, unsaved, torn, reused>>

RestoreRefresh ==
    /\ restoring /\ inflight = None
    /\ tokens = None
    /\ Load # None
    /\ Refresh(Load)
    /\ UNCHANGED <<loginVars, tokens, callers, restoring, disk, ready, idp,
                   rendererVars, restarts, observers>>

(* AuthGateFeature shows only a splash while the provider is loading: the   *)
(* screens that call the API or sign out come after it.                     *)
PastSplash == page = "mounted" /\ view.ready

(* getAccessToken while signed out: it throws, and the orchestrator notifies*)
GetAccessTokenSignedOut ==
    /\ PastSplash
    /\ tokens = None /\ Load = None
    /\ Notify(1)
    /\ UNCHANGED <<loginVars, sessionVars, idp, page, reads, view, restarts,
                   unsaved, torn, reused>>

(* getAccessToken with an access token inside the expiry skew (a fresh one  *)
(* is returned and changes nothing), or with only a persisted token.        *)
GetAccessTokenStale ==
    /\ PastSplash
    /\ callers < MaxCalls
    /\ tokens # None => ~tokens.fresh
    /\ Spendable # None
    /\ Refresh(Spendable)
    /\ callers' = callers + 1
    /\ UNCHANGED <<loginVars, tokens, restoring, disk, ready, idp,
                   rendererVars, restarts, observers>>

(* The access token comes within the expiry skew. *)
Expire ==
    /\ tokens # None
    /\ tokens.fresh
    /\ tokens' = [tokens EXCEPT !.fresh = FALSE]
    /\ UNCHANGED <<loginVars, inflight, callers, restoring, disk, ready, idp,
                   rendererVars, restarts, observers>>

(* The configuration is there and the grant is sent. *)
SendGrant ==
    /\ inflight # None
    /\ inflight.stage = "config"
    /\ inflight' = [inflight EXCEPT !.stage = "sent"]
    /\ UNCHANGED <<loginVars, tokens, callers, restoring, disk, ready, idp,
                   rendererVars, restarts, observers>>

(* External: Keycloak answers the grant.  The newest token is accepted, and *)
(* rotated or (in a realm that does not rotate) returned; a spent one is    *)
(* reuse and revokes the session's tokens.                                  *)
IdpAnswers ==
    /\ inflight # None
    /\ inflight.stage = "sent"
    /\ LET L == inflight.login IN
       IF inflight.gen = idp[L].gen /\ ~idp[L].revoked
         THEN \E g \in {inflight.gen, inflight.gen + 1} \cap Gens :
                /\ inflight' = [inflight EXCEPT !.stage = "granted", !.next = g]
                /\ idp' = [idp EXCEPT ![L].gen = g]
                /\ UNCHANGED reused
         ELSE /\ inflight' = [inflight EXCEPT !.stage = "refused"]
              /\ idp' = [idp EXCEPT ![L].revoked = TRUE]
              /\ reused' = IF idp[L].revoked THEN reused ELSE reused \cup {L}
    /\ UNCHANGED <<loginVars, tokens, callers, restoring, disk, ready,
                   rendererVars, restarts, silent, unsaved, torn>>

(* The flight ends and everyone who shares it returns: a boot restore       *)
(* becomes ready and notifies, a call only returns its token.               *)
EndFlight ==
    /\ inflight' = None
    /\ callers' = 0
    /\ restoring' = FALSE
    /\ ready' = (ready \/ restoring)

(* The refreshed tokens replace whatever the engine holds now, and are      *)
(* saved; only a restore notifies.                                          *)
RefreshDone ==
    /\ inflight # None
    /\ inflight.stage = "granted"
    /\ tokens' = [login |-> inflight.login, gen |-> inflight.next, fresh |-> TRUE]
    /\ Save([login |-> inflight.login, gen |-> inflight.next])
    /\ EndFlight
    /\ IF restoring THEN Notify(1) ELSE silent' = (silent \/ Overtaken) /\ UNCHANGED changed
    /\ UNCHANGED <<loginVars, idp, page, reads, view, restarts,
                   torn, reused>>

(* Discovery, the network, the grant or the save of its tokens fails: every *)
(* sharer clears the session, and each of them notifies.                    *)
RefreshFailed ==
    /\ inflight # None
    /\ Clear
    /\ EndFlight
    /\ Notify(callers + IF restoring THEN 1 ELSE 0)
    /\ UNCHANGED <<loginVars, idp, page, reads, view, restarts,
                   torn, reused>>

(* Mutant: tokens are adopted from every exchange that answers.             *)
LoginDone_AnyExchange(f) ==
    /\ Exchanged(f)
    /\ tokens' = [login |-> f, gen |-> 0, fresh |-> TRUE]
    /\ Save([login |-> f, gen |-> 0])
    /\ Notify(1)
    /\ UNCHANGED <<inflight, callers, restoring, ready, idp, page, reads,
                   view, restarts, torn, reused>>

(* login() adopts the tokens of an exchange its attempt resolves with.  A   *)
(* save that throws leaves them in memory and skips the notification.       *)
LoginDone(f) ==
    /\ Exchanged(f)
    /\ \/ /\ result[f] = "unset"
          /\ tokens' = [login |-> f, gen |-> 0, fresh |-> TRUE]
          /\ \/ Save([login |-> f, gen |-> 0]) /\ Notify(1)
             \/ SaveFails /\ silent' = TRUE /\ UNCHANGED changed
       \/ Settled(f) /\ UNCHANGED <<tokens, disk, changed, silent, unsaved>>
    /\ UNCHANGED <<inflight, callers, restoring, ready, idp, page, reads,
                   view, restarts, torn, reused>>

(* logout() clears the local session first; ending the browser's SSO session*)
(* afterwards changes nothing here, and offline tokens outlive it.          *)
Logout ==
    /\ PastSplash
    /\ Clear
    /\ Notify(1)
    /\ UNCHANGED <<loginVars, inflight, callers, restoring, ready, idp, page,
                   reads, view, restarts, torn, reused>>

(* The app quits or crashes and is started again.  A rotation that was      *)
(* granted and not saved is lost with the flight, and the keychain may no   *)
(* longer decrypt the file.                                                 *)
Restart ==
    /\ restarts < MaxRestarts
    /\ restarts' = restarts + 1
    /\ torn' = torn \cup
         {L \in Attempts : inflight # None /\ inflight.login = L
                           /\ inflight.gen # idp[L].gen}
    /\ LoginLost
    /\ tokens' = None
    /\ inflight' = None
    /\ callers' = 0
    /\ restoring' = TRUE
    /\ ready' = FALSE
    /\ page' = "loading"
    /\ changed' = 0
    /\ reads' = {}
    /\ view' = Splash
    /\ silent' = FALSE
    /\ unsaved' = FALSE
    /\ disk' \in {disk, None}
    /\ UNCHANGED <<idp, reused>>

-----------------------------------------------------------------------------
(* The renderer. *)

MainUser == IF tokens = None THEN None ELSE tokens.login

(* sync: a new read makes every earlier one stale. *)
Sync == reads' = {[r EXCEPT !.latest = FALSE] : r \in reads}
                    \cup {[latest |-> TRUE, answer |-> None]}

Mount ==
    /\ page = "loading"
    /\ page' = "mounted"
    /\ Sync
    /\ silent' = FALSE
    /\ UNCHANGED <<loginVars, sessionVars, idp, changed, view, restarts,
                   unsaved, torn, reused>>

OnAuthChanged ==
    /\ changed > 0
    /\ Cardinality(reads) < MaxReads
    /\ changed' = changed - 1
    /\ Sync
    /\ UNCHANGED <<loginVars, sessionVars, idp, page, view, restarts, observers>>

(* auth:get-state is answered from the state of that moment. *)
AnswerRead(r) ==
    /\ r.answer = None
    /\ reads' = (reads \ {r}) \cup
         {[r EXCEPT !.answer = [ready |-> ready, user |-> MainUser]]}
    /\ UNCHANGED <<loginVars, sessionVars, idp, page, changed, view, restarts,
                   observers>>

(* Mutant: without the sequence number every answer is applied.             *)
ApplyRead_Unsequenced(r) ==
    /\ r.answer # None
    /\ reads' = reads \ {r}
    /\ view' = r.answer
    /\ UNCHANGED <<loginVars, sessionVars, idp, page, changed, restarts,
                   observers>>

(* Answers arrive in any order; only the latest read is applied. *)
ApplyRead(r) ==
    /\ r.answer # None
    /\ reads' = reads \ {r}
    /\ view' = IF r.latest THEN r.answer ELSE view
    /\ UNCHANGED <<loginVars, sessionVars, idp, page, changed, restarts,
                   observers>>

(* macOS keeps the app alive without a window and opens a new one later.    *)
CloseWindow ==
    /\ page = "mounted"
    /\ page' = "closed"
    /\ changed' = 0
    /\ reads' = {}
    /\ view' = Splash
    /\ UNCHANGED <<loginVars, sessionVars, idp, restarts, observers>>

Activate ==
    /\ page = "closed"
    /\ page' = "loading"
    /\ UNCHANGED <<loginVars, sessionVars, idp, changed, reads, view, restarts,
                   observers>>

-----------------------------------------------------------------------------
SessionStep ==
    \/ RestoreNothing
    \/ RestoreRefresh
    \/ GetAccessTokenSignedOut
    \/ GetAccessTokenStale
    \/ Expire
    \/ SendGrant
    \/ IdpAnswers
    \/ RefreshDone
    \/ RefreshFailed
    \/ \E f \in Attempts : LoginDone(f)
    \/ Logout
    \/ Restart

RendererStep ==
    \/ Mount
    \/ OnAuthChanged
    \/ \E r \in reads : AnswerRead(r)
    \/ \E r \in reads : ApplyRead(r)
    \/ CloseWindow
    \/ Activate

(* The sign-in page shows its button when the provider has loaded.          *)
SignIn(f) == PastSplash /\ (RunLogin(f) \/ RunLoginBusy(f))

LoginOnly ==
    /\ \/ \E f \in Attempts : SignIn(f) \/ LoginStep(f)
       \/ PastSplash /\ CancelLogin
    /\ UNCHANGED <<sessionVars, idp, rendererVars, restarts, observers>>

Next == LoginOnly \/ SessionStep \/ RendererStep

(* A request to the provider is answered or fails, an IPC message is        *)
(* handled, and the login's five-minute timer fires.                        *)
Fairness ==
    /\ WF_vars(\/ RestoreNothing \/ RestoreRefresh
               \/ SendGrant \/ IdpAnswers \/ RefreshDone \/ RefreshFailed)
    /\ WF_vars(/\ \E f \in Attempts :
                    Discovered(f) \/ DiscoveryFailed(f) \/ Timeout(f)
               /\ UNCHANGED <<sessionVars, idp, rendererVars, restarts, observers>>)
    /\ WF_vars(Mount \/ OnAuthChanged
               \/ \E r \in reads : AnswerRead(r) \/ ApplyRead(r))

Spec == Init /\ [][Next]_vars /\ Fairness

-----------------------------------------------------------------------------
(* A rotating refresh token is spent once: a burst of calls shares one      *)
(* flight, so Keycloak sees a spent token again only when the app died      *)
(* between a rotation and the save of the rotated token.                    *)
SpentOnce == reused \subseteq torn

(* A session belongs to a login that reported success: an attempt that was  *)
(* cancelled, timed out or refused never leaves its tokens behind, however  *)
(* late its exchange answers.                                               *)
SessionFromSuccess ==
    /\ tokens # None => result[tokens.login] = "ok"
    /\ disk # None => result[disk.login] = "ok"

(* The stored token is the live one, unless its write failed: a restart     *)
(* resumes the session in memory and resumes nothing after a sign-out.      *)
DiskFollowsMemory ==
    /\ tokens # None /\ Encryption => disk = RefreshOf(tokens) \/ unsaved
    /\ tokens = None /\ ready /\ inflight = None => disk = None

(* The session is sound through cancelled and late logins, refreshes,      *)
(* crashes and restarts: one login at a time, each code exchanged once,    *)
(* tokens only from a login that succeeded, and the disk as memory has it. *)
SessionSound ==
    /\ TypeOK /\ OneLogin /\ CodeExchangedOnce
    /\ SessionFromSuccess /\ DiskFollowsMemory

(* Once its reads have settled, the renderer shows the main process's user. *)
(* Only a refresh that outlived a sign-out or a login escapes, and a login  *)
(* whose token could not be saved: until the next notification nobody       *)
(* learns of the session they left.                                         *)
Quiet == page = "mounted" /\ changed = 0 /\ \A r \in reads : ~r.latest

ViewAgrees ==
    Quiet /\ ~silent => view = [ready |-> ready, user |-> MainUser]

(* Every login that is started settles, whatever the user or the provider   *)
(* does: no path leaves the slot taken for ever.                            *)
LoginSettles == \A f \in Attempts : (task[f] = "discover") ~> Settled(f)

(* The splash ends: an open window eventually learns that the boot restore  *)
(* is over, or is closed or restarted.                                      *)
SplashEnds ==
    (page = "mounted" /\ ~view.ready) ~> (view.ready \/ page # "mounted")

(* Neither the sign-in page nor the splash hangs.                          *)
NothingHangs == LoginSettles /\ SplashEnds

(* logout() signs the app out: a refresh that was under way does not bring  *)
(* the session back.                                                        *)
SignedOutStays ==
    [][tokens = None /\ inflight # None /\ inflight.live /\ inflight' = None
         => tokens' = None]_vars

=============================================================================
