------------------------------ MODULE AppShell ------------------------------
(***************************************************************************)
(* The signed-in shell of the web app in the tabs of one browser: which    *)
(* organization a page is about (the URL, or the remembered one where the  *)
(* URL names none), the theme, and signing out and in as someone else      *)
(* while other tabs are open.  Pages share the session and the cookie jar, *)
(* and nothing else but the store's broadcasts.                            *)
(***************************************************************************)
EXTENDS ClientStorage

CONSTANTS
    Users,          \* the people who sign in on this browser
    OrgOrder,       \* the organizations, in the order the picker sorts them
    Member,         \* Member[u]: the organizations u belongs to at first
    First,          \* the user who is signed in at first
    Nobody,
    Unloaded,       \* the organizations query has no data
    MaxActs         \* bound: what the users do (loads, clicks, sign-ins and sign-outs)

Orgs == {OrgOrder[n] : n \in DOMAIN OrgOrder}
Flat == "flat"                       \* a route without $organization
Root == "root"                       \* the route "/", which only redirects
Dests == Orgs \cup {Flat, Root}

(* Two items of items.ts matter here: the theme is declared broadcast, the  *)
(* active organization is not.                                              *)
ASSUME ItemsAssumption ==
    /\ {"theme", "org"} \subseteq Items
    /\ "theme" \in Broadcast /\ "org" \notin Broadcast
    /\ Value["theme"] = {"light", "system", "dark"}
    /\ Value["org"] = Orgs
ASSUME PeopleAssumption ==
    /\ OrgOrder \in Seq(Orgs)
    /\ First \in Users /\ Nobody \notin Users
    /\ Member \in [Users -> SUBSET Orgs]
    /\ \A list \in SUBSET Orgs : list # Unloaded
    /\ Flat \notin Orgs /\ Root \notin Orgs /\ "create" \notin Orgs

VARIABLES
    session,    \* the user of the session cookie, or Nobody
    member,     \* the server's memberships
    page,       \* page[t]: "away" (another site or a sign-in page), "loading", "live",
                \* or "create" (the onboarding page, without the shell)
    user,       \* user[t]: the user in t's route context
    route,      \* route[t]: the organization in t's URL, or Flat
    going,      \* going[t]: the organization whose page t's picker is on its way to, or Null
    internal,   \* internal[t]: internalActiveOrganization
    orgs,       \* orgs[t]: data of t's organizations query
    ssr,        \* ssr[t]: initialActiveOrganization of the page on its way to t
    raced,      \* observer: a theme was set while an earlier one was still spreading
    stray,      \* observer: a page survived the sign-out of its user
    dropped,    \* observer: tabs where another link overtook the picker's choice
    author,     \* observer: the user under whom the newest organization was remembered
    acts        \* used-up bound

shellVars == <<session, member, page, user, route, going, internal, orgs, ssr>>
ghosts == <<raced, stray, dropped, author>>
vars == <<storageVars, shellVars, ghosts, acts>>

(* Pages, their users and their scopes have their types, and so has the     *)
(* storage they share.                                                      *)
TypeOK ==
    /\ StorageTypeOK
    /\ session \in Users \cup {Nobody}
    /\ member \in [Users -> SUBSET Orgs]
    /\ page \in [Tabs -> {"away", "loading", "live", "create"}]
    /\ live = {t \in Tabs : page[t] \in {"live", "create"}}
    /\ user \in [Tabs -> Users \cup {Nobody}]
    /\ route \in [Tabs -> Orgs \cup {Flat}]
    /\ \A t \in Tabs :
          /\ going[t] \in Orgs \cup {Null}
          /\ internal[t] \in Orgs \cup {Null}
          /\ ssr[t] \in Orgs \cup {Null}
          /\ orgs[t] = Unloaded \/ orgs[t] \subseteq Orgs
    /\ raced \in BOOLEAN /\ stray \in BOOLEAN /\ dropped \subseteq Tabs
    /\ author \in Users \cup {Nobody}

Init ==
    /\ StorageInit
    /\ session = First
    /\ member = Member
    /\ page = [t \in Tabs |-> "away"]
    /\ user = [t \in Tabs |-> Nobody]
    /\ route = [t \in Tabs |-> Flat]
    /\ going = [t \in Tabs |-> Null]
    /\ internal = [t \in Tabs |-> Null]
    /\ orgs = [t \in Tabs |-> Unloaded]
    /\ ssr = [t \in Tabs |-> Null]
    /\ raced = FALSE /\ stray = FALSE /\ dropped = {} /\ author = Nobody
    /\ acts = 0

-----------------------------------------------------------------------------

(* The first organization of a list in the picker's order. *)
FirstOf(list) ==
    OrgOrder[CHOOSE n \in DOMAIN OrgOrder :
                /\ OrgOrder[n] \in list
                /\ \A k \in 1..(n - 1) : OrgOrder[k] \notin list]

(* resolveRootTarget: no organization forces create-org, a remembered one   *)
(* that is still in the list is opened, any other is demoted to the chooser. *)
ResolveRoot(list, remembered) ==
    IF list = {} THEN "create"
    ELSE IF remembered \in list THEN remembered ELSE Flat

(* The route a destination ends on, after the redirect of "/". *)
Landing(dest, list, remembered) ==
    IF dest = Root THEN ResolveRoot(list, remembered) ELSE dest

(* Mutant: the validation effect does not run when only the route changed.  *)
Effects_NotOnRoute(t, to, list, active, shows) ==
    IF to # Flat
    THEN /\ Set(t, "org", to, shows)
         /\ internal' = [internal EXCEPT ![t] = active]
         /\ author' = user'[t]
    ELSE IF list \notin {Unloaded, {}} /\ active \notin list /\ route[t] = to
    THEN /\ Set(t, "org", FirstOf(list), shows)
         /\ internal' = [internal EXCEPT ![t] = FirstOf(list)]
         /\ author' = user'[t]
    ELSE /\ shown' = [shown EXCEPT ![t] = shows]
         /\ internal' = [internal EXCEPT ![t] = active]
         /\ UNCHANGED <<cookie, writes, cache, mail, author>>

(* The two effects of useAppShell after a commit on route to, with the list *)
(* and the internal state it holds: a scope from the URL is remembered; a   *)
(* page without one falls back to the first organization when its own is    *)
(* not in a loaded, non-empty list.  shows is what the hooks rendered.      *)
Effects(t, to, list, active, shows) ==
    IF to # Flat
    THEN /\ Set(t, "org", to, shows)
         /\ internal' = [internal EXCEPT ![t] = active]
         /\ author' = user'[t]
    ELSE IF list \notin {Unloaded, {}} /\ active \notin list
    THEN /\ Set(t, "org", FirstOf(list), shows)
         /\ internal' = [internal EXCEPT ![t] = FirstOf(list)]
         /\ author' = user'[t]
    ELSE /\ shown' = [shown EXCEPT ![t] = shows]
         /\ internal' = [internal EXCEPT ![t] = active]
         /\ UNCHANGED <<cookie, writes, cache, mail, author>>

-----------------------------------------------------------------------------
(* Page loads *)

(* The document of t is replaced by a page outside the app. *)
GoAway(t) ==
    /\ Unload(t)
    /\ page' = [page EXCEPT ![t] = "away"]
    /\ user' = [user EXCEPT ![t] = Nobody]
    /\ route' = [route EXCEPT ![t] = Flat]
    /\ internal' = [internal EXCEPT ![t] = Null]
    /\ orgs' = [orgs EXCEPT ![t] = Unloaded]
    /\ ssr' = [ssr EXCEPT ![t] = Null]
    /\ going' = [going EXCEPT ![t] = Null]
    /\ dropped' = dropped \ {t}

(* requireKcSession: without a session the page leaves for sign-in. *)
KcSession == session # Nobody

(* getActiveOrgCookie: what the server reads from the request's cookies. *)
ActiveOrgCookie == Parse("org", cookie["org"])

(* prefetchOrgsForCurrentUser, which answers null for every failure. *)
PrefetchedOrgs(ok) == IF ok THEN member[session] ELSE Unloaded

(* Opening, reloading or following a link to a page of the app: the request *)
(* leaves after t's own cookie writes.  Without a session it is sent to     *)
(* sign-in.  Otherwise the server reads the session and the cookies and     *)
(* prefetches the organizations, which may fail on a route that does not    *)
(* need them, and the page it renders travels back.  The onboarding page is *)
(* a new document without the shell, which has neither a cache nor the      *)
(* channel.                                                                 *)
Load(t, dest, ok) ==
    LET list == PrefetchedOrgs(ok)
        remembered == ActiveOrgCookie
        to == Landing(dest, list, remembered)
    IN  /\ acts < MaxActs
        /\ writes[t] = <<>>
        /\ acts' = acts + 1
        /\ UNCHANGED <<cookie, writes, session, member, raced, stray, author>>
        /\ IF ~KcSession
           THEN GoAway(t)
           ELSE /\ dest # Flat => ok
                /\ IF to = "create"
                   THEN GoAway(t)
                   ELSE /\ Unload(t)
                        /\ page' = [page EXCEPT ![t] = "loading"]
                        /\ user' = [user EXCEPT ![t] = session]
                        /\ route' = [route EXCEPT ![t] = to]
                        /\ orgs' = [orgs EXCEPT ![t] = list]
                        /\ ssr' = [ssr EXCEPT ![t] = remembered]
                        /\ internal' = [internal EXCEPT ![t] = Null]
                        /\ going' = [going EXCEPT ![t] = Null]
                        /\ dropped' = dropped \ {t}

(* The page of t arrives and React takes it over: the internal organization *)
(* starts from the server's reading of the cookie, else from the store, and *)
(* the mount effects run.                                                   *)
Hydrate(t) ==
    /\ page[t] = "loading"
    /\ live' = live \cup {t}
    /\ page' = [page EXCEPT ![t] = "live"]
    /\ ssr' = [ssr EXCEPT ![t] = Null]
    /\ UNCHANGED <<user, session, member, route, going, orgs, raced, stray, dropped, acts>>
    /\ Effects(t, route[t], orgs[t],
               IF ssr[t] # Null THEN ssr[t] ELSE Get(t, "org"),
               Snapshot(cache[t]))

-----------------------------------------------------------------------------
(* Inside a page *)

(* A client-side navigation of t after the gate let it through as the       *)
(* session's user; list is what ensureQueryData answered.  An organization  *)
(* that is not in the list renders "not found" under the same URL, so the   *)
(* shell around it is still scoped by the URL.  A shell that is mounted     *)
(* anew starts from the store.  Whatever the page was on its way to is      *)
(* overtaken, and the effects only run if their own values changed.         *)
Enter(t, to, list) ==
    LET active == IF page[t] = "create" THEN Get(t, "org") ELSE internal[t]
    IN  /\ user' = [user EXCEPT ![t] = session]
        /\ page' = [page EXCEPT ![t] = "live"]
        /\ route' = [route EXCEPT ![t] = to]
        /\ orgs' = [orgs EXCEPT ![t] = list]
        /\ going' = [going EXCEPT ![t] = Null]
        /\ UNCHANGED <<ssr, live>>
        /\ IF to = route[t] /\ to # Flat
           THEN /\ shown' = [shown EXCEPT ![t] = Snapshot(cache[t])]
                /\ dropped' = IF going[t] \in {Null, to} THEN dropped ELSE dropped \cup {t}
                /\ UNCHANGED <<cookie, writes, cache, mail, internal, author>>
           ELSE /\ dropped' = dropped \ {t}
                /\ Effects(t, to, list, active, Snapshot(cache[t]))

(* The redirect of "/" to /auth/create-org: the shell is unmounted, the     *)
(* document and its cache stay.                                             *)
Onboard(t, list) ==
    /\ user' = [user EXCEPT ![t] = session]
    /\ page' = [page EXCEPT ![t] = "create"]
    /\ route' = [route EXCEPT ![t] = Flat]
    /\ orgs' = [orgs EXCEPT ![t] = list]
    /\ going' = [going EXCEPT ![t] = Null]
    /\ internal' = [internal EXCEPT ![t] = Null]
    /\ dropped' = dropped \ {t}
    /\ UNCHANGED <<storageVars, ssr, author>>

(* ensureQueryData of the organizations in t. *)
EnsuredOrgs(t) == IF orgs[t] = Unloaded THEN member[session] ELSE orgs[t]

(* A link inside the app.  requireKcSession leaves for sign-in when the     *)
(* session is gone; a scoped route or "/" then needs the organizations, and *)
(* takes the cached list whatever its age or fetches it if there is none.   *)
Navigate(t, dest) ==
    LET list == IF dest = Flat THEN orgs[t] ELSE EnsuredOrgs(t)
        to == Landing(dest, list, Get(t, "org"))
    IN  /\ t \in live
        /\ acts < MaxActs
        /\ acts' = acts + 1
        /\ UNCHANGED <<session, member, raced, stray>>
        /\ \/ ~KcSession /\ GoAway(t) /\ UNCHANGED <<cookie, writes, author>>
           \/ KcSession /\ to = "create" /\ Onboard(t, list)
           \/ KcSession /\ to # "create" /\ Enter(t, to, list)

(* onSelectOrganization: the picker's choice is remembered at once, and the *)
(* page sets out for it.                                                    *)
SelectOrganization(t, o) ==
    /\ page[t] = "live"
    /\ orgs[t] # Unloaded /\ o \in orgs[t]
    /\ acts < MaxActs
    /\ acts' = acts + 1
    /\ Set(t, "org", o, Snapshot(cache[t]))
    /\ going' = [going EXCEPT ![t] = o]
    /\ dropped' = dropped \ {t}
    /\ author' = user[t]
    /\ UNCHANGED <<live, session, member, page, user, route, internal, orgs, ssr, raced, stray>>

(* The gate lets the picker's navigation through, or leaves for sign-in. *)
Arrive(t) ==
    /\ going[t] # Null
    /\ UNCHANGED <<session, member, raced, stray, acts>>
    /\ \/ ~KcSession /\ GoAway(t) /\ UNCHANGED <<cookie, writes, author>>
       \/ KcSession /\ Enter(t, going[t], EnsuredOrgs(t))

(* The organizations query of t is fetched again (mount, focus, reconnect); *)
(* without a session the answer is an error and the old data stays.         *)
Refetch(t) ==
    /\ page[t] = "live"
    /\ session # Nobody
    /\ orgs[t] # member[session]
    /\ orgs' = [orgs EXCEPT ![t] = member[session]]
    /\ UNCHANGED <<session, member, page, user, route, going, ssr, raced, stray, dropped, acts, live>>
    /\ IF route[t] # Flat
       THEN UNCHANGED <<cookie, writes, cache, mail, shown, internal, author>>
       ELSE Effects(t, Flat, member[session], internal[t], Snapshot(cache[t]))

NextTheme == [light |-> "system", system |-> "dark", dark |-> "light"]

(* ThemeSwitcher's click: the theme after the one it shows. *)
CycleTheme(t) ==
    LET theme == IF shown[t]["theme"] = Null THEN "system" ELSE shown[t]["theme"]
    IN  /\ page[t] = "live"
        /\ acts < MaxActs
        /\ acts' = acts + 1
        /\ Set(t, "theme", NextTheme[theme], shown[t])
        /\ raced' = (raced \/ \E s \in Tabs \ {t} :
                        \/ \E n \in DOMAIN writes[s] : writes[s][n].item = "theme"
                        \/ \E u \in Tabs : mail[s][u] # <<>>)
        /\ UNCHANGED <<shellVars, live, stray, dropped, author>>

-----------------------------------------------------------------------------
(* Signing out and in *)

(* Mutant: the logout response drops the session cookie only. *)
SignOut_KeepsOrg(t) ==
    /\ t \in live
    /\ session # Nobody
    /\ writes[t] = <<>>
    /\ session' = Nobody
    /\ stray' = (stray \/ \E u \in Tabs \ {t} : page[u] # "away")
    /\ GoAway(t)
    /\ acts < MaxActs
    /\ acts' = acts + 1
    /\ UNCHANGED <<cookie, writes, member, raced, author>>

(* signOut posts to /auth/logout, whose response drops the session cookie   *)
(* and the remembered organization, and leaves for the identity provider.   *)
SignOut(t) ==
    /\ t \in live
    /\ session # Nobody
    /\ writes[t] = <<>>
    /\ session' = Nobody
    /\ cookie' = [cookie EXCEPT !["org"] = Null]
    /\ stray' = (stray \/ \E u \in Tabs \ {t} : page[u] # "away" \/ writes[u] # <<>>)
    /\ GoAway(t)
    /\ acts < MaxActs
    /\ acts' = acts + 1
    /\ UNCHANGED <<writes, member, raced, author>>

(* Somebody signs in on a sign-in page; WebSession has the flow. *)
SignIn(t, u) ==
    /\ page[t] = "away"
    /\ session = Nobody
    /\ acts < MaxActs
    /\ acts' = acts + 1
    /\ session' = u
    /\ UNCHANGED <<storageVars, member, page, user, route, going, internal, orgs, ssr,
                   ghosts>>

(* The signed-in user loses organizations on the server, once. *)
Leave(u, lost) ==
    /\ u = session
    /\ member = Member
    /\ lost # {} /\ lost \subseteq member[u]
    /\ member' = [member EXCEPT ![u] = @ \ lost]
    /\ UNCHANGED <<storageVars, session, page, user, route, going, internal, orgs, ssr,
                   ghosts, acts>>

Browser(t) ==
    \/ Commit(t)
    \/ Rerender(t)
    \/ \E s \in Tabs : Deliver(s, t)

Next ==
    \/ \E t \in Tabs :
          \/ Browser(t) /\ UNCHANGED <<shellVars, ghosts, acts>>
          \/ \E dest \in Dests, ok \in BOOLEAN : Load(t, dest, ok)
          \/ Hydrate(t)
          \/ \E dest \in Dests : Navigate(t, dest)
          \/ \E o \in Orgs : SelectOrganization(t, o)
          \/ Arrive(t)
          \/ Refetch(t)
          \/ CycleTheme(t)
          \/ SignOut(t)
          \/ \E u \in Users : SignIn(t, u)
    \/ \E u \in Users, lost \in SUBSET Orgs : Leave(u, lost)

Spec == Init /\ [][Next]_vars

-----------------------------------------------------------------------------

(* "Toggling dark mode in one tab should darken every other open tab": once *)
(* everything in flight has arrived, all pages read the theme that the jar  *)
(* holds, through reloads that lose a message and jars that are slower than *)
(* the broadcasts, unless two tabs changed it at the same time.             *)
ThemeAgrees ==
    ~raced /\ (\A t \in Tabs : writes[t] = <<>> /\ \A s \in Tabs : mail[s][t] = <<>>)
        => \A t \in live : Get(t, "theme") = Parse("theme", cookie["theme"])

(* No subscriber is left behind by the store: a value that the page's cache *)
(* holds, written here or received, is the one its hooks show.              *)
SubscribersCurrent ==
    \A t \in live, i \in Items : cache[t][i] # Absent => shown[t][i] = cache[t][i]

(* The jar, the pages' caches and what their hooks show agree, within a    *)
(* tab at once and between tabs when the messages have arrived.            *)
StoresAgree == TypeOK /\ ThemeAgrees /\ SubscribersCurrent

(* A page scoped by its URL remembers that organization, or the one that    *)
(* its picker is on its way to, whatever the other tabs visit meanwhile:    *)
(* "/" inside it leads to where its user is or wants to be.  The exception  *)
(* is a choice that a link within the old organization overtook: it stays   *)
(* remembered until the page changes its organization or picks again.       *)
RouteIsRemembered ==
    \A t \in live \ dropped :
        route[t] # Flat => Get(t, "org") = IF going[t] = Null THEN route[t] ELSE going[t]

(* Where the URL names no organization, the shell never stays on one that   *)
(* is missing from the list it shows.                                       *)
FlatScopeListed ==
    \A t \in live : route[t] = Flat /\ orgs[t] \notin {Unloaded, {}}
                        => internal[t] \in orgs[t]

(* The organization a page works in is held through navigation, refetched  *)
(* lists, reloads and what other tabs select.                              *)
ScopeHeld == RouteIsRemembered /\ FlatScopeListed

(* The next user does not inherit the organization of the last one, if no   *)
(* page of the last one was left open at the sign-out.                      *)
NextUserClean ==
    ~stray /\ session # Nobody /\ cookie["org"] \in Orgs => author = session

=============================================================================
