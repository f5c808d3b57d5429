--------------------------- MODULE AppShellProofs ---------------------------
(***************************************************************************)
(* The shell's stores and scopes agree for any number of tabs, users and   *)
(* organizations.  The invariant follows the theme from the tab that sets  *)
(* it to the jar and to the other pages (ThemeInv), and the remembered     *)
(* organization from the user who chose it to the next one (UserInv).      *)
(***************************************************************************)
EXTENDS AppShell, TLAPS, WellFoundedInduction

(* The variables are functions with the values that TypeOK gives them. *)
Anything == (UNION {Value[i] : i \in Items}) \cup {Null, Bad, Absent}
StoreTyped ==
    /\ StorageTypeOK
    /\ cookie \in [Items -> Anything]
    /\ cache \in [Tabs -> [Items -> Anything]]
    /\ shown \in [Tabs -> [Items -> Anything]]
ShellTyped ==
    /\ session \in Users \cup {Nobody} /\ author \in Users \cup {Nobody}
    /\ member \in [Users -> SUBSET Orgs]
    /\ page \in [Tabs -> {"away", "loading", "live", "create"}]
    /\ user \in [Tabs -> Users \cup {Nobody}]
    /\ route \in [Tabs -> Orgs \cup {Flat}]
    /\ going \in [Tabs -> Orgs \cup {Null}]
    /\ internal \in [Tabs -> Orgs \cup {Null}]
    /\ ssr \in [Tabs -> Orgs \cup {Null}]
    /\ orgs \in [Tabs -> (SUBSET Orgs) \cup {Unloaded}]
    /\ raced \in BOOLEAN /\ stray \in BOOLEAN /\ dropped \in SUBSET Tabs

(* The pages that run; only one that shows the shell is on its way to where *)
(* its picker sent it.                                                      *)
LivePages ==
    /\ live = {t \in Tabs : page[t] \in {"live", "create"}}
    /\ \A t \in Tabs : page[t] # "live" => going[t] = Null

(* A page that does not run has no cache and hears nothing; nobody hears    *)
(* himself, and only the theme is broadcast.                                *)
ChannelInv ==
    /\ \A t \in Tabs \ live : \A i \in Items : cache[t][i] = Absent
    /\ \A s, t \in Tabs : t \notin live \/ s = t => mail[s][t] = <<>>
    /\ \A s, t \in Tabs : \A n \in DOMAIN mail[s][t] : mail[s][t][n].item = "theme"

(* What is spreading: the writes of the theme that a tab has under way. *)
ThemeWrites(t) == {n \in DOMAIN writes[t] : writes[t][n].item = "theme"}
Busy(t) == ThemeWrites(t) # {} \/ \E u \in Tabs : mail[t][u] # <<>>

(* The theme v is the newest one: the last write and the last message of    *)
(* its tab carry it, and whoever expects neither has it.                    *)
Newest(v) ==
    /\ \A t \in Tabs : \A n \in ThemeWrites(t) :
          (\A m \in ThemeWrites(t) : m <= n) => writes[t][n].value = v
    /\ (\A t \in Tabs : ThemeWrites(t) = {}) => Parse("theme", cookie["theme"]) = v
    /\ \A s, u \in Tabs : mail[s][u] # <<>> => mail[s][u][Len(mail[s][u])].value = v
    /\ \A u \in live : (\A s \in Tabs : mail[s][u] = <<>>) /\ cache[u]["theme"] # Absent
                           => cache[u]["theme"] = v

(* Without a race one tab at most spreads a theme. *)
ThemeInv ==
    ~raced => /\ \A s, t \in Tabs : Busy(s) /\ Busy(t) => s = t
              /\ \E v \in Value["theme"] \cup {Null} : Newest(v)

(* The organization of a page's URL, or the one it is on its way to, is in  *)
(* its cache, whatever the jar holds, unless a link overtook the choice.    *)
Held(t) == IF going[t] = Null THEN route[t] ELSE going[t]
ScopeInv ==
    \A t \in live :
        /\ going[t] # Null => t \notin dropped
        /\ route[t] # Flat /\ t \notin dropped => cache[t]["org"] = Held(t)
        /\ route[t] = Flat /\ orgs[t] \notin {Unloaded, {}} => internal[t] \in orgs[t]

(* While no page survives a sign-out, the pages and the remembered          *)
(* organization, on its way or in the jar, belong to the user of the        *)
(* session.                                                                 *)
OrgWrites(t) == {n \in DOMAIN writes[t] : writes[t][n].item = "org"}
UserInv ==
    ~stray =>
        /\ session = Nobody => /\ \A t \in Tabs : page[t] = "away" /\ writes[t] = <<>>
                               /\ cookie["org"] \notin Orgs
        /\ session # Nobody =>
              /\ \A t \in Tabs : page[t] # "away" => user[t] = session
              /\ cookie["org"] \in Orgs \/ (\E t \in Tabs : OrgWrites(t) # {}) => author = session

StoreInv == StoreTyped /\ ChannelInv /\ SubscribersCurrent /\ ThemeInv
PageInv == ShellTyped /\ LivePages /\ ScopeInv /\ UserInv
ShellInv == StoreInv /\ PageInv

-----------------------------------------------------------------------------
(* Values and changes. *)

(* The special values and the names are what they seem. *)
LEMMA Names ==
  /\ "theme" \in Items /\ "org" \in Items /\ "theme" \in Broadcast /\ "org" \notin Broadcast
  /\ Value["org"] = Orgs /\ Null \notin Orgs /\ Absent \notin Orgs /\ Flat \notin Orgs
  /\ Absent # Null /\ Nobody \notin Users
  /\ \A i \in Items : Null \notin Value[i] /\ Absent \notin Value[i] /\ Bad \notin Value[i]
  /\ \A i \in Items : Value[i] \cup {Null, Bad, Absent} \subseteq Anything
  <1>1. \A i \in Items : Null \notin Value[i] /\ Absent \notin Value[i] /\ Bad \notin Value[i]
    <2>1. \A i \in Items : Value[i] \cap {Null, Bad, Absent} = {}
      BY StorageAssumption
    <2> QED BY <2>1
  <1>2. ASSUME NEW i \in Items PROVE Value[i] \cup {Null, Bad, Absent} \subseteq Anything
    <2>1. Value[i] \in {Value[j] : j \in Items}
      OBVIOUS
    <2>2. \A v \in Value[i] : v \in UNION {Value[j] : j \in Items}
      BY <2>1, Zenon
    <2> QED BY <2>2 DEF Anything
  <1> QED BY <1>1, <1>2, StorageAssumption, ItemsAssumption, PeopleAssumption

(* What may be written and posted. *)
LEMMA ChangeForms ==
  /\ \A i \in Items : \A v \in Value[i] \cup {Null} : [item |-> i, value |-> v] \in Changes
  /\ \A c \in Changes : c.item \in Items /\ c.value \in Value[c.item] \cup {Null}
  <1>1. ASSUME NEW i \in Items, NEW v \in Value[i] \cup {Null}
        PROVE  [item |-> i, value |-> v] \in Changes
    <2>1. [item |-> i, value |-> v] \in Change(i)
      BY DEF Change
    <2> QED BY <2>1 DEF Changes
  <1>2. ASSUME NEW c \in Changes PROVE c.item \in Items /\ c.value \in Value[c.item] \cup {Null}
    <2>1. PICK i \in Items : c \in Change(i)
      BY DEF Changes
    <2> QED BY <2>1 DEF Change
  <1> QED BY <1>1, <1>2

(* What is read parses or is null. *)
LEMMA ParseForms ==
  ASSUME NEW i \in Items, NEW raw
  PROVE  /\ Parse(i, raw) \in Value[i] \cup {Null}
         /\ raw \in Value[i] \cup {Null} => Parse(i, raw) = raw
  BY Names DEF Parse

(* A sequence is empty if its length is zero. *)
LEMMA EmptyOrNot ==
  ASSUME NEW S, NEW q \in Seq(S)
  PROVE  (q # <<>> => Len(q) > 0) /\ (q = <<>> => Len(q) = 0)
  OBVIOUS

(* A non-empty set of numbers has a least one. *)
LEMMA LeastNumber ==
  ASSUME NEW T \in SUBSET Nat, T # {}
  PROVE  \E n \in T : \A k \in T : n <= k
  <1> DEFINE R == OpToRel(<, Nat)
  <1>1. IsWellFoundedOn(R, Nat)
    BY NatLessThanWellFounded
  <1>2. R = {ss \in Nat \X Nat : ss[1] < ss[2]}
    BY Zenon DEF OpToRel
  <1> HIDE DEF R
  <1>3. PICK n \in T : \A k \in T : ~(<<k, n>> \in R)
    BY <1>1, WFMin
  <1>4. ASSUME NEW k \in T PROVE n <= k
    <2>1. ~(k < n)
      <3>1. <<k, n>> \in Nat \X Nat
        OBVIOUS
      <3> QED BY <1>2, <1>3, <3>1
    <2> QED BY <2>1
  <1> QED BY <1>4

(* The fallback of a page without a scope is in its list. *)
LEMMA FirstIsListed ==
  ASSUME NEW list \in SUBSET Orgs, list # {}
  PROVE  FirstOf(list) \in list
  <1> DEFINE T == {n \in DOMAIN OrgOrder : OrgOrder[n] \in list}
  <1>1. DOMAIN OrgOrder = 1..Len(OrgOrder) /\ Len(OrgOrder) \in Nat
    BY PeopleAssumption
  <1>2. T \in SUBSET Nat /\ T # {}
    BY <1>1 DEF Orgs
  <1>3. PICK n \in T : \A k \in T : n <= k
    BY <1>2, LeastNumber
  <1>4. \A k \in 1..(n - 1) : OrgOrder[k] \notin list
    <2> SUFFICES ASSUME NEW k \in 1..(n - 1), OrgOrder[k] \in list PROVE FALSE
      OBVIOUS
    <2>1. n \in 1..Len(OrgOrder)
      BY <1>1
    <2>2. k \in DOMAIN OrgOrder /\ k < n
      BY <1>1, <2>1
    <2> QED BY <1>3, <2>1, <2>2
  <1>5. \E m \in DOMAIN OrgOrder : OrgOrder[m] \in list /\ \A k \in 1..(m - 1) : OrgOrder[k] \notin list
    BY <1>4
  <1> QED BY <1>5 DEF FirstOf

-----------------------------------------------------------------------------
(* The storage. *)

(* The theme is not touched: its writes, the jar's value, the messages and  *)
(* the caches stay, but for pages that go away.                             *)
ThemeRests ==
    /\ raced' = raced /\ cookie'["theme"] = cookie["theme"]
    /\ \A s \in Tabs : /\ ThemeWrites(s)' = ThemeWrites(s)
                       /\ \A n \in ThemeWrites(s) : writes'[s][n] = writes[s][n]
    /\ \A s, u \in Tabs : mail'[s][u] = mail[s][u] \/ (u \notin live' /\ mail'[s][u] = <<>>)
    /\ \A u \in live' : \/ cache'[u]["theme"] = Absent
                        \/ u \in live /\ cache'[u]["theme"] = cache[u]["theme"]

(* Then the newest theme stays the newest. *)
LEMMA ThemeKept ==
  ASSUME StoreInv, ThemeRests, live' \subseteq Tabs
  PROVE  ThemeInv'
  <1> SUFFICES ASSUME ~raced
               PROVE  /\ \A s, t \in Tabs : Busy(s)' /\ Busy(t)' => s = t
                      /\ \E v \in Value["theme"] \cup {Null} : Newest(v)'
    BY DEF ThemeInv, ThemeRests
  <1>1. \A s \in Tabs : Busy(s)' => Busy(s)
    BY DEF Busy, ThemeRests
  <1>2. PICK v \in Value["theme"] \cup {Null} : Newest(v)
    BY DEF StoreInv, ThemeInv
  <1>3. \A t \in Tabs : \A n \in ThemeWrites(t)' :
          (\A m \in ThemeWrites(t)' : m <= n) => writes'[t][n].value = v
    BY <1>2 DEF ThemeRests, Newest
  <1>4. (\A t \in Tabs : ThemeWrites(t)' = {}) => Parse("theme", cookie'["theme"]) = v
    BY <1>2 DEF ThemeRests, Newest
  <1>5. \A s, u \in Tabs : mail'[s][u] # <<>> => mail'[s][u][Len(mail'[s][u])].value = v
    BY <1>2 DEF ThemeRests, Newest
  <1>6. \A u \in live' : (\A s \in Tabs : mail'[s][u] = <<>>) /\ cache'[u]["theme"] # Absent
                              => cache'[u]["theme"] = v
    BY <1>2 DEF ThemeRests, Newest
  <1>7. Newest(v)'
    BY <1>3, <1>4, <1>5, <1>6 DEF Newest, Parse
  <1> QED BY <1>1, <1>2, <1>7 DEF StoreInv, ThemeInv

(* An organization is written by a tab, on top of what it has under way. *)
Remembers(t, o) == writes' = [writes EXCEPT ![t] = Append(@, [item |-> "org", value |-> o])]

(* It disturbs no write of the theme. *)
LEMMA OrgWritten ==
  ASSUME StoreInv, NEW t \in Tabs, NEW o \in Orgs, Remembers(t, o)
  PROVE  /\ writes' \in [Tabs -> Seq(Changes)]
         /\ \A s \in Tabs : /\ ThemeWrites(s)' = ThemeWrites(s)
                            /\ \A n \in ThemeWrites(s) : writes'[s][n] = writes[s][n]
  <1> DEFINE c == [item |-> "org", value |-> o]
  <1>1. c \in Changes /\ c.item = "org"
    BY Names, ChangeForms
  <1>2. writes' = [writes EXCEPT ![t] = Append(writes[t], c)]
    BY DEF Remembers
  <1> HIDE DEF c
  <1>3. writes \in [Tabs -> Seq(Changes)]
    BY DEF StoreInv, StoreTyped, StorageTypeOK
  <1>4. writes[t] \in Seq(Changes) /\ writes'[t] = Append(writes[t], c)
    BY <1>2, <1>3
  <1>5. /\ DOMAIN writes[t] = 1..Len(writes[t]) /\ Len(writes[t]) \in Nat
        /\ DOMAIN writes'[t] = 1..(Len(writes[t]) + 1)
        /\ writes'[t][Len(writes[t]) + 1] = c
        /\ \A n \in DOMAIN writes[t] : writes'[t][n] = writes[t][n]
    BY <1>1, <1>4
  <1>6. DOMAIN writes'[t] = DOMAIN writes[t] \cup {Len(writes[t]) + 1}
    BY <1>5
  <1>7. ThemeWrites(t)' = ThemeWrites(t)
    BY <1>1, <1>5, <1>6 DEF ThemeWrites
  <1>8. \A s \in Tabs \ {t} : writes'[s] = writes[s]
    BY <1>2, <1>3
  <1>9. writes' \in [Tabs -> Seq(Changes)]
    BY <1>1, <1>2, <1>3, <1>4
  <1> QED BY <1>5, <1>7, <1>8, <1>9 DEF ThemeWrites

(* What a page renders: values that parse, and what its cache has. *)
Renders(t, p) ==
    /\ p \in [Items -> Anything]
    /\ \A i \in Items : p[i] \in Value[i] \cup {Null} /\ (cache[t][i] # Absent => p[i] = cache[t][i])

(* The hooks' snapshots and what is on the screen are such. *)
LEMMA Rendered ==
  ASSUME StoreInv, NEW t \in Tabs
  PROVE  Renders(t, Snapshot(cache[t])) /\ (t \in live => Renders(t, shown[t]))
  <1>1. \A i \in Items : Snapshot(cache[t])[i] = IF cache[t][i] = Absent THEN Parse(i, cookie[i])
                                                  ELSE cache[t][i]
    BY DEF Snapshot
  <1>2. ASSUME NEW i \in Items PROVE Snapshot(cache[t])[i] \in Value[i] \cup {Null}
    <2>1. cache[t][i] \in Value[i] \cup {Null, Absent}
      BY DEF StoreInv, StoreTyped, StorageTypeOK
    <2>2. Parse(i, cookie[i]) \in Value[i] \cup {Null}
      BY ParseForms
    <2> QED BY <1>1, <2>1, <2>2
  <1>3. \A i \in Items : Snapshot(cache[t])[i] \in Anything
    BY <1>2, Names
  <1>4. Snapshot(cache[t]) \in [Items -> Anything]
    BY <1>3 DEF Snapshot
  <1>5. Renders(t, Snapshot(cache[t]))
    BY <1>1, <1>2, <1>4 DEF Renders
  <1>6. t \in live => Renders(t, shown[t])
    BY DEF Renders, StoreInv, StoreTyped, StorageTypeOK, SubscribersCurrent
  <1> QED BY <1>5, <1>6

(* A page, which may just have come alive, renders. *)
LEMMA ShowStep ==
  ASSUME StoreInv, NEW t \in Tabs, NEW p, Renders(t, p), shown' = [shown EXCEPT ![t] = p],
         live' = live \cup {t}, UNCHANGED <<cookie, writes, cache, mail, raced>>
  PROVE  StoreInv'
  <1>1. StoreTyped'
    BY DEF StoreInv, StoreTyped, StorageTypeOK, Renders
  <1>2. ChannelInv'
    BY DEF StoreInv, ChannelInv
  <1>3. SubscribersCurrent'
    BY DEF StoreInv, StoreTyped, StorageTypeOK, SubscribersCurrent, Renders
  <1>4. ThemeRests
    BY Names DEF ThemeRests, ThemeWrites, StoreInv, ChannelInv, StoreTyped, StorageTypeOK
  <1>5. live' \subseteq Tabs
    BY DEF StoreInv, StoreTyped, StorageTypeOK
  <1> QED BY <1>1, <1>2, <1>3, <1>4, <1>5, ThemeKept DEF StoreInv

(* A page remembers an organization. *)
LEMMA OrgSet ==
  ASSUME StoreInv, NEW t \in Tabs, NEW p, Renders(t, p), NEW o \in Orgs, Set(t, "org", o, p),
         live' = live \cup {t}, raced' = raced
  PROVE  /\ StoreInv' /\ UNCHANGED cookie /\ Remembers(t, o)
         /\ cache'[t]["org"] = o /\ \A u \in Tabs \ {t} : cache'[u] = cache[u]
  <1>1. /\ UNCHANGED cookie /\ Remembers(t, o)
        /\ cache' = [cache EXCEPT ![t]["org"] = o]
        /\ shown' = [shown EXCEPT ![t] = [p EXCEPT !["org"] = o]]
    BY DEF Set, Notify, Remembers
  <1>2. mail' = mail
    <2>1. mail \in [Tabs -> [Tabs -> Seq(Changes)]]
      BY DEF StoreInv, StoreTyped, StorageTypeOK
    <2>2. mail' = [mail EXCEPT ![t] = [u \in Tabs |-> mail[t][u]]]
      BY Names DEF Set, Notify
    <2> QED BY <2>1, <2>2
  <1>3. "org" \in Items /\ "theme" \in Items /\ o \in Anything /\ o # Absent /\ o \in Value["org"]
    BY Names
  <1>4. /\ cache'[t]["org"] = o /\ \A u \in Tabs \ {t} : cache'[u] = cache[u]
        /\ \A i \in Items \ {"org"} : cache'[t][i] = cache[t][i]
        /\ shown'[t]["org"] = o /\ \A u \in Tabs \ {t} : shown'[u] = shown[u]
        /\ \A i \in Items \ {"org"} : shown'[t][i] = p[i]
        /\ cache' \in [Tabs -> [Items -> Anything]] /\ shown' \in [Tabs -> [Items -> Anything]]
    BY <1>1, <1>3 DEF StoreInv, StoreTyped, Renders
  <1>5. live' \subseteq Tabs
    BY DEF StoreInv, StoreTyped, StorageTypeOK
  <1>6. StoreTyped'
    BY <1>1, <1>2, <1>3, <1>4, <1>5, OrgWritten DEF StoreInv, StoreTyped, StorageTypeOK, Renders
  <1>7. ChannelInv'
    BY <1>2, <1>4 DEF StoreInv, ChannelInv
  <1>8. SubscribersCurrent'
    <2>1. ASSUME NEW i \in Items, cache'[t][i] # Absent PROVE shown'[t][i] = cache'[t][i]
      BY <1>4, <2>1 DEF Renders
    <2>2. ASSUME NEW u \in live, u # t, NEW i \in Items, cache'[u][i] # Absent
          PROVE  shown'[u][i] = cache'[u][i]
      <3>1. u \in Tabs
        BY DEF StoreInv, StoreTyped, StorageTypeOK
      <3>2. cache[u][i] # Absent => shown[u][i] = cache[u][i]
        BY DEF StoreInv, SubscribersCurrent
      <3> QED BY <1>4, <2>2, <3>1, <3>2
    <2> QED BY <2>1, <2>2 DEF SubscribersCurrent
  <1>9. ThemeRests
    <2>1. \A u \in live' : cache'[u]["theme"] = cache[u]["theme"]
                              /\ (u \notin live => cache[u]["theme"] = Absent)
      BY <1>3, <1>4, <1>5 DEF StoreInv, ChannelInv
    <2> QED BY <1>1, <1>2, <2>1, OrgWritten DEF ThemeRests
  <1> QED BY <1>1, <1>4, <1>5, <1>6, <1>7, <1>8, <1>9, ThemeKept DEF StoreInv

(* Nothing happens to the store. *)
LEMMA StoreFrame ==
  ASSUME StoreInv, UNCHANGED <<storageVars, raced>>
  PROVE  StoreInv'
  <1>1. StoreTyped' /\ ChannelInv' /\ SubscribersCurrent'
    BY DEF StoreInv, StoreTyped, StorageTypeOK, ChannelInv, SubscribersCurrent, storageVars
  <1>2. ThemeRests
    BY DEF ThemeRests, ThemeWrites, storageVars
  <1>3. live' \subseteq Tabs
    BY DEF StoreInv, StoreTyped, StorageTypeOK, storageVars
  <1> QED BY <1>1, <1>2, <1>3, ThemeKept DEF StoreInv

(* A page goes away, perhaps after remembering an organization, and perhaps *)
(* with an answer that forgets it.                                          *)
LEMMA UnloadStep ==
  ASSUME StoreInv, NEW t \in Tabs, Unload(t), raced' = raced,
         writes' = writes \/ \E o \in Orgs : Remembers(t, o),
         cookie' = cookie \/ cookie' = [cookie EXCEPT !["org"] = Null]
  PROVE  StoreInv' /\ \A u \in Tabs \ {t} : cache'[u] = cache[u]
  <1>1. /\ live' = live \ {t} /\ live' \subseteq Tabs
        /\ \A u \in Tabs \ {t} : cache'[u] = cache[u] /\ shown'[u] = shown[u]
        /\ \A i \in Items : cache'[t][i] = Absent /\ shown'[t][i] = Null
        /\ cache' \in [Tabs -> [Items -> Anything]] /\ shown' \in [Tabs -> [Items -> Anything]]
    <2>1. [i \in Items |-> Absent] \in [Items -> Anything] /\ [i \in Items |-> Null] \in [Items -> Anything]
      BY Names
    <2> QED BY <2>1 DEF Unload, StoreInv, StoreTyped, StorageTypeOK
  <1>2. /\ mail' \in [Tabs -> [Tabs -> Seq(Changes)]]
        /\ \A s \in Tabs : mail'[s][t] = <<>> /\ \A u \in Tabs \ {t} : mail'[s][u] = mail[s][u]
    <2>1. mail \in [Tabs -> [Tabs -> Seq(Changes)]]
      BY DEF StoreInv, StoreTyped, StorageTypeOK
    <2>2. mail' = [s \in Tabs |-> [mail[s] EXCEPT ![t] = <<>>]]
      BY DEF Unload
    <2>3. <<>> \in Seq(Changes)
      OBVIOUS
    <2> QED BY <2>1, <2>2, <2>3
  <1>3. /\ cookie' \in [Items -> Anything] /\ cookie'["theme"] = cookie["theme"]
        /\ \A i \in Items : cookie'[i] \in Value[i] \cup {Null, Bad}
    <2>1. cookie \in [Items -> Anything] /\ \A i \in Items : cookie[i] \in Value[i] \cup {Null, Bad}
      BY DEF StoreInv, StoreTyped, StorageTypeOK
    <2> QED BY <2>1, Names
  <1>4. /\ writes' \in [Tabs -> Seq(Changes)]
        /\ \A s \in Tabs : /\ ThemeWrites(s)' = ThemeWrites(s)
                           /\ \A n \in ThemeWrites(s) : writes'[s][n] = writes[s][n]
    <2>1. CASE writes' = writes
      BY <2>1 DEF StoreInv, StoreTyped, StorageTypeOK, ThemeWrites
    <2>2. CASE \E o \in Orgs : Remembers(t, o)
      BY <2>2, OrgWritten
    <2> QED BY <2>1, <2>2
  <1>5. StoreTyped'
    BY <1>1, <1>2, <1>3, <1>4 DEF StoreInv, StoreTyped, StorageTypeOK
  <1>6. ChannelInv'
    <2>1. \A u \in Tabs \ live' : \A i \in Items : cache'[u][i] = Absent
      BY <1>1 DEF StoreInv, ChannelInv
    <2>2. ASSUME NEW s \in Tabs, NEW u \in Tabs
          PROVE  /\ u \notin live' \/ s = u => mail'[s][u] = <<>>
                 /\ \A n \in DOMAIN mail'[s][u] : mail'[s][u][n].item = "theme"
      <3>1. CASE u = t
        <4>1. mail'[s][u] = <<>> /\ DOMAIN <<>> = {}
          BY <1>2, <3>1
        <4> QED BY <4>1
      <3>2. CASE u # t
        <4>1. mail'[s][u] = mail[s][u] /\ (u \notin live' => u \notin live)
          BY <1>1, <1>2, <3>2
        <4>2. /\ u \notin live \/ s = u => mail[s][u] = <<>>
              /\ \A n \in DOMAIN mail[s][u] : mail[s][u][n].item = "theme"
          BY DEF StoreInv, ChannelInv
        <4> QED BY <4>1, <4>2
      <3> QED BY <3>1, <3>2
    <2> QED BY <2>1, <2>2 DEF ChannelInv
  <1>7. SubscribersCurrent'
    BY <1>1 DEF StoreInv, SubscribersCurrent
  <1>8. ThemeRests
    BY <1>1, <1>2, <1>3, <1>4 DEF ThemeRests
  <1> QED BY <1>1, <1>5, <1>6, <1>7, <1>8, ThemeKept DEF StoreInv

(* The jar takes a tab's oldest write, which is the theme's newest only     *)
(* when no other is under way.                                              *)
LEMMA CommitStep ==
  ASSUME StoreInv, NEW t \in Tabs, Commit(t), raced' = raced
  PROVE  /\ StoreInv'
         /\ cookie'["org"] \in Orgs => cookie["org"] \in Orgs \/ OrgWrites(t) # {}
         /\ \A s \in Tabs : OrgWrites(s)' # {} => OrgWrites(s) # {}
  <1> DEFINE c == Head(writes[t])
  <1>1. writes \in [Tabs -> Seq(Changes)] /\ writes[t] \in Seq(Changes) /\ writes[t] # <<>>
    BY DEF StoreInv, StoreTyped, StorageTypeOK, Commit
  <1>2. /\ c \in Changes /\ c = writes[t][1] /\ Tail(writes[t]) \in Seq(Changes)
        /\ Len(writes[t]) \in Nat \ {0} /\ DOMAIN writes[t] = 1..Len(writes[t])
        /\ DOMAIN Tail(writes[t]) = 1..(Len(writes[t]) - 1)
        /\ \A n \in 1..(Len(writes[t]) - 1) : Tail(writes[t])[n] = writes[t][n + 1]
    BY <1>1
  <1>3. /\ cookie' = [cookie EXCEPT ![c.item] = c.value]
        /\ writes' = [writes EXCEPT ![t] = Tail(writes[t])]
        /\ UNCHANGED <<live, cache, mail, shown>>
    BY DEF Commit
  <1>4. c.item \in Items /\ c.value \in Value[c.item] \cup {Null}
    BY <1>2, ChangeForms
  <1>5. 1 \in DOMAIN writes[t]
    BY <1>2
  <1> HIDE DEF c
  <1>6. /\ writes' \in [Tabs -> Seq(Changes)] /\ writes'[t] = Tail(writes[t])
        /\ \A s \in Tabs \ {t} : writes'[s] = writes[s]
    BY <1>1, <1>2, <1>3
  <1>7. /\ cookie' \in [Items -> Anything] /\ \A i \in Items \ {c.item} : cookie'[i] = cookie[i]
        /\ cookie'[c.item] = c.value
    <2>1. cookie \in [Items -> Anything] /\ c.value \in Anything
      BY <1>4, Names DEF StoreInv, StoreTyped
    <2> QED BY <1>3, <1>4, <2>1
  <1>8. \A i \in Items : cookie'[i] \in Value[i] \cup {Null, Bad}
    BY <1>4, <1>7 DEF StoreInv, StoreTyped, StorageTypeOK
  <1>9. /\ \A n \in DOMAIN writes'[t] : n + 1 \in DOMAIN writes[t] /\ writes'[t][n] = writes[t][n + 1]
        /\ \A n \in DOMAIN writes[t] : n # 1 => n - 1 \in DOMAIN writes'[t]
                                                 /\ writes'[t][n - 1] = writes[t][n]
        /\ DOMAIN writes[t] \subseteq Nat /\ DOMAIN writes'[t] \subseteq Nat
    BY <1>2, <1>6
  <1>10. /\ \A n \in ThemeWrites(t)' : n + 1 \in ThemeWrites(t)
         /\ \A n \in ThemeWrites(t) : n # 1 => n - 1 \in ThemeWrites(t)'
         /\ \A s \in Tabs \ {t} : ThemeWrites(s)' = ThemeWrites(s)
    BY <1>6, <1>9 DEF ThemeWrites
  <1>11. StoreTyped'
    BY <1>3, <1>6, <1>7, <1>8 DEF StoreInv, StoreTyped, StorageTypeOK
  <1>12. ChannelInv' /\ SubscribersCurrent'
    BY <1>3 DEF StoreInv, ChannelInv, SubscribersCurrent
  <1>13. ThemeInv'
    <2> SUFFICES ASSUME ~raced
                 PROVE  /\ \A s, u \in Tabs : Busy(s)' /\ Busy(u)' => s = u
                        /\ \E v \in Value["theme"] \cup {Null} : Newest(v)'
      BY DEF ThemeInv
    <2>1. \A s \in Tabs : Busy(s)' => Busy(s)
      BY <1>3, <1>10 DEF Busy
    <2>2. PICK v \in Value["theme"] \cup {Null} : Newest(v)
      BY DEF StoreInv, ThemeInv
    <2>3. ASSUME NEW s \in Tabs, NEW n \in ThemeWrites(s)', \A m \in ThemeWrites(s)' : m <= n
          PROVE  writes'[s][n].value = v
      <3>1. CASE s # t
        BY <1>6, <1>10, <2>2, <2>3, <3>1 DEF Newest
      <3>2. CASE s = t
        <4>1. n + 1 \in ThemeWrites(t) /\ writes'[t][n] = writes[t][n + 1] /\ n \in Nat
          BY <1>9, <1>10, <3>2 DEF ThemeWrites
        <4>2. ASSUME NEW m \in ThemeWrites(t) PROVE m <= n + 1
          <5>1. m = 1 \/ m - 1 <= n
            BY <1>10, <2>3, <3>2
          <5>2. m \in Nat
            BY <1>9 DEF ThemeWrites
          <5> QED BY <4>1, <5>1, <5>2
        <4> QED BY <2>2, <3>2, <4>1, <4>2 DEF Newest
      <3> QED BY <3>1, <3>2
    <2>4. ASSUME \A s \in Tabs : ThemeWrites(s)' = {} PROVE Parse("theme", cookie'["theme"]) = v
      <3>1. \A n \in ThemeWrites(t) : n = 1
        BY <1>10, <2>4
      <3>2. CASE c.item = "theme"
        <4>1. 1 \in ThemeWrites(t)
          BY <1>2, <1>5, <3>2 DEF ThemeWrites
        <4>2. c.value = v
          <5>1. \A m \in ThemeWrites(t) : m <= 1
            BY <3>1
          <5> QED BY <1>2, <2>2, <4>1, <5>1 DEF Newest
        <4> QED BY <1>7, <2>2, <3>2, <4>2, Names, ParseForms
      <3>3. CASE c.item # "theme"
        <4>1. ThemeWrites(t) = {}
          BY <1>2, <3>1, <3>3 DEF ThemeWrites
        <4>2. \A s \in Tabs : ThemeWrites(s) = {}
          BY <1>10, <2>4, <4>1
        <4> QED BY <1>7, <2>2, <3>3, <4>2, Names DEF Newest
      <3> QED BY <3>2, <3>3
    <2>5. Newest(v)'
      BY <1>3, <2>2, <2>3, <2>4 DEF Newest, Parse
    <2> QED BY <2>1, <2>2, <2>5 DEF StoreInv, ThemeInv
  <1>14. cookie'["org"] \in Orgs => cookie["org"] \in Orgs \/ OrgWrites(t) # {}
    BY <1>2, <1>5, <1>7, Names DEF OrgWrites
  <1>15. ASSUME NEW s \in Tabs, OrgWrites(s)' # {} PROVE OrgWrites(s) # {}
    <2>1. PICK n \in DOMAIN writes'[s] : writes'[s][n].item = "org"
      BY <1>15 DEF OrgWrites
    <2>2. CASE s = t
      <3>1. n + 1 \in DOMAIN writes[t] /\ writes[t][n + 1].item = "org"
        BY <1>9, <2>1, <2>2
      <3> QED BY <2>2, <3>1 DEF OrgWrites
    <2>3. CASE s # t
      BY <1>6, <2>1, <2>3 DEF OrgWrites
    <2> QED BY <2>2, <2>3
  <1> QED BY <1>11, <1>12, <1>13, <1>14, <1>15 DEF StoreInv

(* A message arrives; it is about the theme, and the last one of the        *)
(* channel has the newest.                                                  *)
LEMMA DeliverStep ==
  ASSUME StoreInv, NEW s \in Tabs, NEW t \in Tabs, Deliver(s, t), raced' = raced
  PROVE  /\ StoreInv' /\ t \in live
         /\ \A u \in Tabs : cache'[u]["org"] = cache[u]["org"] /\ (u # t => cache'[u] = cache[u])
  <1> DEFINE m == Head(mail[s][t])
  <1>1. /\ mail \in [Tabs -> [Tabs -> Seq(Changes)]] /\ mail[s][t] \in Seq(Changes)
        /\ mail[s][t] # <<>>
    BY DEF StoreInv, StoreTyped, StorageTypeOK, Deliver
  <1>2. /\ m \in Changes /\ m = mail[s][t][1] /\ Tail(mail[s][t]) \in Seq(Changes)
        /\ Len(mail[s][t]) \in Nat \ {0} /\ DOMAIN mail[s][t] = 1..Len(mail[s][t])
        /\ DOMAIN Tail(mail[s][t]) = 1..(Len(mail[s][t]) - 1)
        /\ Len(Tail(mail[s][t])) = Len(mail[s][t]) - 1
        /\ \A n \in 1..(Len(mail[s][t]) - 1) : Tail(mail[s][t])[n] = mail[s][t][n + 1]
    BY <1>1
  <1>2a. /\ Tail(mail[s][t]) # <<>> => Len(Tail(mail[s][t])) > 0
         /\ Tail(mail[s][t]) = <<>> => Len(Tail(mail[s][t])) = 0
    BY <1>2, EmptyOrNot
  <1>3. t \in live /\ s # t /\ m.item = "theme"
    <2>1. 1 \in DOMAIN mail[s][t]
      BY <1>2
    <2> QED BY <1>1, <1>2, <2>1 DEF StoreInv, ChannelInv
  <1>4. m.value \in Value["theme"] \cup {Null} /\ m.value \in Anything /\ m.value # Absent
    BY <1>2, <1>3, ChangeForms, Names
  <1>5. /\ cache' = [cache EXCEPT ![t]["theme"] = m.value]
        /\ shown' = [shown EXCEPT ![t]["theme"] = m.value]
        /\ mail' = [mail EXCEPT ![s][t] = Tail(mail[s][t])]
        /\ UNCHANGED <<live, cookie, writes>>
    BY <1>1, <1>3, Names DEF Deliver, StoreInv, StoreTyped
  <1> HIDE DEF m
  <1>6. /\ cache'[t]["theme"] = m.value /\ shown'[t]["theme"] = m.value
        /\ \A i \in Items \ {"theme"} : cache'[t][i] = cache[t][i] /\ shown'[t][i] = shown[t][i]
        /\ \A u \in Tabs \ {t} : cache'[u] = cache[u] /\ shown'[u] = shown[u]
        /\ cache' \in [Tabs -> [Items -> Anything]] /\ shown' \in [Tabs -> [Items -> Anything]]
    BY <1>4, <1>5, Names DEF StoreInv, StoreTyped
  <1>7. /\ mail' \in [Tabs -> [Tabs -> Seq(Changes)]] /\ mail'[s][t] = Tail(mail[s][t])
        /\ \A r, u \in Tabs : r # s \/ u # t => mail'[r][u] = mail[r][u]
    BY <1>1, <1>2, <1>5
  <1>8. StoreTyped'
    BY <1>4, <1>5, <1>6, <1>7 DEF StoreInv, StoreTyped, StorageTypeOK
  <1>9. ChannelInv'
    <2>1. \A u \in Tabs \ live' : \A i \in Items : cache'[u][i] = Absent
      BY <1>3, <1>5, <1>6 DEF StoreInv, ChannelInv
    <2>2. ASSUME NEW r \in Tabs, NEW u \in Tabs
          PROVE  /\ u \notin live' \/ r = u => mail'[r][u] = <<>>
                 /\ \A n \in DOMAIN mail'[r][u] : mail'[r][u][n].item = "theme"
      <3>0. /\ u \notin live \/ r = u => mail[r][u] = <<>>
            /\ \A n \in DOMAIN mail[r][u] : mail[r][u][n].item = "theme"
        BY DEF StoreInv, ChannelInv
      <3>1. CASE r = s /\ u = t
        <4>1. \A n \in 1..(Len(mail[s][t]) - 1) : n + 1 \in DOMAIN mail[s][t]
          BY <1>2
        <4> QED BY <1>2, <1>3, <1>5, <1>7, <3>0, <3>1, <4>1
      <3>2. CASE ~(r = s /\ u = t)
        BY <1>5, <1>7, <3>0, <3>2
      <3> QED BY <3>1, <3>2
    <2> QED BY <2>1, <2>2 DEF ChannelInv
  <1>10. SubscribersCurrent'
    <2> SUFFICES ASSUME NEW u \in live, NEW i \in Items, cache'[u][i] # Absent
                 PROVE  shown'[u][i] = cache'[u][i]
      BY <1>5 DEF SubscribersCurrent
    <2>1. u \in Tabs
      BY DEF StoreInv, StoreTyped, StorageTypeOK
    <2>2. cache[u][i] # Absent => shown[u][i] = cache[u][i]
      BY DEF StoreInv, SubscribersCurrent
    <2> QED BY <1>6, <2>1, <2>2
  <1>11. ThemeInv'
    <2> SUFFICES ASSUME ~raced
                 PROVE  /\ \A r, u \in Tabs : Busy(r)' /\ Busy(u)' => r = u
                        /\ \E v \in Value["theme"] \cup {Null} : Newest(v)'
      BY DEF ThemeInv
    <2>1. \A r \in Tabs : Busy(r)' => Busy(r)
      BY <1>1, <1>5, <1>7 DEF Busy, ThemeWrites
    <2>2. PICK v \in Value["theme"] \cup {Null} : Newest(v)
      BY DEF StoreInv, ThemeInv
    <2>3. mail[s][t][Len(mail[s][t])].value = v
      BY <1>1, <2>2 DEF Newest
    <2>4. ASSUME NEW r \in Tabs, NEW u \in Tabs, mail'[r][u] # <<>>
          PROVE  mail'[r][u][Len(mail'[r][u])].value = v
      <3>1. CASE r = s /\ u = t
        <4>0. Len(Tail(mail[s][t])) > 0
          BY <1>2a, <1>7, <2>4, <3>1
        <4>1. Len(Tail(mail[s][t])) \in 1..(Len(mail[s][t]) - 1)
          BY <1>2, <4>0
        <4>2. Tail(mail[s][t])[Len(Tail(mail[s][t]))] = mail[s][t][Len(mail[s][t])]
          BY <1>2, <4>1
        <4> QED BY <1>7, <2>3, <3>1, <4>2
      <3>2. CASE ~(r = s /\ u = t)
        <4>1. mail'[r][u] = mail[r][u]
          BY <1>7, <3>2
        <4>2. mail[r][u] # <<>> => mail[r][u][Len(mail[r][u])].value = v
          BY <2>2 DEF Newest
        <4> QED BY <2>4, <4>1, <4>2
      <3> QED BY <3>1, <3>2
    <2>5. ASSUME NEW u \in live, \A r \in Tabs : mail'[r][u] = <<>>, cache'[u]["theme"] # Absent
          PROVE  cache'[u]["theme"] = v
      <3>1. u \in Tabs
        BY DEF StoreInv, StoreTyped, StorageTypeOK
      <3>2. CASE u = t
        <4>0. Len(Tail(mail[s][t])) = 0
          BY <1>2a, <1>7, <2>5, <3>2
        <4>1. Len(mail[s][t]) = 1
          BY <1>2, <4>0
        <4> QED BY <1>2, <1>6, <2>3, <3>2, <4>1
      <3>3. CASE u # t
        <4>1. \A r \in Tabs : mail[r][u] = <<>>
          BY <1>7, <2>5, <3>1, <3>3
        <4> QED BY <1>6, <2>2, <2>5, <3>1, <3>3, <4>1 DEF Newest
      <3> QED BY <3>2, <3>3
    <2>6. Newest(v)'
      BY <1>5, <2>2, <2>4, <2>5 DEF Newest, Parse, ThemeWrites
    <2> QED BY <2>1, <2>2, <2>6 DEF StoreInv, ThemeInv
  <1> QED BY <1>3, <1>6, <1>8, <1>9, <1>10, <1>11, Names DEF StoreInv

(* A click sets the next theme: the newest one, unless another tab's is     *)
(* still spreading.                                                         *)
LEMMA ThemeSet ==
  ASSUME StoreInv, NEW t \in Tabs, t \in live, CycleTheme(t), raced \in BOOLEAN
  PROVE  /\ StoreInv'
         /\ \A u \in Tabs : cache'[u]["org"] = cache[u]["org"] /\ (u # t => cache'[u] = cache[u])
         /\ \A u \in Tabs : OrgWrites(u)' = OrgWrites(u)
  <1> DEFINE theme == IF shown[t]["theme"] = Null THEN "system" ELSE shown[t]["theme"]
             v == NextTheme[theme]
             c == [item |-> "theme", value |-> v]
  <1>1. /\ t \in live /\ UNCHANGED <<live, cookie>> /\ raced' \in BOOLEAN
        /\ writes' = [writes EXCEPT ![t] = Append(writes[t], c)]
        /\ cache' = [cache EXCEPT ![t]["theme"] = v]
        /\ shown' = [shown EXCEPT ![t] = [shown[t] EXCEPT !["theme"] = v]]
        /\ mail' = [mail EXCEPT ![t] = [u \in Tabs |->
                        IF u \in live \ {t} THEN Append(mail[t][u], c) ELSE mail[t][u]]]
    BY Names DEF CycleTheme, Set, Notify
  <1>2. ~raced' => /\ ~raced
                   /\ \A s \in Tabs \ {t} : /\ \A n \in DOMAIN writes[s] : writes[s][n].item # "theme"
                                            /\ \A u \in Tabs : mail[s][u] = <<>>
    BY DEF CycleTheme
  <1>3. v \in Value["theme"]
    <2>1. shown[t]["theme"] \in Value["theme"] \cup {Null}
      BY Names DEF StoreInv, StoreTyped, StorageTypeOK
    <2>2. theme \in {"light", "system", "dark"}
      BY <2>1, ItemsAssumption
    <2> QED BY <2>2, ItemsAssumption DEF NextTheme
  <1> HIDE DEF v
  <1>4. c \in Changes /\ c.item = "theme" /\ c.value = v
    BY <1>3, Names, ChangeForms
  <1> HIDE DEF c
  <1>5. v \in Anything /\ v # Absent
    BY <1>3, Names
  <1>6. /\ cache'[t]["theme"] = v /\ shown'[t]["theme"] = v
        /\ \A i \in Items \ {"theme"} : cache'[t][i] = cache[t][i] /\ shown'[t][i] = shown[t][i]
        /\ \A u \in Tabs \ {t} : cache'[u] = cache[u] /\ shown'[u] = shown[u]
        /\ cache' \in [Tabs -> [Items -> Anything]] /\ shown' \in [Tabs -> [Items -> Anything]]
    BY <1>1, <1>5, Names DEF StoreInv, StoreTyped
  <1>7. /\ writes \in [Tabs -> Seq(Changes)] /\ writes[t] \in Seq(Changes)
        /\ mail \in [Tabs -> [Tabs -> Seq(Changes)]]
    BY DEF StoreInv, StoreTyped, StorageTypeOK
  <1>8. /\ writes' \in [Tabs -> Seq(Changes)] /\ writes'[t] = Append(writes[t], c)
        /\ \A s \in Tabs \ {t} : writes'[s] = writes[s]
    BY <1>1, <1>4, <1>7
  <1>9. /\ Len(writes[t]) \in Nat /\ DOMAIN writes[t] = 1..Len(writes[t])
        /\ DOMAIN writes'[t] = 1..(Len(writes[t]) + 1) /\ writes'[t][Len(writes[t]) + 1] = c
        /\ \A n \in DOMAIN writes[t] : writes'[t][n] = writes[t][n]
    BY <1>4, <1>7, <1>8
  <1>10. /\ mail' \in [Tabs -> [Tabs -> Seq(Changes)]]
         /\ \A u \in live \ {t} : u \in Tabs => mail'[t][u] = Append(mail[t][u], c)
         /\ \A u \in Tabs : u \notin live \/ u = t => mail'[t][u] = mail[t][u]
         /\ \A s \in Tabs \ {t} : mail'[s] = mail[s]
    <2>1. ASSUME NEW u \in Tabs
          PROVE  (IF u \in live \ {t} THEN Append(mail[t][u], c) ELSE mail[t][u]) \in Seq(Changes)
      BY <1>4, <1>7
    <2> DEFINE row == [u \in Tabs |-> IF u \in live \ {t} THEN Append(mail[t][u], c) ELSE mail[t][u]]
    <2>2. row \in [Tabs -> Seq(Changes)]
      BY <2>1
    <2>3. \A u \in Tabs : row[u] = IF u \in live \ {t} THEN Append(mail[t][u], c) ELSE mail[t][u]
      OBVIOUS
    <2>4. mail' = [mail EXCEPT ![t] = row]
      BY <1>1
    <2> HIDE DEF row
    <2>5. mail'[t] = row /\ mail' \in [Tabs -> [Tabs -> Seq(Changes)]]
          /\ \A s \in Tabs \ {t} : mail'[s] = mail[s]
      BY <1>7, <2>2, <2>4
    <2> QED BY <2>3, <2>5
  <1>11. ASSUME NEW u \in live \ {t}
         PROVE  /\ u \in Tabs /\ mail[t][u] \in Seq(Changes) /\ Len(mail[t][u]) \in Nat
                /\ mail'[t][u] = Append(mail[t][u], c) /\ Len(mail'[t][u]) = Len(mail[t][u]) + 1
                /\ DOMAIN mail'[t][u] = 1..(Len(mail[t][u]) + 1)
                /\ DOMAIN mail[t][u] = 1..Len(mail[t][u])
                /\ mail'[t][u][Len(mail[t][u]) + 1] = c
                /\ \A n \in DOMAIN mail[t][u] : mail'[t][u][n] = mail[t][u][n]
    <2>1. u \in Tabs
      BY DEF StoreInv, StoreTyped, StorageTypeOK
    <2>2. mail[t][u] \in Seq(Changes)
      BY <1>7, <2>1
    <2>3. mail'[t][u] = Append(mail[t][u], c)
      BY <1>10, <2>1
    <2> QED BY <1>4, <2>1, <2>2, <2>3
  <1>12. StoreTyped'
    BY <1>1, <1>3, <1>6, <1>8, <1>10 DEF StoreInv, StoreTyped, StorageTypeOK
  <1>13. ChannelInv'
    <2>1. \A u \in Tabs \ live' : \A i \in Items : cache'[u][i] = Absent
      BY <1>1, <1>6 DEF StoreInv, ChannelInv
    <2>2. ASSUME NEW r \in Tabs, NEW u \in Tabs
          PROVE  /\ u \notin live' \/ r = u => mail'[r][u] = <<>>
                 /\ \A n \in DOMAIN mail'[r][u] : mail'[r][u][n].item = "theme"
      <3>0. /\ u \notin live \/ r = u => mail[r][u] = <<>>
            /\ \A n \in DOMAIN mail[r][u] : mail[r][u][n].item = "theme"
        BY DEF StoreInv, ChannelInv
      <3>1. CASE r = t /\ u \in live \ {t}
        <4>1. DOMAIN mail'[t][u] = DOMAIN mail[t][u] \cup {Len(mail[t][u]) + 1}
          BY <1>11, <3>1
        <4>2. \A n \in DOMAIN mail'[t][u] : mail'[t][u][n].item = "theme"
          BY <1>4, <1>11, <3>0, <3>1, <4>1
        <4> QED BY <1>1, <3>1, <4>2
      <3>2. CASE ~(r = t /\ u \in live \ {t})
        <4>1. mail'[r][u] = mail[r][u]
          BY <1>10, <3>2
        <4> QED BY <1>1, <3>0, <4>1
      <3> QED BY <3>1, <3>2
    <2> QED BY <2>1, <2>2 DEF ChannelInv
  <1>14. SubscribersCurrent'
    <2> SUFFICES ASSUME NEW u \in live, NEW i \in Items, cache'[u][i] # Absent
                 PROVE  shown'[u][i] = cache'[u][i]
      BY <1>1 DEF SubscribersCurrent
    <2>1. u \in Tabs
      BY DEF StoreInv, StoreTyped, StorageTypeOK
    <2>2. cache[u][i] # Absent => shown[u][i] = cache[u][i]
      BY DEF StoreInv, SubscribersCurrent
    <2> QED BY <1>6, <2>1, <2>2
  <1>15. ThemeInv'
    <2>0. PICK w \in Value["theme"] : w = v
      BY <1>3
    <2> SUFFICES ASSUME ~raced'
                 PROVE  /\ \A r, u \in Tabs : Busy(r)' /\ Busy(u)' => r = u
                        /\ Newest(w)'
      BY DEF ThemeInv
    <2>1. ASSUME NEW s \in Tabs \ {t}
          PROVE  ThemeWrites(s)' = {} /\ \A u \in Tabs : mail'[s][u] = <<>>
      <3>1. writes'[s] = writes[s] /\ mail'[s] = mail[s]
        BY <1>8, <1>10
      <3>2. (\A n \in DOMAIN writes[s] : writes[s][n].item # "theme") /\ \A u \in Tabs : mail[s][u] = <<>>
        BY <1>2
      <3> QED BY <3>1, <3>2 DEF ThemeWrites
    <2>2. Len(writes[t]) + 1 \in ThemeWrites(t)' /\ \A n \in ThemeWrites(t)' : n \in 1..(Len(writes[t]) + 1)
      BY <1>4, <1>9 DEF ThemeWrites
    <2>3. ASSUME NEW s \in Tabs, NEW n \in ThemeWrites(s)', \A m \in ThemeWrites(s)' : m <= n
          PROVE  writes'[s][n].value = v
      <3>1. s = t
        BY <2>1
      <3>2. Len(writes[t]) + 1 <= n /\ n \in 1..(Len(writes[t]) + 1)
        BY <2>2, <2>3, <3>1
      <3>3. n = Len(writes[t]) + 1
        BY <1>9, <3>2
      <3> QED BY <1>4, <1>9, <3>1, <3>3
    <2>4. \A u \in Tabs : u \notin live \/ u = t => mail'[t][u] = <<>>
      BY <1>10 DEF StoreInv, ChannelInv
    <2>5. ASSUME NEW s \in Tabs, NEW u \in Tabs, mail'[s][u] # <<>>
          PROVE  mail'[s][u][Len(mail'[s][u])].value = v
      <3>1. s = t /\ u \in live \ {t}
        BY <2>1, <2>4, <2>5
      <3> QED BY <1>4, <1>11, <3>1
    <2>6. ASSUME NEW u \in live, \A s \in Tabs : mail'[s][u] = <<>>
          PROVE  cache'[u]["theme"] = v
      <3>1. CASE u = t
        BY <1>6, <3>1
      <3>2. CASE u # t
        <4>1. mail'[t][u] = <<>> /\ Len(mail'[t][u]) = Len(mail[t][u]) + 1 /\ Len(mail[t][u]) \in Nat
          BY <1>11, <2>6, <3>2
        <4>2. Len(mail'[t][u]) = 0
          BY <4>1
        <4> QED BY <4>1, <4>2
      <3> QED BY <3>1, <3>2
    <2>7. ~ \A s \in Tabs : ThemeWrites(s)' = {}
      BY <2>2
    <2>8. Newest(w)'
      BY <1>1, <2>0, <2>3, <2>5, <2>6, <2>7 DEF Newest
    <2> QED BY <2>1, <2>8 DEF Busy
  <1>16. \A u \in Tabs : OrgWrites(u)' = OrgWrites(u)
    <2>1. DOMAIN writes'[t] = DOMAIN writes[t] \cup {Len(writes[t]) + 1}
      BY <1>9
    <2>2. OrgWrites(t)' = OrgWrites(t)
      BY <1>4, <1>9, <2>1 DEF OrgWrites
    <2> QED BY <1>8, <2>2 DEF OrgWrites
  <1> QED BY <1>1, <1>6, <1>12, <1>13, <1>14, <1>15, <1>16, Names DEF StoreInv

-----------------------------------------------------------------------------
(* The pages. *)

(* Only the page of t changes. *)
Alone(t) ==
    \A u \in Tabs \ {t} : /\ page'[u] = page[u] /\ user'[u] = user[u] /\ route'[u] = route[u]
                          /\ internal'[u] = internal[u] /\ orgs'[u] = orgs[u]
                          /\ going'[u] = going[u] /\ (u \in dropped' <=> u \in dropped)
                          /\ cache'[u] = cache[u]

(* The page of t, if it runs, holds its scope. *)
Scoped(t) ==
    /\ going[t] # Null => t \notin dropped
    /\ route[t] # Flat /\ t \notin dropped => cache[t]["org"] = Held(t)
    /\ route[t] = Flat /\ orgs[t] \notin {Unloaded, {}} => internal[t] \in orgs[t]

(* No organization is remembered that was not. *)
NothingRemembered ==
    /\ author' = author
    /\ cookie'["org"] \in Orgs => cookie["org"] \in Orgs \/ \E s \in Tabs : OrgWrites(s) # {}
    /\ \A s \in Tabs : OrgWrites(s)' # {} => OrgWrites(s) # {}

(* A step of one page under the session that stays: the page is its user's, *)
(* and what it remembers is remembered for that user.                       *)
LEMMA PageStep ==
  ASSUME PageInv, NEW t \in Tabs, ShellTyped', LivePages', Alone(t),
         UNCHANGED <<session, stray>>,
         page'[t] \in {"live", "create"} => Scoped(t)',
         session # Nobody /\ ~stray => /\ page'[t] # "away" => user'[t] = session
                                       /\ author' = session \/ NothingRemembered,
         session = Nobody /\ ~stray => page'[t] = "away" /\ UNCHANGED <<writes, cookie>>
  PROVE  PageInv'
  <1>1. ScopeInv'
    <2> SUFFICES ASSUME NEW u \in live' PROVE Scoped(u)'
      BY DEF ScopeInv, Scoped
    <2>1. u \in Tabs /\ page'[u] \in {"live", "create"}
      BY DEF LivePages
    <2>2. CASE u = t
      BY <2>1, <2>2
    <2>3. CASE u # t
      <3>1. u \in live
        BY <2>1, <2>3 DEF Alone, PageInv, LivePages
      <3> QED BY <2>1, <2>3, <3>1 DEF Alone, Scoped, Held, PageInv, ScopeInv
    <2> QED BY <2>2, <2>3
  <1>2. UserInv'
    <2> SUFFICES ASSUME ~stray
                 PROVE  /\ session = Nobody => /\ \A u \in Tabs : page'[u] = "away" /\ writes'[u] = <<>>
                                               /\ cookie'["org"] \notin Orgs
                        /\ session # Nobody =>
                              /\ \A u \in Tabs : page'[u] # "away" => user'[u] = session
                              /\ cookie'["org"] \in Orgs \/ (\E u \in Tabs : OrgWrites(u)' # {})
                                     => author' = session
      BY DEF UserInv
    <2>1. CASE session = Nobody
      BY <2>1 DEF PageInv, UserInv, Alone
    <2>2. CASE session # Nobody
      <3>1. ASSUME NEW u \in Tabs, page'[u] # "away" PROVE user'[u] = session
        <4>1. page[u] # "away" => user[u] = session
          BY <2>2 DEF PageInv, UserInv
        <4>2. CASE u = t
          BY <2>2, <3>1, <4>2
        <4>3. CASE u # t
          <5>1. page'[u] = page[u] /\ user'[u] = user[u]
            BY <4>3 DEF Alone
          <5> QED BY <3>1, <4>1, <5>1
        <4> QED BY <4>2, <4>3
      <3>2. cookie'["org"] \in Orgs \/ (\E u \in Tabs : OrgWrites(u)' # {}) => author' = session
        <4>1. cookie["org"] \in Orgs \/ (\E u \in Tabs : OrgWrites(u) # {}) => author = session
          BY <2>2 DEF PageInv, UserInv
        <4> QED BY <2>2, <4>1 DEF NothingRemembered
      <3> QED BY <2>2, <3>1, <3>2
    <2> QED BY <2>1, <2>2
  <1> QED BY <1>1, <1>2 DEF PageInv

(* While no page survives a sign-out, a page that is open is the user's of  *)
(* the session.                                                             *)
LEMMA OpenPage ==
  ASSUME PageInv, NEW t \in Tabs, page[t] # "away", ~stray
  PROVE  session # Nobody /\ user[t] = session
  BY DEF PageInv, UserInv

(* A running page is open. *)
LEMMA RunningPage ==
  ASSUME PageInv, NEW t \in live
  PROVE  t \in Tabs /\ page[t] \in {"live", "create"} /\ page[t] # "away"
  BY DEF PageInv, LivePages

(* A page that shows the shell runs. *)
LEMMA ShellRuns ==
  ASSUME PageInv, NEW t \in Tabs, page[t] = "live"
  PROVE  t \in live /\ page[t] # "away"
  BY DEF PageInv, LivePages

(* The effects keep the store and give the page its scope. *)
LEMMA EffectsStep ==
  ASSUME ShellInv, NEW t \in Tabs, NEW to \in Orgs \cup {Flat},
         NEW list \in (SUBSET Orgs) \cup {Unloaded}, NEW active \in Orgs \cup {Null},
         NEW p, Renders(t, p), Effects(t, to, list, active, p), live' = live \cup {t},
         raced' = raced
  PROVE  /\ StoreInv' /\ cookie' = cookie /\ internal' \in [Tabs -> Orgs \cup {Null}]
         /\ \A u \in Tabs \ {t} : internal'[u] = internal[u] /\ cache'[u] = cache[u]
         /\ to # Flat => cache'[t]["org"] = to
         /\ to = Flat /\ list \notin {Unloaded, {}} => internal'[t] \in list
         /\ (writes' = writes /\ author' = author) \/ author' = user'[t]
  <1>0. internal \in [Tabs -> Orgs \cup {Null}] /\ StoreInv
    BY DEF ShellInv, PageInv, ShellTyped
  <1>1. CASE to # Flat
    <2>1. to \in Orgs
      BY <1>1
    <2>2. Set(t, "org", to, p) /\ internal' = [internal EXCEPT ![t] = active] /\ author' = user'[t]
      BY <1>1 DEF Effects
    <2>3. /\ StoreInv' /\ cookie' = cookie /\ cache'[t]["org"] = to
          /\ \A u \in Tabs \ {t} : cache'[u] = cache[u]
      BY <1>0, <2>1, <2>2, OrgSet
    <2> QED BY <1>0, <1>1, <2>2, <2>3
  <1>2. CASE to = Flat /\ list \notin {Unloaded, {}} /\ active \notin list
    <2>1. list \in SUBSET Orgs /\ list # {}
      BY <1>2
    <2>2. PICK o \in list : o = FirstOf(list)
      BY <2>1, FirstIsListed
    <2>3. Set(t, "org", o, p) /\ internal' = [internal EXCEPT ![t] = o] /\ author' = user'[t]
      BY <1>2, <2>2 DEF Effects
    <2>4. /\ StoreInv' /\ cookie' = cookie
          /\ \A u \in Tabs \ {t} : cache'[u] = cache[u]
      BY <1>0, <2>1, <2>3, OrgSet
    <2> QED BY <1>0, <1>2, <2>1, <2>3, <2>4
  <1>3. CASE to = Flat /\ ~(list \notin {Unloaded, {}} /\ active \notin list)
    <2>1. /\ shown' = [shown EXCEPT ![t] = p] /\ internal' = [internal EXCEPT ![t] = active]
          /\ UNCHANGED <<cookie, writes, cache, mail, author>>
      BY <1>3 DEF Effects
    <2>2. StoreInv'
      BY <1>0, <2>1, ShowStep
    <2> QED BY <1>0, <1>3, <2>1, <2>2
  <1> QED BY <1>1, <1>2, <1>3

(* A redirect of "/" ends on a page of the shell or on create-org. *)
LEMMA Landed ==
  ASSUME NEW dest \in Dests, NEW list \in (SUBSET Orgs) \cup {Unloaded}, NEW remembered,
         dest = Root => list \in SUBSET Orgs, Landing(dest, list, remembered) # "create"
  PROVE  Landing(dest, list, remembered) \in Orgs \cup {Flat}
  BY DEF Landing, ResolveRoot, Dests

(* What a page is told about its organization is one or none. *)
LEMMA RememberedForms ==
  ASSUME ShellInv, NEW t \in Tabs
  PROVE  /\ ActiveOrgCookie \in Orgs \cup {Null} /\ Get(t, "org") \in Orgs \cup {Null}
         /\ session # Nobody => member[session] \in SUBSET Orgs
  <1>1. ActiveOrgCookie \in Orgs \cup {Null} /\ Parse("org", cookie["org"]) \in Orgs \cup {Null}
    BY Names, ParseForms DEF ActiveOrgCookie
  <1>2. cache[t]["org"] \in Orgs \cup {Null, Absent}
    BY Names DEF ShellInv, StoreInv, StoreTyped, StorageTypeOK
  <1>3. Get(t, "org") \in Orgs \cup {Null}
    BY <1>1, <1>2 DEF Get
  <1>4. session # Nobody => member[session] \in SUBSET Orgs
    BY DEF ShellInv, PageInv, ShellTyped
  <1> QED BY <1>1, <1>3, <1>4

(* A page leaves the app. *)
LEMMA AwayStep ==
  ASSUME ShellInv, NEW t \in Tabs, GoAway(t),
         UNCHANGED <<cookie, session, member, raced, stray, writes, author>>
  PROVE  ShellInv'
  <1>1. StoreInv' /\ \A u \in Tabs \ {t} : cache'[u] = cache[u]
    BY UnloadStep DEF GoAway, ShellInv
  <1>2. ShellTyped' /\ page'[t] = "away" /\ Alone(t)
    BY <1>1 DEF GoAway, ShellInv, PageInv, ShellTyped, Alone
  <1>3. LivePages'
    BY DEF GoAway, Unload, ShellInv, PageInv, ShellTyped, LivePages
  <1>4. NothingRemembered
    BY DEF NothingRemembered, OrgWrites
  <1>5. PageInv
    BY DEF ShellInv
  <1> QED BY <1>1, <1>2, <1>3, <1>4, <1>5, PageStep DEF ShellInv

-----------------------------------------------------------------------------
(* The steps. *)

(* A page is requested from the server. *)
LEMMA LoadStep ==
  ASSUME ShellInv, NEW t \in Tabs, NEW dest \in Dests, NEW ok \in BOOLEAN, Load(t, dest, ok)
  PROVE  ShellInv'
  <1> DEFINE list == PrefetchedOrgs(ok)
             to == Landing(dest, list, ActiveOrgCookie)
  <1>1. UNCHANGED <<cookie, writes, session, member, raced, stray, author>>
    BY DEF Load, ghosts
  <1>2. CASE GoAway(t)
    BY <1>1, <1>2, AwayStep
  <1>3. CASE ~GoAway(t)
    <2>1. /\ session # Nobody /\ (dest # Flat => ok) /\ to # "create" /\ Unload(t)
          /\ page' = [page EXCEPT ![t] = "loading"] /\ user' = [user EXCEPT ![t] = session]
          /\ route' = [route EXCEPT ![t] = to] /\ orgs' = [orgs EXCEPT ![t] = list]
          /\ ssr' = [ssr EXCEPT ![t] = ActiveOrgCookie] /\ internal' = [internal EXCEPT ![t] = Null]
          /\ going' = [going EXCEPT ![t] = Null] /\ dropped' = dropped \ {t}
      BY <1>3 DEF Load, KcSession
    <2>2. ActiveOrgCookie \in Orgs \cup {Null} /\ member[session] \in SUBSET Orgs
      BY <2>1, RememberedForms
    <2>3. list \in (SUBSET Orgs) \cup {Unloaded} /\ (dest = Root => list \in SUBSET Orgs)
      BY <2>1, <2>2 DEF PrefetchedOrgs, Root, Flat
    <2>4. to \in Orgs \cup {Flat}
      BY <2>1, <2>3, Landed
    <2> HIDE DEF list, to
    <2>5. StoreInv' /\ \A u \in Tabs \ {t} : cache'[u] = cache[u]
      BY <1>1, <2>1, UnloadStep DEF ShellInv
    <2>6. ShellTyped' /\ page'[t] = "loading" /\ user'[t] = session /\ Alone(t)
      BY <1>1, <2>1, <2>2, <2>3, <2>4, <2>5 DEF ShellInv, PageInv, ShellTyped, Alone
    <2>7. LivePages'
      BY <2>1 DEF Unload, ShellInv, PageInv, ShellTyped, LivePages
    <2>8. NothingRemembered
      BY <1>1 DEF NothingRemembered, OrgWrites
    <2>9. PageInv
      BY DEF ShellInv
    <2> QED BY <1>1, <2>1, <2>5, <2>6, <2>7, <2>8, <2>9, PageStep DEF ShellInv
  <1> QED BY <1>2, <1>3

(* A page arrives and runs its effects. *)
LEMMA HydrateStep ==
  ASSUME ShellInv, NEW t \in Tabs, Hydrate(t)
  PROVE  ShellInv'
  <1> DEFINE active == IF ssr[t] # Null THEN ssr[t] ELSE Get(t, "org")
             p == Snapshot(cache[t])
  <1>1. /\ page[t] = "loading" /\ live' = live \cup {t} /\ page' = [page EXCEPT ![t] = "live"]
        /\ ssr' = [ssr EXCEPT ![t] = Null]
        /\ UNCHANGED <<user, session, member, route, going, orgs, raced, stray, dropped>>
        /\ Effects(t, route[t], orgs[t], active, p)
    BY DEF Hydrate
  <1>2. active \in Orgs \cup {Null}
    BY RememberedForms DEF ShellInv, PageInv, ShellTyped
  <1>3. Renders(t, p)
    BY Rendered DEF ShellInv
  <1>4. route[t] \in Orgs \cup {Flat} /\ orgs[t] \in (SUBSET Orgs) \cup {Unloaded}
        /\ user[t] \in Users \cup {Nobody}
    BY DEF ShellInv, PageInv, ShellTyped
  <1> HIDE DEF active, p
  <1>5. /\ StoreInv' /\ cookie' = cookie /\ internal' \in [Tabs -> Orgs \cup {Null}]
        /\ \A u \in Tabs \ {t} : internal'[u] = internal[u] /\ cache'[u] = cache[u]
        /\ route[t] # Flat => cache'[t]["org"] = route[t]
        /\ route[t] = Flat /\ orgs[t] \notin {Unloaded, {}} => internal'[t] \in orgs[t]
        /\ (writes' = writes /\ author' = author) \/ author' = user'[t]
    BY <1>1, <1>2, <1>3, <1>4, EffectsStep
  <1>6. ShellTyped' /\ page'[t] = "live" /\ Alone(t)
    BY <1>1, <1>4, <1>5 DEF ShellInv, PageInv, ShellTyped, Alone
  <1>7. LivePages'
    BY <1>1 DEF ShellInv, PageInv, ShellTyped, LivePages
  <1>8. Scoped(t)'
    <2>1. going[t] = Null
      BY <1>1 DEF ShellInv, PageInv, LivePages
    <2> QED BY <1>1, <1>5, <2>1 DEF Scoped, Held
  <1>9. ~stray => session # Nobody /\ user[t] = session
    BY <1>1, OpenPage DEF ShellInv
  <1>10. ~stray => author' = session \/ NothingRemembered
    BY <1>1, <1>5, <1>9 DEF NothingRemembered, OrgWrites
  <1>11. PageInv
    BY DEF ShellInv
  <1> QED BY <1>1, <1>5, <1>6, <1>7, <1>8, <1>9, <1>10, <1>11, PageStep DEF ShellInv

(* A page of the app moves to another, as the user of the session. *)
LEMMA EnterStep ==
  ASSUME ShellInv, NEW t \in live, NEW to \in Orgs \cup {Flat},
         NEW list \in (SUBSET Orgs) \cup {Unloaded}, Enter(t, to, list), session # Nobody,
         UNCHANGED <<session, member, raced, stray>>
  PROVE  ShellInv'
  <1> DEFINE active == IF page[t] = "create" THEN Get(t, "org") ELSE internal[t]
             p == Snapshot(cache[t])
  <1>1. t \in Tabs /\ session \in Users /\ internal[t] \in Orgs \cup {Null} /\ PageInv
    BY RunningPage DEF ShellInv, PageInv, ShellTyped
  <1>2. active \in Orgs \cup {Null}
    BY <1>1, RememberedForms
  <1>3. Renders(t, p)
    BY <1>1, Rendered DEF ShellInv
  <1>4. /\ user' = [user EXCEPT ![t] = session] /\ route' = [route EXCEPT ![t] = to]
        /\ page' = [page EXCEPT ![t] = "live"] /\ going' = [going EXCEPT ![t] = Null]
        /\ orgs' = [orgs EXCEPT ![t] = list] /\ UNCHANGED <<ssr, live>>
        /\ live' = live \cup {t}
    BY DEF Enter
  <1>5. /\ user'[t] = session /\ route'[t] = to /\ orgs'[t] = list /\ going'[t] = Null
        /\ page'[t] = "live"
    BY <1>1, <1>4 DEF ShellInv, PageInv, ShellTyped
  <1>6. to = route[t] /\ to # Flat =>
           /\ shown' = [shown EXCEPT ![t] = p]
           /\ dropped' = IF going[t] \in {Null, to} THEN dropped ELSE dropped \cup {t}
           /\ UNCHANGED <<cookie, writes, cache, mail, internal, author>>
    BY DEF Enter
  <1>7. ~(to = route[t] /\ to # Flat) => dropped' = dropped \ {t} /\ Effects(t, to, list, active, p)
    BY DEF Enter
  <1> HIDE DEF active, p
  <1>8. dropped' \in SUBSET Tabs /\ \A u \in Tabs \ {t} : u \in dropped' <=> u \in dropped
    BY <1>1, <1>6, <1>7 DEF PageInv, ShellTyped
  <1>9. /\ StoreInv' /\ cookie' = cookie /\ internal' \in [Tabs -> Orgs \cup {Null}]
        /\ \A u \in Tabs \ {t} : internal'[u] = internal[u] /\ cache'[u] = cache[u]
        /\ to # Flat /\ t \notin dropped' => cache'[t]["org"] = to
        /\ to = Flat /\ list \notin {Unloaded, {}} => internal'[t] \in list
        /\ (writes' = writes /\ author' = author) \/ author' = user'[t]
    <2>1. CASE to = route[t] /\ to # Flat
      <3>1. StoreInv'
        BY <1>1, <1>3, <1>4, <1>6, <2>1, ShowStep DEF ShellInv
      <3>2. t \notin dropped' => cache[t]["org"] = to
        BY <1>1, <1>6, <2>1 DEF PageInv, ScopeInv, Held
      <3> QED BY <1>1, <1>6, <2>1, <3>1, <3>2 DEF PageInv, ShellTyped
    <2>2. CASE ~(to = route[t] /\ to # Flat)
      <3>1. Effects(t, to, list, active, p)
        BY <1>7, <2>2
      <3>2. t \in Tabs /\ live' = live \cup {t} /\ raced' = raced
        BY <1>1, <1>4
      <3>3. /\ StoreInv' /\ cookie' = cookie /\ internal' \in [Tabs -> Orgs \cup {Null}]
            /\ \A u \in Tabs \ {t} : internal'[u] = internal[u] /\ cache'[u] = cache[u]
            /\ to # Flat => cache'[t]["org"] = to
            /\ to = Flat /\ list \notin {Unloaded, {}} => internal'[t] \in list
            /\ (writes' = writes /\ author' = author) \/ author' = user'[t]
        BY <1>2, <1>3, <3>1, <3>2, EffectsStep
      <3> QED BY <3>3
    <2> QED BY <2>1, <2>2
  <1>10. ShellTyped' /\ Alone(t)
    BY <1>1, <1>4, <1>8, <1>9 DEF PageInv, ShellTyped, Alone
  <1>11. LivePages'
    BY <1>1, <1>4, <1>5 DEF PageInv, ShellTyped, LivePages
  <1>12. Scoped(t)'
    BY <1>5, <1>9 DEF Scoped, Held
  <1>13. author' = session \/ NothingRemembered
    BY <1>5, <1>9 DEF NothingRemembered, OrgWrites
  <1> QED BY <1>1, <1>5, <1>9, <1>10, <1>11, <1>12, <1>13, PageStep DEF ShellInv

(* The shell gives way to the onboarding page. *)
LEMMA OnboardStep ==
  ASSUME ShellInv, NEW t \in live, Onboard(t, {}), session # Nobody,
         UNCHANGED <<session, member, raced, stray>>
  PROVE  ShellInv'
  <1>1. t \in Tabs /\ session \in Users /\ PageInv
    BY RunningPage DEF ShellInv, PageInv, ShellTyped
  <1>2. /\ user' = [user EXCEPT ![t] = session] /\ page' = [page EXCEPT ![t] = "create"]
        /\ route' = [route EXCEPT ![t] = Flat] /\ orgs' = [orgs EXCEPT ![t] = {}]
        /\ going' = [going EXCEPT ![t] = Null] /\ internal' = [internal EXCEPT ![t] = Null]
        /\ dropped' = dropped \ {t} /\ UNCHANGED <<storageVars, ssr, author>>
    BY DEF Onboard
  <1>3. StoreInv'
    BY <1>2, StoreFrame DEF ShellInv
  <1>4. UNCHANGED <<live, cookie, writes, cache>>
    BY <1>2 DEF storageVars
  <1>5. ShellTyped'
    BY <1>1, <1>2 DEF PageInv, ShellTyped
  <1>6. Alone(t) /\ page'[t] = "create" /\ user'[t] = session /\ going'[t] = Null
        /\ route'[t] = Flat /\ orgs'[t] = {}
    BY <1>1, <1>2, <1>4 DEF PageInv, ShellTyped, Alone
  <1>7. LivePages'
    BY <1>1, <1>2, <1>4, <1>6, RunningPage DEF PageInv, ShellTyped, LivePages
  <1>8. Scoped(t)'
    BY <1>6 DEF Scoped
  <1>9. NothingRemembered
    BY <1>2, <1>4 DEF NothingRemembered, OrgWrites
  <1> QED BY <1>1, <1>3, <1>5, <1>6, <1>7, <1>8, <1>9, PageStep DEF ShellInv

(* A link is followed inside a page. *)
LEMMA NavigateStep ==
  ASSUME ShellInv, NEW t \in Tabs, NEW dest \in Dests, Navigate(t, dest)
  PROVE  ShellInv'
  <1> DEFINE list == IF dest = Flat THEN orgs[t] ELSE EnsuredOrgs(t)
             to == Landing(dest, list, Get(t, "org"))
  <1>1. t \in live /\ UNCHANGED <<session, member, raced, stray>>
    BY DEF Navigate
  <1>2. CASE ~KcSession /\ GoAway(t) /\ UNCHANGED <<cookie, writes, author>>
    BY <1>1, <1>2, AwayStep
  <1>3. session # Nobody => list \in (SUBSET Orgs) \cup {Unloaded} /\ (dest = Root => list \in SUBSET Orgs)
    <2>1. session # Nobody => member[session] \in SUBSET Orgs
      BY RememberedForms
    <2>2. orgs[t] \in (SUBSET Orgs) \cup {Unloaded}
      BY DEF ShellInv, PageInv, ShellTyped
    <2> QED BY <2>1, <2>2 DEF EnsuredOrgs, Root, Flat
  <1>4. CASE KcSession /\ to = "create" /\ Onboard(t, list)
    <2>1. list = {}
      BY <1>3, <1>4, PeopleAssumption DEF KcSession, Landing, ResolveRoot, Dests, Root, Flat
    <2>2. Onboard(t, {})
      BY <1>4, <2>1, Zenon
    <2> QED BY <1>1, <1>4, <2>2, OnboardStep DEF KcSession
  <1>5. CASE KcSession /\ to # "create" /\ Enter(t, to, list)
    <2>1. to \in Orgs \cup {Flat}
      BY <1>3, <1>5, Landed DEF KcSession
    <2> HIDE DEF list, to
    <2> QED BY <1>1, <1>3, <1>5, <2>1, EnterStep DEF KcSession
  <1> QED BY <1>2, <1>4, <1>5 DEF Navigate

(* The picker's choice is remembered. *)
LEMMA SelectStep ==
  ASSUME ShellInv, NEW t \in Tabs, NEW o \in Orgs, SelectOrganization(t, o)
  PROVE  ShellInv'
  <1> DEFINE p == Snapshot(cache[t])
  <1>1. /\ page[t] = "live" /\ Set(t, "org", o, p) /\ author' = user[t]
        /\ going' = [going EXCEPT ![t] = o] /\ dropped' = dropped \ {t}
        /\ UNCHANGED <<live, session, member, page, user, route, internal, orgs, ssr, raced, stray>>
    BY DEF SelectOrganization
  <1>2. Renders(t, p)
    BY Rendered DEF ShellInv
  <1>3. PageInv /\ t \in live /\ live' = live \cup {t}
    BY <1>1, ShellRuns DEF ShellInv
  <1> HIDE DEF p
  <1>4. /\ StoreInv' /\ cache'[t]["org"] = o
        /\ \A u \in Tabs \ {t} : cache'[u] = cache[u]
    BY <1>1, <1>2, <1>3, OrgSet DEF ShellInv
  <1>5. going'[t] = o /\ t \notin dropped' /\ ShellTyped'
    BY <1>1, <1>3 DEF PageInv, ShellTyped
  <1>6. Alone(t)
    BY <1>1, <1>3, <1>4 DEF PageInv, ShellTyped, Alone
  <1>7. LivePages'
    BY <1>1, <1>3 DEF PageInv, ShellTyped, LivePages
  <1>8. Scoped(t)'
    <2>1. route[t] = Flat /\ orgs[t] \notin {Unloaded, {}} => internal[t] \in orgs[t]
      BY <1>3 DEF PageInv, ScopeInv
    <2> QED BY <1>1, <1>4, <1>5, <2>1, Names DEF Scoped, Held
  <1>9. ~stray => session # Nobody /\ user[t] = session
    BY <1>1, <1>3, OpenPage
  <1> QED BY <1>1, <1>3, <1>4, <1>5, <1>6, <1>7, <1>8, <1>9, PageStep DEF ShellInv

(* The page arrives where its picker sent it, or leaves. *)
LEMMA ArriveStep ==
  ASSUME ShellInv, NEW t \in Tabs, Arrive(t)
  PROVE  ShellInv'
  <1>1. going[t] # Null /\ UNCHANGED <<session, member, raced, stray>>
    BY DEF Arrive
  <1>2. CASE ~KcSession /\ GoAway(t) /\ UNCHANGED <<cookie, writes, author>>
    BY <1>1, <1>2, AwayStep
  <1>3. CASE KcSession /\ Enter(t, going[t], EnsuredOrgs(t))
    <2>1. t \in live /\ going[t] \in Orgs
      BY <1>1 DEF ShellInv, PageInv, ShellTyped, LivePages
    <2>2. session # Nobody /\ EnsuredOrgs(t) \in (SUBSET Orgs) \cup {Unloaded}
      BY <1>3, RememberedForms DEF KcSession, EnsuredOrgs, ShellInv, PageInv, ShellTyped
    <2> QED BY <1>1, <1>3, <2>1, <2>2, EnterStep
  <1> QED BY <1>2, <1>3 DEF Arrive

(* The list of organizations is fetched again. *)
LEMMA RefetchStep ==
  ASSUME ShellInv, NEW t \in Tabs, Refetch(t)
  PROVE  ShellInv'
  <1> DEFINE list == member[session]
             p == Snapshot(cache[t])
  <1>1. /\ t \in live /\ session # Nobody /\ orgs' = [orgs EXCEPT ![t] = list]
        /\ UNCHANGED <<session, member, page, user, route, going, ssr, raced, stray, dropped, live>>
        /\ live' = live \cup {t}
    BY ShellRuns DEF Refetch, ShellInv
  <1>2. route[t] # Flat => UNCHANGED <<cookie, writes, cache, mail, shown, internal, author>>
    BY DEF Refetch
  <1>3. route[t] = Flat => Effects(t, Flat, list, internal[t], p)
    BY DEF Refetch
  <1>4. list \in SUBSET Orgs /\ internal[t] \in Orgs \cup {Null} /\ orgs \in [Tabs -> (SUBSET Orgs) \cup {Unloaded}]
    BY <1>1 DEF ShellInv, PageInv, ShellTyped
  <1>5. Renders(t, p)
    BY Rendered DEF ShellInv
  <1> HIDE DEF list, p
  <1>6. /\ StoreInv' /\ cookie' = cookie /\ internal' \in [Tabs -> Orgs \cup {Null}]
        /\ \A u \in Tabs \ {t} : internal'[u] = internal[u] /\ cache'[u] = cache[u]
        /\ route[t] # Flat => cache'[t]["org"] = cache[t]["org"]
        /\ route[t] = Flat /\ list \notin {Unloaded, {}} => internal'[t] \in list
        /\ (writes' = writes /\ author' = author) \/ author' = user'[t]
    <2>1. CASE route[t] # Flat
      <3>1. StoreInv'
        BY <1>1, <1>2, <2>1, StoreFrame DEF ShellInv, storageVars
      <3> QED BY <1>2, <2>1, <3>1 DEF ShellInv, PageInv, ShellTyped
    <2>2. CASE route[t] = Flat
      BY <1>1, <1>3, <1>4, <1>5, <2>2, EffectsStep
    <2> QED BY <2>1, <2>2
  <1>7. orgs'[t] = list /\ orgs' \in [Tabs -> (SUBSET Orgs) \cup {Unloaded}]
        /\ \A u \in Tabs \ {t} : orgs'[u] = orgs[u]
    BY <1>1, <1>4
  <1>8. ShellTyped' /\ Alone(t)
    BY <1>1, <1>6, <1>7 DEF ShellInv, PageInv, ShellTyped, Alone
  <1>9. LivePages'
    BY <1>1 DEF ShellInv, PageInv, LivePages
  <1>10. Scoped(t)'
    <2>1. /\ going[t] # Null => t \notin dropped
          /\ route[t] # Flat /\ t \notin dropped => cache[t]["org"] = Held(t)
      BY <1>1 DEF ShellInv, PageInv, ScopeInv
    <2> QED BY <1>1, <1>6, <1>7, <2>1 DEF Scoped, Held
  <1>11. ~stray => user[t] = session
    BY <1>1, RunningPage, OpenPage DEF ShellInv
  <1>12. ~stray => author' = session \/ NothingRemembered
    BY <1>1, <1>6, <1>11 DEF NothingRemembered, OrgWrites
  <1>13. PageInv
    BY DEF ShellInv
  <1> QED BY <1>1, <1>6, <1>8, <1>9, <1>10, <1>11, <1>12, <1>13, PageStep DEF ShellInv

(* A step of the store alone, which leaves the remembered organizations of  *)
(* the pages where they are.                                                *)
LEMMA QuietStep ==
  ASSUME ShellInv, StoreInv', NEW t \in Tabs,
         UNCHANGED <<shellVars, live, stray, dropped, author>>,
         raced' \in BOOLEAN,
         \A u \in Tabs : cache'[u]["org"] = cache[u]["org"] /\ (u # t => cache'[u] = cache[u]),
         NothingRemembered,
         session = Nobody /\ ~stray => UNCHANGED <<writes, cookie>>
  PROVE  ShellInv'
  <1>1. ShellTyped' /\ LivePages' /\ Alone(t) /\ PageInv
    BY DEF ShellInv, PageInv, ShellTyped, LivePages, Alone, shellVars
  <1>2. page'[t] \in {"live", "create"} => Scoped(t)'
    BY DEF ShellInv, PageInv, LivePages, ScopeInv, Scoped, Held, shellVars
  <1>3. ~stray => /\ page'[t] # "away" => user'[t] = session
                  /\ session = Nobody => page'[t] = "away"
    BY OpenPage DEF ShellInv, shellVars
  <1>4. UNCHANGED <<session, stray>>
    BY DEF shellVars
  <1> QED BY <1>1, <1>2, <1>3, <1>4, PageStep DEF ShellInv

(* The browser delivers writes and messages, and renders. *)
LEMMA BrowserStep ==
  ASSUME ShellInv, NEW t \in Tabs, Browser(t), UNCHANGED <<shellVars, ghosts, acts>>
  PROVE  ShellInv'
  <1>0. StoreInv /\ PageInv /\ UNCHANGED <<raced, stray, dropped, author>> /\ raced' \in BOOLEAN
    BY DEF ShellInv, PageInv, ShellTyped, ghosts
  <1>1. CASE Commit(t)
    <2>1. /\ StoreInv'
          /\ cookie'["org"] \in Orgs => cookie["org"] \in Orgs \/ OrgWrites(t) # {}
          /\ \A s \in Tabs : OrgWrites(s)' # {} => OrgWrites(s) # {}
      BY <1>0, <1>1, CommitStep
    <2>2. NothingRemembered
      BY <1>0, <2>1 DEF NothingRemembered
    <2>3. UNCHANGED <<live, cache>> /\ writes[t] # <<>>
      BY <1>1 DEF Commit
    <2>4. ~(session = Nobody /\ ~stray)
      BY <1>0, <2>3 DEF PageInv, UserInv
    <2> QED BY <1>0, <2>1, <2>2, <2>3, <2>4, QuietStep
  <1>2. CASE Rerender(t)
    <2>1. /\ t \in live /\ shown' = [shown EXCEPT ![t] = Snapshot(cache[t])]
          /\ UNCHANGED <<live, cookie, writes, cache, mail>> /\ live' = live \cup {t}
      BY <1>2 DEF Rerender
    <2>2. PICK p : p = Snapshot(cache[t])
      OBVIOUS
    <2>3. Renders(t, p) /\ shown' = [shown EXCEPT ![t] = p]
      BY <1>0, <2>1, <2>2, Rendered
    <2>4. StoreInv'
      BY <1>0, <2>1, <2>3, ShowStep
    <2>5. NothingRemembered
      BY <1>0, <2>1 DEF NothingRemembered, OrgWrites
    <2> QED BY <1>0, <2>1, <2>4, <2>5, QuietStep
  <1>3. ASSUME NEW s \in Tabs, Deliver(s, t) PROVE ShellInv'
    <2>1. /\ StoreInv'
          /\ \A u \in Tabs : cache'[u]["org"] = cache[u]["org"] /\ (u # t => cache'[u] = cache[u])
      BY <1>0, <1>3, DeliverStep
    <2>2. UNCHANGED <<live, cookie, writes>>
      BY <1>3 DEF Deliver
    <2>3. NothingRemembered
      BY <1>0, <2>2 DEF NothingRemembered, OrgWrites
    <2> QED BY <1>0, <2>1, <2>2, <2>3, QuietStep
  <1> QED BY <1>1, <1>2, <1>3 DEF Browser

(* The theme is set. *)
LEMMA ThemeStep ==
  ASSUME ShellInv, NEW t \in Tabs, CycleTheme(t)
  PROVE  ShellInv'
  <1>1. StoreInv /\ PageInv /\ raced \in BOOLEAN /\ page[t] = "live" /\ t \in live
    BY ShellRuns DEF ShellInv, PageInv, ShellTyped, CycleTheme
  <1>2. /\ StoreInv'
        /\ \A u \in Tabs : cache'[u]["org"] = cache[u]["org"] /\ (u # t => cache'[u] = cache[u])
        /\ \A u \in Tabs : OrgWrites(u)' = OrgWrites(u)
    BY <1>1, ThemeSet
  <1>3. UNCHANGED <<shellVars, live, stray, dropped, author, cookie>> /\ raced' \in BOOLEAN
    BY <1>1 DEF CycleTheme, Set
  <1>4. NothingRemembered
    BY <1>2, <1>3 DEF NothingRemembered
  <1>5. ~(session = Nobody /\ ~stray)
    BY <1>1, <1>2, RunningPage, OpenPage
  <1> QED BY <1>1, <1>2, <1>3, <1>4, <1>5, QuietStep

(* The user signs out: without a stray page nothing of the user is left. *)
LEMMA SignOutStep ==
  ASSUME ShellInv, NEW t \in Tabs, SignOut(t)
  PROVE  ShellInv'
  <1>1. /\ session' = Nobody /\ cookie' = [cookie EXCEPT !["org"] = Null] /\ GoAway(t)
        /\ writes[t] = <<>> /\ UNCHANGED <<writes, member, raced, author>>
        /\ stray' = (stray \/ \E u \in Tabs \ {t} : page[u] # "away" \/ writes[u] # <<>>)
    BY DEF SignOut
  <1>2. StoreInv' /\ \A u \in Tabs \ {t} : cache'[u] = cache[u]
    BY <1>1, UnloadStep DEF GoAway, ShellInv
  <1>3. stray' \in BOOLEAN
    BY <1>1 DEF ShellInv, PageInv, ShellTyped
  <1>4. ShellTyped' /\ page'[t] = "away" /\ Alone(t)
    BY <1>1, <1>2, <1>3 DEF GoAway, ShellInv, PageInv, ShellTyped, Alone
  <1>5. LivePages' /\ live' = live \ {t}
    BY <1>1 DEF GoAway, Unload, ShellInv, PageInv, ShellTyped, LivePages
  <1>6. ScopeInv'
    <2> SUFFICES ASSUME NEW u \in live' PROVE Scoped(u)'
      BY DEF ScopeInv, Scoped
    <2>1. u \in live /\ u \in Tabs \ {t}
      BY <1>5 DEF ShellInv, PageInv, LivePages
    <2>2. Scoped(u)
      BY <2>1 DEF ShellInv, PageInv, ScopeInv, Scoped
    <2> QED BY <1>4, <2>1, <2>2 DEF Alone, Scoped, Held
  <1>7. UserInv'
    <2> SUFFICES ASSUME ~stray'
                 PROVE  (\A u \in Tabs : page'[u] = "away" /\ writes'[u] = <<>>) /\ cookie'["org"] \notin Orgs
      BY <1>1 DEF UserInv
    <2>1. \A u \in Tabs \ {t} : page[u] = "away" /\ writes[u] = <<>>
      BY <1>1
    <2>2. \A u \in Tabs : page'[u] = "away" /\ writes'[u] = <<>>
      BY <1>1, <1>4, <2>1 DEF Alone
    <2>3. cookie'["org"] = Null
      BY <1>1, Names DEF ShellInv, StoreInv, StoreTyped
    <2> QED BY <2>2, <2>3, Names
  <1> QED BY <1>2, <1>4, <1>5, <1>6, <1>7 DEF ShellInv, PageInv

(* Somebody signs in, or loses an organization. *)
LEMMA PeopleStep ==
  ASSUME ShellInv,
         \/ \E t \in Tabs, u \in Users : SignIn(t, u)
         \/ \E u \in Users, lost \in SUBSET Orgs : Leave(u, lost)
  PROVE  ShellInv'
  <1>1. UNCHANGED <<storageVars, page, user, route, going, internal, orgs, ssr, raced, stray, dropped,
                    author>>
    BY DEF SignIn, Leave, ghosts
  <1>2. StoreInv'
    BY <1>1, StoreFrame DEF ShellInv
  <1>3. /\ session' \in Users \cup {Nobody} /\ member' \in [Users -> SUBSET Orgs]
        /\ session' = session \/ (session = Nobody /\ session' # Nobody)
    <2>1. CASE \E t \in Tabs, u \in Users : SignIn(t, u)
      BY <2>1, Names DEF SignIn, ShellInv, PageInv, ShellTyped
    <2>2. CASE \E u \in Users, lost \in SUBSET Orgs : Leave(u, lost)
      BY <2>2 DEF Leave, ShellInv, PageInv, ShellTyped
    <2> QED BY <2>1, <2>2
  <1>4. ShellTyped' /\ LivePages' /\ ScopeInv'
    BY <1>1, <1>3 DEF storageVars, ShellInv, PageInv, ShellTyped, LivePages, ScopeInv, Held
  <1>5. UserInv'
    <2>1. CASE session' = session
      BY <1>1, <2>1 DEF storageVars, ShellInv, PageInv, UserInv, OrgWrites
    <2>2. CASE session = Nobody /\ session' # Nobody
      <3> SUFFICES ASSUME ~stray
                   PROVE  (\A u \in Tabs : page[u] = "away" /\ OrgWrites(u) = {}) /\ cookie["org"] \notin Orgs
        BY <1>1, <2>2 DEF UserInv, storageVars, OrgWrites
      <3>1. (\A u \in Tabs : page[u] = "away" /\ writes[u] = <<>>) /\ cookie["org"] \notin Orgs
        BY <2>2 DEF ShellInv, PageInv, UserInv
      <3>2. DOMAIN <<>> = {}
        OBVIOUS
      <3> QED BY <3>1, <3>2 DEF OrgWrites
    <2> QED BY <1>3, <2>1, <2>2
  <1> QED BY <1>2, <1>4, <1>5 DEF ShellInv, PageInv

(* At first every tab is away and the jar names no organization. *)
LEMMA ShellInit ==
  ASSUME Init
  PROVE  ShellInv
  <1>1. live = {} /\ raced = FALSE /\ stray = FALSE /\ author = Nobody /\ session = First
    BY DEF Init, StorageInit
  <1>2. /\ \A t \in Tabs : writes[t] = <<>> /\ page[t] = "away"
        /\ \A s, t \in Tabs : mail[s][t] = <<>>
        /\ \A t \in Tabs, i \in Items : cache[t][i] = Absent /\ shown[t][i] = Null
    BY DEF Init, StorageInit
  <1>3. PICK junk \in {Null, Bad} : cookie = [i \in Items |-> junk]
    BY DEF Init, StorageInit
  <1>4. <<>> \in Seq(Changes) /\ DOMAIN <<>> = {}
    OBVIOUS
  <1>5. StoreTyped
    <2>1. writes \in [Tabs -> Seq(Changes)] /\ mail \in [Tabs -> [Tabs -> Seq(Changes)]]
      BY <1>4 DEF Init, StorageInit
    <2>2. Null \in Anything /\ Bad \in Anything /\ Absent \in Anything
      BY Names
    <2>3. /\ cookie \in [Items -> Anything] /\ cache \in [Tabs -> [Items -> Anything]]
          /\ shown \in [Tabs -> [Items -> Anything]]
      BY <1>3, <2>2 DEF Init, StorageInit
    <2> QED BY <1>1, <1>2, <1>3, <2>1, <2>3 DEF StoreTyped, StorageTypeOK
  <1>6. ChannelInv /\ SubscribersCurrent
    <2>1. \A s, t \in Tabs : DOMAIN mail[s][t] = {}
      BY <1>2, <1>4
    <2> QED BY <1>1, <1>2, <2>1 DEF ChannelInv, SubscribersCurrent
  <1>7. \A t \in Tabs : ThemeWrites(t) = {} /\ OrgWrites(t) = {}
    BY <1>2, <1>4 DEF ThemeWrites, OrgWrites
  <1>8. ThemeInv
    <2>1. Parse("theme", cookie["theme"]) = Null
      BY <1>3, Names DEF Parse
    <2>2. Newest(Null)
      BY <1>1, <1>2, <1>7, <2>1 DEF Newest
    <2> QED BY <1>2, <1>7, <2>2 DEF ThemeInv, Busy
  <1>9. ShellTyped
    BY PeopleAssumption DEF ShellTyped, Init
  <1>10. LivePages /\ ScopeInv
    BY <1>1, <1>2 DEF LivePages, ScopeInv, Init
  <1>11. UserInv
    <2>1. session \in Users /\ session # Nobody
      BY <1>1, PeopleAssumption
    <2>2. cookie["org"] \notin Orgs
      BY <1>3, Names
    <2> QED BY <1>2, <1>7, <2>1, <2>2 DEF UserInv
  <1> QED BY <1>5, <1>6, <1>8, <1>9, <1>10, <1>11 DEF ShellInv, StoreInv, PageInv

(* Every step keeps the invariant. *)
LEMMA ShellStep ==
  ASSUME ShellInv, [Next]_vars
  PROVE  ShellInv'
  <1>1. CASE UNCHANGED vars
    <2>1. StoreInv'
      BY <1>1, StoreFrame DEF vars, ghosts, ShellInv
    <2>2. PageInv'
      BY <1>1 DEF vars, storageVars, shellVars, ghosts, ShellInv, PageInv, ShellTyped, LivePages,
                  ScopeInv, Held, UserInv, OrgWrites
    <2> QED BY <2>1, <2>2 DEF ShellInv
  <1>2. CASE Next
    BY <1>2, BrowserStep, LoadStep, HydrateStep, NavigateStep, SelectStep, ArriveStep, RefetchStep, ThemeStep,
       SignOutStep, PeopleStep DEF Next
  <1> QED BY <1>1, <1>2

-----------------------------------------------------------------------------

(* The store, the pages and the session of the browser always agree as      *)
(* ShellInv says, through loads, navigation, messages in flight, sign-outs   *)
(* and sign-ins (app-shell, packages/storage).                              *)
THEOREM ShellCorrect == Spec => []ShellInv
  <1>1. Init => ShellInv
    BY ShellInit
  <1>2. ShellInv /\ [Next]_vars => ShellInv'
    BY ShellStep
  <1> QED BY <1>1, <1>2, PTL DEF Spec

(* When everything in flight has arrived, every page reads the theme of the *)
(* jar unless two tabs set it at once, and no hook shows a value that its   *)
(* page's cache has replaced (storage.ts, useStorageValue).                 *)
THEOREM StoresAreSound == Spec => []StoresAgree
  <1>1. ShellInv => StoresAgree
    <2> SUFFICES ASSUME ShellInv PROVE StoresAgree
      OBVIOUS
    <2>1. TypeOK
      BY DEF ShellInv, StoreInv, PageInv, StoreTyped, ShellTyped, LivePages, TypeOK
    <2>2. ThemeAgrees
      <3> SUFFICES ASSUME ~raced, \A t \in Tabs : writes[t] = <<>> /\ \A s \in Tabs : mail[s][t] = <<>>,
                          NEW t \in live
                   PROVE  Get(t, "theme") = Parse("theme", cookie["theme"])
        BY DEF ThemeAgrees
      <3>1. PICK v \in Value["theme"] \cup {Null} : Newest(v)
        BY DEF ShellInv, StoreInv, ThemeInv
      <3>2. \A s \in Tabs : ThemeWrites(s) = {}
        <4>1. DOMAIN <<>> = {}
          OBVIOUS
        <4> QED BY <4>1 DEF ThemeWrites
      <3>3. Parse("theme", cookie["theme"]) = v
        BY <3>1, <3>2 DEF Newest
      <3>4. t \in Tabs
        BY DEF ShellInv, PageInv, LivePages
      <3>5. cache[t]["theme"] # Absent => cache[t]["theme"] = v
        BY <3>1, <3>4 DEF Newest
      <3> QED BY <3>3, <3>5 DEF Get
    <2>3. SubscribersCurrent
      BY DEF ShellInv, StoreInv
    <2> QED BY <2>1, <2>2, <2>3 DEF StoresAgree
  <1> QED BY <1>1, ShellCorrect, PTL

(* A page keeps the organization of its URL as the remembered one, or the   *)
(* one that its picker is on its way to, unless a link overtook the choice; *)
(* a page without a scope in its URL works in an organization of its list   *)
(* (useAppShell's two effects, onSelectOrganization).                       *)
THEOREM ScopeIsHeld == Spec => []ScopeHeld
  <1>1. ShellInv => ScopeHeld
    <2> SUFFICES ASSUME ShellInv PROVE ScopeHeld
      OBVIOUS
    <2>1. ASSUME NEW t \in live \ dropped, route[t] # Flat
          PROVE  Get(t, "org") = IF going[t] = Null THEN route[t] ELSE going[t]
      <3>1. cache[t]["org"] = IF going[t] = Null THEN route[t] ELSE going[t]
        BY <2>1 DEF ShellInv, PageInv, ScopeInv, Held
      <3>2. route[t] # Absent /\ (going[t] # Null => going[t] # Absent)
        BY <2>1, Names DEF ShellInv, PageInv, ShellTyped, LivePages
      <3> QED BY <3>1, <3>2 DEF Get
    <2>2. FlatScopeListed
      BY DEF FlatScopeListed, ShellInv, PageInv, ScopeInv
    <2> QED BY <2>1, <2>2 DEF ScopeHeld, RouteIsRemembered
  <1> QED BY <1>1, ShellCorrect, PTL

(* Unless a page survived a sign-out, the organization in the jar was       *)
(* remembered under the user who is signed in (signOut, /auth/logout).      *)
THEOREM NextUserIsClean == Spec => []NextUserClean
  <1>1. ShellInv => NextUserClean
    BY DEF ShellInv, PageInv, UserInv, NextUserClean
  <1> QED BY <1>1, ShellCorrect, PTL
=============================================================================
