---------------------------- MODULE ClientStorage ----------------------------
(***************************************************************************)
(* The preference store of the web client (packages/storage): one cookie   *)
(* jar shared by the tabs of a browser, one in-memory cache per tab, a     *)
(* BroadcastChannel between the tabs, and the React hook that shows a      *)
(* value.  This module gives the operations; AppShell composes them with   *)
(* the pages that call them.                                               *)
(***************************************************************************)
EXTENDS Integers, Sequences

CONSTANTS
    Tabs,        \* the tabs of one browser
    Items,       \* the items of items.ts
    Broadcast,   \* the items declared broadcast: true
    Value,       \* Value[i]: the values item i's parse accepts
    Null,        \* JavaScript null: absent or cleared
    Bad,         \* a stored string that parse rejects
    Absent       \* JavaScript undefined: no entry in the cache

ASSUME StorageAssumption ==
    /\ Broadcast \subseteq Items
    /\ \A i \in Items : Value[i] \cap {Null, Bad, Absent} = {}
    /\ Absent # Null

VARIABLES
    live,        \* the tabs whose page runs, with its channel open
    cookie,      \* cookie[i]: the browser's jar, read by every request
    writes,      \* writes[t]: t's document.cookie writes still in flight to the jar
    cache,       \* cache[t][i]: valueCache of t's page
    mail,        \* mail[s][t]: messages s posted that t has not received
    shown        \* shown[t][i]: what useStorageValue last returned in t

storageVars == <<live, cookie, writes, cache, mail, shown>>

Change(i) == [item : {i}, value : Value[i] \cup {Null}]
Changes == UNION {Change(i) : i \in Items}

(* Caches, hooks and messages only hold values that an item's parser lets   *)
(* through.                                                                 *)
StorageTypeOK ==
    /\ live \subseteq Tabs
    /\ \A i \in Items : cookie[i] \in Value[i] \cup {Null, Bad}
    /\ writes \in [Tabs -> Seq(Changes)]
    /\ mail \in [Tabs -> [Tabs -> Seq(Changes)]]
    /\ \A t \in Tabs, i \in Items :
          /\ cache[t][i] \in Value[i] \cup {Null, Absent}
          /\ shown[t][i] \in Value[i] \cup {Null}

StorageInit ==
    /\ live = {}
    /\ \E junk \in {Null, Bad} : cookie = [i \in Items |-> junk]
    /\ writes = [t \in Tabs |-> <<>>]
    /\ cache = [t \in Tabs |-> [i \in Items |-> Absent]]
    /\ mail = [s \in Tabs |-> [t \in Tabs |-> <<>>]]
    /\ shown = [t \in Tabs |-> [i \in Items |-> Null]]

(* item.parse, which answers null for what it does not accept. *)
Parse(i, raw) == IF raw \in Value[i] THEN raw ELSE Null

(* storage.get: the cache wins when it holds an entry, null included; else *)
(* the jar is read and parsed.                                             *)
Get(t, i) == IF cache[t][i] = Absent THEN Parse(i, cookie[i]) ELSE cache[t][i]

-----------------------------------------------------------------------------

(* The snapshot that a page with cache c renders: storage.get of every item. *)
Snapshot(c) ==
    [i \in Items |-> IF c[i] = Absent THEN Parse(i, cookie[i]) ELSE c[i]]

(* notifyChange in a page that shows page: prime the cache, wake the        *)
(* subscribers of this tab, post to the other tabs if the item broadcasts.  *)
(* Nothing is posted to a tab without a running page: it has no channel.    *)
Notify(t, i, v, page) ==
    /\ cache' = [cache EXCEPT ![t][i] = v]
    /\ shown' = [shown EXCEPT ![t] = [page EXCEPT ![i] = v]]
    /\ mail' = [mail EXCEPT ![t] = [u \in Tabs |->
                    IF u \in live \ {t} /\ i \in Broadcast
                    THEN Append(@[u], [item |-> i, value |-> v]) ELSE @[u]]]

(* storage.set, which throws before any effect when v would not parse back; *)
(* the write to the jar is delivered later.                                 *)
Set(t, i, v, page) ==
    /\ Parse(i, v) # Null
    /\ writes' = [writes EXCEPT ![t] = Append(@, [item |-> i, value |-> v])]
    /\ UNCHANGED cookie
    /\ Notify(t, i, v, page)

-----------------------------------------------------------------------------

(* The browser applies t's oldest cookie write to the jar. *)
Commit(t) ==
    /\ writes[t] # <<>>
    /\ cookie' = [cookie EXCEPT ![Head(writes[t]).item] = Head(writes[t]).value]
    /\ writes' = [writes EXCEPT ![t] = Tail(@)]
    /\ UNCHANGED <<live, cache, mail, shown>>

(* Mutant: the message only wakes the subscribers, which read the jar. *)
Deliver_NameOnly(s, t) ==
    /\ mail[s][t] # <<>>
    /\ LET m == Head(mail[s][t])
       IN  /\ UNCHANGED cache
           /\ shown' = [shown EXCEPT ![t][m.item] = Parse(m.item, cookie[m.item])]
    /\ mail' = [mail EXCEPT ![s][t] = Tail(@)]
    /\ UNCHANGED <<live, cookie, writes>>

(* A broadcast reaches t's page: the channel-level listener primes the      *)
(* cache first, then the subscribers of a broadcast item re-read it.        *)
Deliver(s, t) ==
    /\ mail[s][t] # <<>>
    /\ LET m == Head(mail[s][t])
       IN  /\ cache' = [cache EXCEPT ![t][m.item] = m.value]
           /\ shown' = [shown EXCEPT ![t][m.item] =
                           IF m.item \in Broadcast THEN m.value ELSE @]
    /\ mail' = [mail EXCEPT ![s][t] = Tail(@)]
    /\ UNCHANGED <<live, cookie, writes>>

(* A component of t renders again for a reason of its own, and its hook     *)
(* reads the store.                                                         *)
Rerender(t) ==
    /\ t \in live
    /\ shown[t] # Snapshot(cache[t])
    /\ shown' = [shown EXCEPT ![t] = Snapshot(cache[t])]
    /\ UNCHANGED <<live, cookie, writes, cache, mail>>

(* The document of t goes away: its cache, its subscribers and its end of   *)
(* the channel go with it.                                                  *)
Unload(t) ==
    /\ live' = live \ {t}
    /\ cache' = [cache EXCEPT ![t] = [i \in Items |-> Absent]]
    /\ shown' = [shown EXCEPT ![t] = [i \in Items |-> Null]]
    /\ mail' = [s \in Tabs |-> [mail[s] EXCEPT ![t] = <<>>]]
=============================================================================
