----------------------------- MODULE NotifyLinks -----------------------------
(***************************************************************************)
(* Registration for push notifications: the browser's switch and push        *)
(* subscription, the links of the wallets on the server, and the queue of     *)
(* DELETEs that outlives the worker (notifyRegistration.ts, notifyStore.ts,   *)
(* notifyClient.ts, notifyBackground.ts).                                     *)
(*                                                                         *)
(* An operation is the list of steps it still has to take: a step is what the *)
(* code does up to its next request to the server, to the push service, or    *)
(* its next write to storage.  A kill of the worker empties the list.  A      *)
(* request may fail, may be deferred (a wait the worker cannot sit through),   *)
(* or may be applied with its answer lost; the client's retries inside one    *)
(* request are part of its outcome.                                           *)
(*                                                                         *)
(* The store swallows its failures: a write that fails is lost, a read that   *)
(* fails finds nothing, and what is written after it replaces everything.     *)
(* One thing goes wrong in a step at most.  notifyDevice is taken to be read   *)
(* and written.                                                              *)
(*                                                                         *)
(* A wallet's tag is its n-th one; 0 is none.  A push endpoint is a number, 0  *)
(* is none.  The proof a link needs is always in the cache: without it the    *)
(* operations below return before they change anything.                       *)
(***************************************************************************)
EXTENDS Naturals, Sequences, FiniteSets, SequencesExt

CONSTANTS
    MaxWallet,   \* wallets installed at first
    Thread,      \* operations the worker runs at a time
    MaxEndpoint, \* endpoints the push service hands out
    MaxTag,      \* bound: tags drawn for a wallet
    MaxUi,       \* bound: operations started by the user or by new credentials
    MaxFault     \* bound: kills, requests and storage calls that fail, things lost by the server

ASSUME BoundsAssumption == {MaxWallet, MaxEndpoint, MaxTag, MaxUi, MaxFault} \subseteq Nat

VARIABLES
    installed,                       \* geroStore.wallets
    on, endpoint, status,            \* notifyDevice: browserEnabled, endpoint, targetStatus
    unsupported,                     \* notifyDevice: protocolUnsupported, which nothing clears
    tag, registered,                 \* notifyWallets: walletTag, registeredAt # null
    queue,                           \* notifyPendingDeletes
    sub,                             \* pushManager.getSubscription()
    known, target, links, dead,      \* the server: the device, its target, its links,
                                     \* and the endpoints it marked invalid
    ops,                             \* the operation each thread runs
    used, ui, faults,                \* tags drawn, and the counts the bounds cap
    dropped,                         \* ghost: DELETEs given up on a 4xx, and links whose DELETE
                                     \* or whose entry a failed storage call has lost
    late                             \* ghost: the operations under way when the switch went off

device == <<on, endpoint, status, unsupported>>
wallets == <<tag, registered, used>>
server == <<known, target, links, dead>>
state  == <<installed, device, wallets, queue, sub, server, ops, ui, faults, dropped>>
vars   == <<state, late>>

Wallet    == 1..MaxWallet
Endpoints == 1..MaxEndpoint
Tag       == Wallet \X (1..MaxTag)
TheDevice == <<0, 0>>                \* the queue's DELETE /device
Local     == {<<w, tag[w]>> : w \in {v \in Wallet : tag[v] # 0}}

Item      == Tag \union {TheDevice}

Kinds == {"idle", "on", "off", "enable", "disable", "remove", "prefs", "credentials", "reassert"}
Steps ==
    [do : {"flush", "drained", "config", "unsubscribe", "switchBack", "switchOff"}]
    \union [do : {"register"}, replace : BOOLEAN]
    \union [do : {"subscribe"}, replace : BOOLEAN, attempt : {0, 1}]
    \union [do : {"newSub"}, previous : 0..MaxEndpoint, attempt : {0, 1}]
    \union [do : {"putDevice"}, e : 0..MaxEndpoint, attempt : {0, 1},
             how : {"register", "resend", "off"}]
    \union [do : {"saveDevice"}, e : 0..MaxEndpoint]
    \union [do : {"delete"}, items : Seq(Item)]
    \union [do : {"enqueue"}, item : Item]
    \union [do : {"forget", "choose", "lastOne", "uninstall"}, w : Wallet]
    \union [do : {"link"}, w : Wallet, n : 1..MaxTag, attempt : {0, 1}]
    \union [do : {"save"}, w : Wallet, n : 1..MaxTag, registered : BOOLEAN]
    \union [do : {"prefs"}, w : Wallet, n : 1..MaxTag]
    \union [do : {"check"}, endpoint : 0..MaxEndpoint]
    \union [do : {"compare"}, endpoint : 0..MaxEndpoint, links : SUBSET Tag,
             status : {"none", "active"}]
    \union [do : {"reconcile"}, links : SUBSET Tag, status : {"keep", "none", "active"}]
    \union [do : {"get"}, lenient : BOOLEAN, sets : BOOLEAN]
    \union [do : {"each"}, queue : SUBSET Tag, unlink : SUBSET Tag, link : SUBSET Tag]

TypeOK ==
    /\ installed \subseteq Wallet
    /\ on \in BOOLEAN /\ endpoint \in 0..MaxEndpoint /\ unsupported \in BOOLEAN
    /\ status \in {"none", "active", "invalid", "needs_attention"}
    /\ tag \in [Wallet -> 0..MaxTag] /\ registered \subseteq {w \in Wallet : tag[w] # 0}
    /\ queue \in Seq(Item)
    /\ ops \in [Thread -> [kind : Kinds, undo : BOOLEAN, todo : Seq(Steps)]]
    /\ sub \in 0..MaxEndpoint
    /\ known \in BOOLEAN /\ target \in 0..MaxEndpoint
    /\ links \subseteq Tag /\ dead \subseteq Endpoints
    /\ used \in [Wallet -> 0..MaxTag]
    /\ ui \in 0..MaxUi /\ faults \in 0..MaxFault
    /\ dropped \subseteq Item /\ late \subseteq Thread
    /\ known \/ (target = 0 /\ links = {} /\ dead = {})

Idle == [kind |-> "idle", undo |-> FALSE, todo |-> <<>>]

Init ==
    /\ installed = Wallet
    /\ on = FALSE /\ endpoint = 0 /\ status = "none" /\ unsupported = FALSE
    /\ tag = [w \in Wallet |-> 0] /\ registered = {} /\ used = tag
    /\ queue = <<>> /\ sub = 0
    /\ known = FALSE /\ target = 0 /\ links = {} /\ dead = {}
    /\ ops = [t \in Thread |-> Idle]
    /\ ui = 0 /\ faults = 0 /\ dropped = {} /\ late = {}

(***************************************************************************)
(* Steps.                                                                   *)
(***************************************************************************)
Flush              == [do |-> "flush"]
Unsubscribe        == [do |-> "unsubscribe"]
Register(replace)  == [do |-> "register", replace |-> replace]
PutDevice(e, n, h) == [do |-> "putDevice", e |-> e, attempt |-> n, how |-> h]
SubscribeStep(r, n) == [do |-> "subscribe", replace |-> r, attempt |-> n]
Enqueue(item)      == [do |-> "enqueue", item |-> item]
Forget(w)          == [do |-> "forget", w |-> w]
Link(w, n, k)      == [do |-> "link", w |-> w, n |-> n, attempt |-> k]
Save(w, n, r)      == [do |-> "save", w |-> w, n |-> n, registered |-> r]
Reconcile(ls, st)  == [do |-> "reconcile", links |-> ls, status |-> st]
Get(lenient, st)   == [do |-> "get", lenient |-> lenient, sets |-> st]
\* A loop with what it has left: tags to queue, entries to remove, links to put.
Each(q, u, l) ==
    IF q \union u \union l = {} THEN <<>>
    ELSE <<[do |-> "each", queue |-> q, unlink |-> u, link |-> l]>>

Fault == faults < MaxFault /\ faults' = faults + 1

\* A request is refused; by 426, or by a config that asks for more, for good.
Refused == Fault /\ unsupported' \in {unsupported, TRUE}

At(t, name) == ops[t].todo # <<>> /\ Head(ops[t].todo).do = name
Here(t)     == Head(ops[t].todo)
ToDo(t, s)  == ops' = [ops EXCEPT ![t].todo = s]
\* The step is done: first `more`, then what the operation has left.
Then(t, more) == ToDo(t, more \o Tail(ops[t].todo))
\* An exception that the operation lets through.
Throw(t) == ToDo(t, <<>>)
\* registerDevice returns something other than ok; enableWallet takes its switch back.
Stop(t, result) ==
    ToDo(t, IF ops[t].undo /\ result # "deferred" THEN <<[do |-> "switchBack"]>> ELSE <<>>)

(***************************************************************************)
(* The operations start.  reassert runs are serialised by notifyBackground.  *)
(***************************************************************************)
Start(t, kind, undo, todo) ==
    /\ ops[t].todo = <<>>
    /\ ops' = [ops EXCEPT ![t] = [kind |-> kind, undo |-> undo, todo |-> todo]]

\* The page's switches are disabled while one of its requests runs; a reassert may overlap it.
User ==
    /\ ui < MaxUi /\ ui' = ui + 1
    /\ \A t \in Thread : ops[t].todo # <<>> => ops[t].kind = "reassert"

SetOn(t) ==
    /\ User
    /\ Start(t, "on", FALSE, <<Register(FALSE), Get(TRUE, FALSE), Flush>>)
    /\ on' = TRUE
    /\ UNCHANGED <<installed, endpoint, status, unsupported, wallets, queue, sub, server, faults, dropped>>

SwitchOff == on' = FALSE /\ status' = "none" /\ endpoint' = 0

SetOff(t) ==
    /\ User
    /\ Start(t, "off", FALSE, <<PutDevice(0, 1, "off"), Unsubscribe>>)
    /\ SwitchOff
    /\ UNCHANGED <<installed, unsupported, wallets, queue, sub, server, faults, dropped>>

EnableWallet(t, w) ==
    /\ User /\ w \in installed
    /\ Start(t, "enable", ~on,
             (IF status # "active" THEN <<Register(FALSE)>> ELSE <<>>)
                 \o <<[do |-> "choose", w |-> w]>>)
    /\ on' = TRUE
    /\ UNCHANGED <<installed, endpoint, status, unsupported, wallets, queue, sub, server, faults, dropped>>

UnlinkMutant(l) == <<Forget(l[1]), Enqueue(l)>>   \* mutant: the entry goes before the DELETE is queued
\* The DELETE is queued durably before the entry goes.
Unlink(l) == <<Enqueue(l), Forget(l[1])>>

DisableWallet(t, w) ==
    /\ User /\ w \in installed /\ tag[w] # 0
    /\ Start(t, "disable", FALSE, Unlink(<<w, tag[w]>>) \o <<Flush>>)
    /\ UNCHANGED <<installed, device, wallets, queue, sub, server, faults, dropped>>

\* An entry that cannot be read is none.
WalletRemoved(t, w) ==
    LET rest == <<[do |-> "lastOne", w |-> w], Flush, [do |-> "uninstall", w |-> w]>> IN
    /\ User /\ w \in installed
    /\ \/ tag[w] # 0 /\ Start(t, "remove", FALSE, Unlink(<<w, tag[w]>>) \o rest) /\ UNCHANGED faults
       \/ tag[w] = 0 /\ Start(t, "remove", FALSE, rest) /\ UNCHANGED faults
       \/ tag[w] # 0 /\ Fault /\ Start(t, "remove", FALSE, rest)
    /\ UNCHANGED <<installed, device, wallets, queue, sub, server, dropped>>

\* setPrefs, refreshPrefs, watchOrders: one request about a registered wallet.
SetPrefs(t, w) ==
    /\ User /\ w \in installed \intersect registered
    /\ Start(t, "prefs", FALSE, <<[do |-> "prefs", w |-> w, n |-> tag[w]]>>)
    /\ UNCHANGED <<installed, device, wallets, queue, sub, server, faults, dropped>>

\* Five seconds after the open wallet derived new credentials.
CredentialsChanged(t, w) ==
    /\ ui < MaxUi /\ ui' = ui + 1
    /\ w \in installed \intersect registered
    /\ Start(t, "credentials", FALSE, <<Link(w, tag[w], 0)>>)
    /\ UNCHANGED <<installed, device, wallets, queue, sub, server, faults, dropped>>

Check == <<[do |-> "check", endpoint |-> endpoint]>>

AlwaysCheck == Check                              \* mutant: the switch is not looked at
NothingIfOff == IF on THEN Check ELSE <<>>        \* mutant: with it off, not even the queue
ReassertPlan == IF on THEN Check ELSE <<Flush>>

\* One that finds the protocol unsupported, or a retry not due yet, returns at once.
Reassert(t) ==
    /\ ~unsupported
    /\ \A u \in Thread : ops[u].todo # <<>> => ops[u].kind # "reassert"
    /\ Start(t, "reassert", FALSE, ReassertPlan)
    /\ UNCHANGED <<installed, device, wallets, queue, sub, server, ui, faults, dropped>>

(***************************************************************************)
(* registerDevice.                                                          *)
(***************************************************************************)
RegisterDevice(t) ==
    /\ At(t, "register")
    /\ IF on
       THEN Then(t, <<Flush, [do |-> "drained"], [do |-> "config"],
                      SubscribeStep(Here(t).replace, 0)>>)
       ELSE Stop(t, "unavailable")
    /\ UNCHANGED <<installed, device, wallets, queue, sub, server, ui, faults, dropped>>

Drained(t) ==
    /\ At(t, "drained")
    /\ \/ queue = <<>> /\ Then(t, <<>>) /\ UNCHANGED faults
       \/ queue # <<>> /\ Stop(t, "error") /\ UNCHANGED faults
       \/ queue # <<>> /\ Fault /\ Then(t, <<>>)                         \* it could not be read
    /\ UNCHANGED <<installed, device, wallets, queue, sub, server, ui, dropped>>

\* GET /config: it throws when it cannot be fetched, and may say the service is off, or that
\* it needs a newer client.
UsableConfig(t) ==
    /\ At(t, "config")
    /\ \/ Then(t, <<>>) /\ UNCHANGED <<faults, unsupported>>
       \/ Fault /\ unsupported' = TRUE /\ Then(t, <<>>)
       \/ Fault /\ (Throw(t) \/ Stop(t, "unavailable")) /\ UNCHANGED unsupported
    /\ UNCHANGED <<installed, on, endpoint, status, wallets, queue, sub, server, ui, dropped>>

Subscribe(t) ==
    /\ At(t, "subscribe")
    /\ IF sub # 0 /\ ~Here(t).replace
       THEN Then(t, <<PutDevice(sub, 0, "register")>>) /\ UNCHANGED sub
       ELSE /\ sub' = 0
            /\ Then(t, <<[do |-> "newSub", previous |-> sub, attempt |-> Here(t).attempt]>>)
    /\ UNCHANGED <<installed, device, wallets, queue, server, ui, faults, dropped>>

\* The endpoints that nothing of this browser or its record on the server still names.
Unused(previous) == Endpoints \ ({endpoint, target, previous} \union dead)

\* pushManager.subscribe(): another endpoint, rarely the same again, or none.
FreshSubscription(t) ==
    LET s == Here(t) IN
    /\ At(t, "newSub")
    /\ \/ /\ Unused(s.previous) # {}                                     \* bound
          /\ sub' = CHOOSE e \in Unused(s.previous) : TRUE
          /\ Then(t, <<PutDevice(sub', s.attempt, "register")>>)
          /\ UNCHANGED <<device, faults>>
       \/ /\ Fault /\ s.previous # 0 /\ sub' = s.previous
          /\ IF s.attempt = 0 \/ s.previous \notin dead
             THEN Then(t, <<PutDevice(sub', s.attempt, "register")>>) /\ UNCHANGED status
             ELSE Stop(t, "needs_attention") /\ status' = "needs_attention"
          /\ UNCHANGED <<on, endpoint>>
       \/ /\ Fault /\ sub' = 0
          /\ IF s.attempt = 0 THEN Stop(t, "subscribe_failed") /\ on' = FALSE
                              ELSE Throw(t) /\ UNCHANGED on
          /\ UNCHANGED <<endpoint, status>>
    /\ UNCHANGED <<installed, unsupported, wallets, queue, server, ui, dropped>>

\* PUT /device failed for good: registerDevice and reassert stop, the switch-off goes on.
PutFailed(t, result) ==
    IF Here(t).how = "off" THEN Then(t, <<>>) ELSE Stop(t, result)

PutDeviceStep(t) ==
    LET s == Here(t) IN
    /\ At(t, "putDevice")
    /\ \/ /\ s.e \notin dead /\ known' = TRUE /\ target' = s.e
          /\ \/ /\ Then(t, <<[do |-> "saveDevice", e |-> s.e]>>
                             \o (IF s.how = "resend" THEN <<Reconcile(links, "active")>> ELSE <<>>))
                /\ UNCHANGED faults
             \/ Fault /\ PutFailed(t, "error")
          /\ UNCHANGED <<on, sub, unsupported>>
       \/ /\ s.e \in dead /\ s.how = "register" /\ s.attempt = 0      \* target_invalid
          /\ sub' = 0
          /\ Then(t, <<[do |-> "newSub", previous |-> s.e, attempt |-> 1]>>)
          /\ UNCHANGED <<known, target, on, faults, unsupported>>
       \/ /\ s.e \in dead /\ (s.how # "register" \/ s.attempt > 0)
          /\ PutFailed(t, "error")
          /\ UNCHANGED <<known, target, on, sub, faults, unsupported>>
       \/ /\ \/ Refused /\ PutFailed(t, "error")
             \/ Fault /\ PutFailed(t, "deferred") /\ UNCHANGED unsupported
          /\ UNCHANGED <<known, target, on, sub>>
       \/ /\ Fault /\ s.how = "register" /\ s.attempt = 0
          /\ \/ Stop(t, "endpoint_not_allowed") /\ on' = FALSE
             \/ /\ Then(t, <<[do |-> "config"], SubscribeStep(TRUE, 1)>>)  \* vapid_kid_stale
                /\ UNCHANGED on
          /\ UNCHANGED <<known, target, sub, unsupported>>
    /\ UNCHANGED <<installed, endpoint, status, wallets, queue, links, dead, ui, dropped>>

SaveDevice(t) ==
    /\ At(t, "saveDevice")
    /\ endpoint' = Here(t).e
    /\ status' = IF Here(t).e = 0 THEN "none" ELSE "active"
    /\ Then(t, <<>>)
    /\ UNCHANGED <<installed, on, unsupported, wallets, queue, sub, server, ui, faults, dropped>>

SwitchBack(t) ==
    /\ At(t, "switchBack")
    /\ on' = FALSE
    /\ Then(t, <<>>)
    /\ UNCHANGED <<installed, endpoint, status, unsupported, wallets, queue, sub, server, ui, faults, dropped>>

(***************************************************************************)
(* flushPendingDeletes: the queue as it was read, in order.                  *)
(***************************************************************************)
FlushPendingDeletes(t) ==
    /\ At(t, "flush")
    /\ \/ queue # <<>> /\ Then(t, <<[do |-> "delete", items |-> queue]>>) /\ UNCHANGED faults
       \/ queue = <<>> /\ Then(t, <<>>) /\ UNCHANGED faults
       \/ queue # <<>> /\ Fault /\ Then(t, <<>>)                         \* it could not be read
    /\ UNCHANGED <<installed, device, wallets, queue, sub, server, ui, dropped>>

NoDevice == known' = FALSE /\ target' = 0 /\ links' = {} /\ dead' = {}

Deleted(item) ==
    IF item = TheDevice THEN NoDevice
                        ELSE links' = links \ {item} /\ UNCHANGED <<known, target, dead>>

\* An answer is lost or a request fails: the rest of the queue stays.  A 4xx that lasts, but
\* auth_clock_skew, gives this DELETE up.
Delete(t) ==
    LET items == Here(t).items IN
    /\ At(t, "delete") /\ items # <<>>
    /\ \/ /\ Deleted(Head(items))
          /\ \/ /\ Then(t, <<[do |-> "delete", items |-> Tail(items)]>>)
                /\ UNCHANGED <<queue, faults>>
             \/ Fault /\ queue' = items /\ Then(t, <<>>)
          /\ UNCHANGED <<dropped, unsupported>>
       \/ /\ Fault /\ queue' = items /\ Then(t, <<>>)
          /\ UNCHANGED <<server, dropped, unsupported>>
       \/ /\ Refused
          /\ dropped' = dropped \union {Head(items)}
          /\ Then(t, <<[do |-> "delete", items |-> Tail(items)]>>)
          /\ UNCHANGED <<server, queue>>
    /\ UNCHANGED <<installed, on, endpoint, status, wallets, sub, ui>>

SetQueue(t) ==
    /\ At(t, "delete") /\ Here(t).items = <<>>
    /\ Then(t, <<>>)
    /\ \/ queue' = <<>> /\ UNCHANGED faults
       \/ Fault /\ UNCHANGED queue
    /\ UNCHANGED <<installed, device, wallets, sub, server, ui, dropped>>

EnqueueDelete(t) ==
    LET item == Here(t).item IN
    /\ At(t, "enqueue") /\ Then(t, <<>>)
    /\ \/ /\ queue' = IF item \in ToSet(queue) THEN queue ELSE Append(queue, item)
          /\ UNCHANGED <<faults, dropped>>
       \/ /\ Fault /\ item \notin ToSet(queue) /\ dropped' = dropped \union {item}   \* not written
          /\ UNCHANGED queue
       \/ /\ Fault /\ queue' = <<item>>                                            \* not read
          /\ dropped' = dropped \union (ToSet(queue) \ {item})
    /\ UNCHANGED <<installed, device, wallets, sub, server, ui>>

ForgetWallet(t) ==
    LET w == Here(t).w IN
    /\ At(t, "forget") /\ Then(t, <<>>)
    /\ \/ /\ tag' = [tag EXCEPT ![w] = 0] /\ registered' = registered \ {w}
          /\ UNCHANGED <<faults, dropped>>
       \/ Fault /\ UNCHANGED <<tag, registered, dropped>>
       \/ /\ Fault /\ tag' = [v \in Wallet |-> 0] /\ registered' = {}
          /\ dropped' = dropped \union (Local \ {<<w, tag[w]>>})
    /\ UNCHANGED <<installed, device, used, queue, sub, server, ui>>

(***************************************************************************)
(* A wallet's link.                                                         *)
(***************************************************************************)
\* store.setWallet: the entry of w, with tag n.  Lost with a failed read: every other one.
SetEntry(w, n, isRegistered) ==
    LET now == IF isRegistered THEN {w} ELSE {} IN
    \/ /\ tag' = [tag EXCEPT ![w] = n] /\ registered' = (registered \ {w}) \union now
       /\ UNCHANGED <<faults, dropped>>
    \/ /\ Fault /\ dropped' = dropped \union {<<w, n>>}
       /\ UNCHANGED <<tag, registered>>
    \/ /\ Fault /\ tag' = [v \in Wallet |-> IF v = w THEN n ELSE 0] /\ registered' = now
       /\ dropped' = dropped \union (Local \ {<<w, n>>})

\* A wallet of this browser that has no entry, or whose entry cannot be read, gets a tag of
\* its own.
ChooseTag(t) ==
    LET w == Here(t).w
        n == used[w] + 1 IN
    /\ At(t, "choose")
    /\ \/ /\ tag[w] # 0 /\ Then(t, <<Link(w, tag[w], 0)>>)
          /\ UNCHANGED <<wallets, faults, dropped>>
       \/ /\ tag[w] = 0 /\ n <= MaxTag /\ used' = [used EXCEPT ![w] = n]
          /\ SetEntry(w, n, FALSE) /\ Then(t, <<Link(w, n, 0)>>)
       \/ /\ tag[w] # 0 /\ n <= MaxTag /\ used' = [used EXCEPT ![w] = n]
          /\ Fault /\ tag' = [tag EXCEPT ![w] = n] /\ registered' = registered \ {w}
          /\ dropped' = dropped \union {<<w, tag[w]>>}
          /\ Then(t, <<Link(w, n, 0)>>)
       \/ /\ tag[w] = 0 /\ n > MaxTag /\ Throw(t)                         \* bound
          /\ UNCHANGED <<wallets, faults, dropped>>
    /\ UNCHANGED <<installed, device, queue, sub, server, ui>>

\* device_unknown: the client registers the device as deviceBody describes it, and retries.
HookTarget  == IF on /\ endpoint # 0 THEN sub ELSE 0
Recover    == known' = TRUE /\ target' = IF known THEN target ELSE HookTarget

\* A deferral ends reconcile; the flush after it still runs.
Deferred(t) == ToDo(t, IF Flush \in ToSet(Tail(ops[t].todo)) THEN <<Flush>> ELSE <<>>)

PutWalletLink(t) ==
    LET s == Here(t) IN
    /\ At(t, "link")
    /\ \/ /\ Recover /\ links' = links \union {<<s.w, s.n>>}
          /\ \/ Then(t, <<Save(s.w, s.n, TRUE)>>) /\ UNCHANGED faults
             \/ Fault /\ Then(t, <<>>)
          /\ UNCHANGED <<wallets, unsupported>>
       \/ /\ \/ Refused /\ Then(t, <<>>)
             \/ Fault /\ Deferred(t) /\ UNCHANGED unsupported
          /\ UNCHANGED <<known, target, links, wallets>>
       \/ /\ Fault /\ Recover                                  \* wallet_tag_conflict
          /\ s.attempt = 0 /\ <<s.w, s.n>> \notin links /\ used[s.w] < MaxTag
          /\ used' = [used EXCEPT ![s.w] = @ + 1]
          /\ tag' = [tag EXCEPT ![s.w] = used[s.w] + 1]
          /\ Then(t, <<Link(s.w, used[s.w] + 1, 1)>>)
          /\ UNCHANGED <<links, registered, unsupported>>
    /\ UNCHANGED <<installed, on, endpoint, status, queue, sub, dead, ui, dropped>>

\* store.setWallet of the entry as the operation read it, with its new registeredAt.
SetWallet(t) ==
    LET s == Here(t) IN
    /\ At(t, "save") /\ SetEntry(s.w, s.n, s.registered) /\ Then(t, <<>>)
    /\ UNCHANGED <<installed, device, used, queue, sub, server, ui>>

Prefs(t) ==
    LET s == Here(t) IN
    /\ At(t, "prefs")
    /\ \/ /\ Recover /\ Then(t, <<Save(s.w, s.n, <<s.w, s.n>> \in links)>>)
          /\ UNCHANGED <<faults, unsupported>>
       \/ Refused /\ Then(t, <<>>) /\ UNCHANGED <<known, target>>
    /\ UNCHANGED <<installed, on, endpoint, status, wallets, queue, sub, links, dead, ui, dropped>>

(***************************************************************************)
(* walletRemoved, setBrowserEnabled(false).                                  *)
(***************************************************************************)
LastOne(t) ==
    /\ At(t, "lastOne")
    /\ \/ /\ endpoint # 0
          /\ \/ registered \subseteq {Here(t).w} /\ UNCHANGED faults
             \/ ~(registered \subseteq {Here(t).w}) /\ Fault           \* none could be read
          /\ Then(t, <<Enqueue(TheDevice), [do |-> "switchOff"], Unsubscribe>>)
       \/ /\ endpoint = 0 \/ ~(registered \subseteq {Here(t).w})
          /\ Then(t, <<>>) /\ UNCHANGED faults
    /\ UNCHANGED <<installed, device, wallets, queue, sub, server, ui, dropped>>

SwitchOffStep(t) ==
    /\ At(t, "switchOff")
    /\ SwitchOff /\ Then(t, <<>>)
    /\ UNCHANGED <<installed, unsupported, wallets, queue, sub, server, ui, faults, dropped>>

UnsubscribeStep(t) ==
    /\ At(t, "unsubscribe")
    /\ \/ sub' = 0 /\ UNCHANGED faults
       \/ Fault /\ UNCHANGED sub
    /\ Then(t, <<>>)
    /\ UNCHANGED <<installed, device, wallets, queue, server, ui, dropped>>

\* The page removes the wallet once the worker has answered.
Uninstall(t) ==
    /\ At(t, "uninstall")
    /\ installed' = installed \ {Here(t).w}
    /\ Then(t, <<>>)
    /\ UNCHANGED <<device, wallets, queue, sub, server, ui, faults, dropped>>

(***************************************************************************)
(* reassert and reconcile.                                                  *)
(***************************************************************************)
\* GET /device first; a target the server marked invalid gets a new subscription.
CheckDevice(t) ==
    /\ At(t, "check")
    /\ \/ /\ ~known /\ Then(t, <<Register(FALSE), Reconcile({}, "keep"), Flush>>)
          /\ UNCHANGED <<status, faults, unsupported>>
       \/ /\ known /\ target \in dead /\ status' = "invalid"
          /\ Then(t, <<Register(TRUE), Get(FALSE, FALSE), Flush>>)
          /\ UNCHANGED <<faults, unsupported>>
       \/ /\ known /\ target \notin dead
          /\ Then(t, <<[do |-> "config"],
                       [do |-> "compare", endpoint |-> Here(t).endpoint, links |-> links,
                        status |-> IF target = 0 THEN "none" ELSE "active"]>>)
          /\ UNCHANGED <<status, faults, unsupported>>
       \/ Refused /\ Throw(t) /\ UNCHANGED status
    /\ UNCHANGED <<installed, on, endpoint, wallets, queue, sub, server, ui, dropped>>

\* The subscription is gone or has drifted; or (Fault) it expires soon or has another key.
Renew(t) ==
    /\ At(t, "compare")
    /\ \/ (sub = 0 \/ sub # Here(t).endpoint) /\ UNCHANGED faults
       \/ sub # 0 /\ sub = Here(t).endpoint /\ Fault
    /\ Then(t, <<Register(sub # 0), Get(FALSE, TRUE), Flush>>)
    /\ UNCHANGED <<installed, device, wallets, queue, sub, server, ui, dropped>>

Unchanged(t) == At(t, "compare") /\ sub # 0 /\ sub = Here(t).endpoint

\* What was sent has changed, or reassertAfterMs have passed since.
Resend(t) ==
    /\ Unchanged(t) /\ Then(t, <<PutDevice(sub, 1, "resend"), Flush>>)
    /\ UNCHANGED <<installed, device, wallets, queue, sub, server, ui, faults, dropped>>

Keep(t) ==
    /\ Unchanged(t) /\ Then(t, <<Reconcile(Here(t).links, Here(t).status), Flush>>)
    /\ UNCHANGED <<installed, device, wallets, queue, sub, server, ui, faults, dropped>>

\* GET /device after a registration; setBrowserEnabled goes on without its answer.
GetDevice(t) ==
    LET s == Here(t) IN
    /\ At(t, "get")
    /\ \/ /\ known
          /\ Then(t, <<Reconcile(links, IF ~s.sets THEN "keep"
                                        ELSE IF target = 0 THEN "none" ELSE "active")>>)
          /\ UNCHANGED <<faults, unsupported>>
       \/ /\ \/ ~known /\ UNCHANGED <<faults, unsupported>>
             \/ known /\ Refused
          /\ IF s.lenient THEN Then(t, <<Reconcile({}, "keep")>>) ELSE Throw(t)
    /\ UNCHANGED <<installed, on, endpoint, status, wallets, queue, sub, server, ui, dropped>>

ToPutMutant(there, grown) == grown    \* mutant: a link the server lacks is left to the user
ToPut(there, grown) ==
    grown \union {w \in registered \intersect installed : <<w, tag[w]>> \notin there}

\* The links of wallets that are gone are queued; those the server lacks, or of the open
\* wallet when its credentials have grown (`grown`), are put again.  If the entries cannot be
\* read, every link is of a wallet that is gone.
ReconcileStep(t) ==
    LET s == Here(t)
        gone == {l \in s.links : l \notin Local \/ l[1] \notin installed}
        Tags(W) == {<<w, tag[w]>> : w \in W} IN
    /\ At(t, "reconcile")
    /\ \/ /\ \E grown \in {{}} \union {{w} : w \in registered \intersect installed} :
                Then(t, Each(gone \ Local, gone \intersect Local, {})
                        \o Each({}, Tags(registered \ installed), Tags(ToPut(s.links, grown))))
          /\ UNCHANGED faults
       \/ Local # {} /\ Fault /\ Then(t, Each(s.links, {}, {}))
    /\ status' = IF s.status = "keep" THEN status ELSE s.status
    /\ UNCHANGED <<installed, on, endpoint, unsupported, wallets, queue, sub, server, ui, dropped>>

\* The body of its loops, over the entries as they were read before the first await.
ForEach(t) ==
    LET s == Here(t) IN
    /\ At(t, "each")
    /\ \/ \E l \in s.queue :
             Then(t, <<Enqueue(l)>> \o Each(s.queue \ {l}, s.unlink, s.link))
       \/ \E l \in s.unlink :
             Then(t, Unlink(l) \o Each(s.queue, s.unlink \ {l}, s.link))
       \/ \E l \in s.link :
             Then(t, <<Link(l[1], l[2], 0)>> \o Each(s.queue, s.unlink, s.link \ {l}))
    /\ UNCHANGED <<installed, device, wallets, queue, sub, server, ui, faults, dropped>>

(***************************************************************************)
(* The world.                                                               *)
(***************************************************************************)
\* The page may go on removing a wallet although the worker never answered.
WorkerKilled ==
    /\ Fault
    /\ \E t \in Thread : ops[t].todo # <<>>
    /\ ops' = [t \in Thread |-> Idle]
    /\ \/ UNCHANGED installed
       \/ \E t \in Thread :
             /\ ops[t].todo # <<>> /\ ops[t].kind = "remove"
             /\ installed' = installed \ {Last(ops[t].todo).w}
    /\ UNCHANGED <<device, wallets, queue, sub, server, ui, dropped>>

ServerForgets ==
    /\ Fault /\ known /\ NoDevice
    /\ UNCHANGED <<installed, device, wallets, queue, sub, ops, ui, dropped>>

\* The push service answers that the endpoint is gone (bound: one to hand out is left).
TargetDies ==
    /\ Fault /\ target \in Endpoints \ dead /\ Cardinality(dead) < MaxEndpoint - 3
    /\ dead' = dead \union {target}
    /\ UNCHANGED <<installed, device, wallets, queue, sub, known, target, links, ops, ui, dropped>>

SubscriptionLost ==
    /\ Fault /\ sub # 0
    /\ sub' = 0
    /\ UNCHANGED <<installed, device, wallets, queue, server, ops, ui, dropped>>

Step(t) ==
    \/ RegisterDevice(t) \/ Drained(t) \/ UsableConfig(t) \/ Subscribe(t)
    \/ FreshSubscription(t) \/ PutDeviceStep(t) \/ SaveDevice(t) \/ SwitchBack(t)
    \/ FlushPendingDeletes(t) \/ Delete(t) \/ SetQueue(t) \/ EnqueueDelete(t)
    \/ ForgetWallet(t) \/ ChooseTag(t) \/ PutWalletLink(t) \/ SetWallet(t) \/ Prefs(t)
    \/ LastOne(t) \/ SwitchOffStep(t) \/ UnsubscribeStep(t) \/ Uninstall(t)
    \/ CheckDevice(t) \/ Renew(t) \/ Resend(t) \/ Keep(t) \/ GetDevice(t)
    \/ ReconcileStep(t) \/ ForEach(t)

Starts(t) ==
    \/ SetOn(t) \/ SetOff(t)
    \/ \E w \in Wallet :
          \/ EnableWallet(t, w) \/ DisableWallet(t, w) \/ WalletRemoved(t, w)
          \/ SetPrefs(t, w) \/ CredentialsChanged(t, w)

\* Those under way when the switch goes off, but the one that turns it off.
Late == {t \in Thread : /\ ops'[t].todo # <<>>
                        /\ t \in late \/ (on /\ ~on' /\ ops'[t] = ops[t])}

Next ==
    /\ \/ \E t \in Thread : Starts(t) \/ Reassert(t) \/ Step(t)
       \/ WorkerKilled \/ ServerForgets \/ TargetDies \/ SubscriptionLost
    /\ late' = Late

Spec == Init /\ [][Next]_vars

\* A running operation goes on; a daily alarm starts reassert; of the reasserts that find the
\* target unchanged, one comes when the last PUT is old enough to be sent again.
FairSpec ==
    /\ Spec
    /\ \A t \in Thread : WF_state(Step(t)) /\ SF_state(Resend(t))
    /\ WF_state(\E t \in Thread : Reassert(t))

(***************************************************************************)
(* Properties.                                                              *)
(***************************************************************************)
\* The device never loses track of a link: each one the server holds has its tag in the
\* wallet's entry or in the queue of DELETEs, whatever the worker was doing when it was
\* killed and whichever answers were lost; unless its DELETE was given up on a 4xx, or a
\* failed storage call lost its DELETE or its entry.
\* Not where a reconcile overlaps an operation of the user (README, Disagreements).
NoOrphan == links \subseteq Local \union ToSet(queue) \union dropped

\* F7: with the switch off nothing subscribes and no webpush target goes to the server: not
\* by an operation that begins then, nor by one that turned it off itself.  The switch is
\* read once, before the awaits of a registration: one that was under way when another
\* operation turned it off goes on (README, Disagreements).
OptedOut ==
    [][ ~on => \/ sub' \in {0, sub} /\ target' \in {0, target}
               \/ \E t \in late : ops'[t] # ops[t] ]_vars

\* The DELETEs are done or given up in the end, unless the server has refused the protocol.
QueueDrains == []<>(queue = <<>> \/ unsupported)

\* When nothing goes wrong any more, the switch is on and the server speaks the protocol, it
\* comes to hold the links of the registered wallets, none of a wallet that is gone, and the
\* subscription.
Agrees ==
    on /\ ~unsupported =>
          /\ \A w \in registered \intersect installed : <<w, tag[w]>> \in links
          /\ \A l \in links : l \in Local /\ l[1] \in installed
          /\ sub # 0 /\ target = sub /\ endpoint = sub
Heals == <>[]Agrees

\* Not kept by the code (README, Disagreements): no run checks it.
\* A DELETE is queued durably before the entry goes.
Durable == dropped = {}

=============================================================================
