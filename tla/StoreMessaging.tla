---------------------------- MODULE StoreMessaging ----------------------------
(* The worker's geroStore, the copy a page shows of it, and the record both   *)
(* leave in chrome.storage (chrome/storeMessagingBg.ts,                       *)
(* services/storeMessaging.service.ts, stores/geroStore.ts,                   *)
(* plugins/geroLoader.ts).                                                    *)
(*                                                                            *)
(* The worker fills the store from gero-db by two live queries and broadcasts *)
(* each change over the port of every page. A page that (re)connects          *)
(* subscribes and is sent a snapshot once the wallets have been read. A value *)
(* is the version of the gero-db table it was read from; Unread is the        *)
(* store's default, from before any read.                                     *)
(*                                                                            *)
(* A chunked update is the message its last chunk completes: the chunks of    *)
(* one update are posted together, in order, and a lost port drops the rest.  *)
(* Two subscribe timers of one port are one: the second snapshot repeats the  *)
(* first; two lists a page reads back at one version are one. Left out: the   *)
(* optimistic change a page or the worker shows before its own write to       *)
(* gero-db (setLocale, setWalletListBalances, removeWallet), and the network  *)
(* field, which no table holds.                                               *)
EXTENDS Integers, Sequences, FiniteSets, SequencesExt

CONSTANTS
    NoRecord,     \* no record in chrome.storage yet
    MaxAttempts,  \* maxReconnectAttempts
    MaxWrites,    \* bound: writes to gero-db
    MaxFaults,    \* bound: killed workers, lost ports and connects that throw
    MaxOpens,     \* bound: times the page is opened
    MaxFetched    \* bound: wallet lists the page reads back at a time

ASSUME BoundsAssumption ==
    MaxAttempts \in Nat /\ MaxWrites \in Nat /\ MaxFaults \in Nat
    /\ MaxOpens \in Nat /\ MaxFetched \in Nat

Fields   == {"wallets", "config"}
Unread   == 0
Version  == 0..(MaxWrites + 1)
Defaults == [f \in Fields |-> Unread]
ASSUME RecordAssumption == NoRecord \notin [Fields -> Version]

(* What one message carries: some fields of the store. *)
Update == UNION {[S -> Version] : S \in SUBSET Fields}

VARIABLES
    db,         \* the versions of the gero-db tables
    stored,     \* the geroStore record in chrome.storage
    up,         \* the worker runs
    mem,        \* the worker's geroStore
    loaded,     \* the live queries that have emitted; "wallets" is walletsHydrated
    timer,      \* storageWriteTimeout is running
    waiting,    \* a snapshot waits for walletsHydratedPromise
    link,       \* the port between the page and the worker
    toPage,     \* updates posted on it
    asked,      \* a STORE_SUBSCRIBE on it
    open,       \* the page is open
    view,       \* the page's geroStore
    delivered,  \* deliveredFields
    reading,    \* the page's chrome.storage read has not called back
    fetched,    \* wallet lists the page has read back and not yet shown
    subscribing,\* the timer that sends STORE_SUBSCRIBE
    retrying,   \* the timer that reconnects
    attempts,   \* reconnectAttempts
    heard,      \* ghost: the wallet list the port brought this page last
    own,        \* ghost: the list shown is one the page read back itself
    faults,     \* how many killed workers, lost ports and failed connects so far
    opens       \* how often the page was opened

workerVars == <<up, mem, loaded, timer, waiting>>
linkVars   == <<link, toPage, asked>>
shownVars  == <<open, view, delivered, reading, fetched, heard, own>>
retryVars  == <<subscribing, retrying, attempts>>
vars == <<db, stored, workerVars, linkVars, shownVars, retryVars, faults, opens>>

Links == {"off",         \* the page has no port
          "connecting",  \* the page has one, the worker's onConnect has not run
          "open",        \* the port is in connectedPorts
          "lost"}        \* gone, the page's onDisconnect has not run

TypeOK ==
    /\ db \in [Fields -> Version]
    /\ stored \in [Fields -> Version] \cup {NoRecord}
    /\ up \in BOOLEAN
    /\ mem \in [Fields -> Version]
    /\ loaded \subseteq Fields
    /\ timer \in BOOLEAN
    /\ waiting \in BOOLEAN
    /\ link \in Links
    /\ toPage \in Seq(Update)
    /\ asked \in BOOLEAN
    /\ open \in BOOLEAN
    /\ view \in [Fields -> Version]
    /\ delivered \subseteq Fields
    /\ reading \in BOOLEAN
    /\ fetched \subseteq Version
    /\ heard \in Version
    /\ own \in BOOLEAN
    /\ subscribing \in BOOLEAN
    /\ retrying \in BOOLEAN
    /\ attempts \in 0..MaxAttempts
    /\ faults \in 0..MaxFaults
    /\ opens \in 0..MaxOpens

Init ==
    /\ db = [f \in Fields |-> 1]
    /\ stored \in {NoRecord, db}
    /\ up = FALSE /\ mem = Defaults /\ loaded = {} /\ timer = FALSE /\ waiting = FALSE
    /\ link = "off" /\ toPage = <<>> /\ asked = FALSE
    /\ open = FALSE /\ view = Defaults /\ delivered = {} /\ reading = FALSE
    /\ fetched = {} /\ heard = Unread /\ own = FALSE
    /\ subscribing = FALSE /\ retrying = FALSE /\ attempts = 0
    /\ faults = 0 /\ opens = 0

Fault == faults < MaxFaults /\ faults' = faults + 1

-----------------------------------------------------------------------------
(* gero-db: a wallet added or renamed, a setting changed, by any context. *)
DbWrite(f) ==
    /\ db[f] <= MaxWrites
    /\ db' = [db EXCEPT ![f] = @ + 1]
    /\ UNCHANGED <<stored, workerVars, linkVars, shownVars, retryVars, faults, opens>>

-----------------------------------------------------------------------------
(* The worker. Any event starts it: an alarm, a page that connects.         *)
Start ==
    /\ ~up
    /\ up' = TRUE
    /\ UNCHANGED <<db, stored, mem, loaded, timer, waiting, linkVars, shownVars, retryVars, faults, opens>>

(* Memory and ports go; a page may still handle what had reached it. *)
CutLink ==
    /\ link' = IF link \in {"connecting", "open"} THEN "lost" ELSE link
    /\ \E k \in 0..Len(toPage) : toPage' = SubSeq(toPage, 1, k)
    /\ asked' = FALSE

Killed ==
    /\ up /\ Fault
    /\ up' = FALSE /\ mem' = Defaults /\ loaded' = {} /\ timer' = FALSE /\ waiting' = FALSE
    /\ CutLink
    /\ UNCHANGED <<db, stored, shownVars, retryVars, opens>>

(* A port in connectedPorts gets every broadcast, subscribed or not. *)
Posted(updates) == IF link = "open" THEN toPage \o updates ELSE toPage

Broadcast(s, f) == <<[g \in {f} |-> s[f]]>>
Snapshot(s) == <<s>>

(* Mutant of Persist: the record is written before the wallets are read. *)
PersistMutant(s, hydrated, immediate) ==
    /\ stored' = IF immediate THEN s ELSE stored
    /\ timer' = ~immediate

(* broadcastFromBackground's second half: nothing before the wallets have   *)
(* been read, then at once or after the debounce, always the whole store.   *)
Persist(s, hydrated, immediate) ==
    /\ stored' = IF hydrated /\ immediate THEN s ELSE stored
    /\ timer' = IF ~hydrated THEN timer ELSE ~immediate

(* Mutant of SetWallets: walletsHydrated is set after the broadcast. *)
SetWalletsMutant ==
    /\ up
    /\ "wallets" \notin loaded \/ mem["wallets"] # db["wallets"]
    /\ mem' = [mem EXCEPT !["wallets"] = db["wallets"]]
    /\ loaded' = loaded \cup {"wallets"}
    /\ Persist(mem', "wallets" \in loaded, FALSE)
    /\ toPage' = Posted(Broadcast(mem', "wallets") \o IF waiting THEN Snapshot(mem') ELSE <<>>)
    /\ waiting' = FALSE
    /\ UNCHANGED <<db, up, link, asked, shownVars, retryVars, faults, opens>>

(* The wallets query emits. The first emission is the store's hydration: it *)
(* is written at once, with any config that arrived before it, and releases *)
(* the snapshots that waited, after its own broadcast.                      *)
SetWallets ==
    /\ up
    /\ "wallets" \notin loaded \/ mem["wallets"] # db["wallets"]
    /\ mem' = [mem EXCEPT !["wallets"] = db["wallets"]]
    /\ loaded' = loaded \cup {"wallets"}
    /\ Persist(mem', TRUE, "wallets" \notin loaded)
    /\ toPage' = Posted(Broadcast(mem', "wallets") \o IF waiting THEN Snapshot(mem') ELSE <<>>)
    /\ waiting' = FALSE
    /\ UNCHANGED <<db, up, link, asked, shownVars, retryVars, faults, opens>>

(* The config query emits: broadcast only if something changed. A config    *)
(* always holds a locale, so it is written at once.                         *)
SetConfig ==
    /\ up
    /\ "config" \notin loaded \/ mem["config"] # db["config"]
    /\ loaded' = loaded \cup {"config"}
    /\ mem' = [mem EXCEPT !["config"] = db["config"]]
    /\ IF mem' # mem
       THEN /\ toPage' = Posted(Broadcast(mem', "config"))
            /\ Persist(mem', "wallets" \in loaded, TRUE)
       ELSE UNCHANGED <<stored, timer, toPage>>
    /\ UNCHANGED <<db, up, waiting, link, asked, shownVars, retryVars, faults, opens>>

(* storageWriteTimeout *)
WriteLater ==
    /\ timer
    /\ timer' = FALSE
    /\ stored' = mem
    /\ UNCHANGED <<db, up, mem, loaded, waiting, linkVars, shownVars, retryVars, faults, opens>>

(* onConnect *)
Accept ==
    /\ up /\ link = "connecting"
    /\ link' = "open"
    /\ UNCHANGED <<db, stored, workerVars, toPage, asked, shownVars, retryVars, faults, opens>>

(* Mutants of HandleSubscribe: a snapshot that does not wait for the        *)
(* wallets, and none at all.                                                *)
SnapshotAtOnce ==
    /\ up /\ link = "open" /\ asked
    /\ asked' = FALSE
    /\ toPage' = Posted(Snapshot(mem))
    /\ UNCHANGED <<db, stored, workerVars, link, shownVars, retryVars, faults, opens>>
SubscribeOnly ==
    /\ up /\ link = "open" /\ asked
    /\ asked' = FALSE
    /\ UNCHANGED <<db, stored, workerVars, link, toPage, shownVars, retryVars, faults, opens>>

(* handleSubscription, sendSnapshot *)
HandleSubscribe ==
    /\ up /\ link = "open" /\ asked
    /\ asked' = FALSE
    /\ IF "wallets" \in loaded
       THEN toPage' = Posted(Snapshot(mem)) /\ UNCHANGED waiting
       ELSE waiting' = TRUE /\ UNCHANGED toPage
    /\ UNCHANGED <<db, stored, up, mem, loaded, timer, link, shownVars, retryVars, faults, opens>>

-----------------------------------------------------------------------------
(* The page. *)
ScheduleReconnect(tried) ==
    IF tried >= MaxAttempts
    THEN attempts' = tried /\ retrying' = FALSE
    ELSE attempts' = tried + 1 /\ retrying' = TRUE

(* connect(): chrome.runtime.connect returns a port or throws. The first    *)
(* connect of a page has nothing to subscribe to yet: subscribe's own timer *)
(* sends it.                                                                *)
ConnectOk ==
    /\ link' = "connecting" /\ toPage' = <<>> /\ asked' = FALSE
    /\ attempts' = 0
    /\ subscribing' = TRUE
    /\ UNCHANGED faults
ConnectThrows == Fault /\ UNCHANGED linkVars

(* The page loads: it connects, subscribes, and reads chrome.storage. *)
Open ==
    /\ ~open /\ opens < MaxOpens
    /\ opens' = opens + 1
    /\ open' = TRUE /\ reading' = TRUE
    /\ UNCHANGED <<view, delivered, fetched, heard, own>>
    /\ \/ ConnectOk /\ retrying' = FALSE
       \/ ConnectThrows /\ ScheduleReconnect(0) /\ subscribing' = TRUE
    /\ UNCHANGED <<db, stored, workerVars>>

Close ==
    /\ open
    /\ open' = FALSE /\ view' = Defaults /\ delivered' = {} /\ reading' = FALSE
    /\ fetched' = {} /\ heard' = Unread /\ own' = FALSE
    /\ link' = "off" /\ toPage' = <<>> /\ asked' = FALSE /\ waiting' = FALSE
    /\ subscribing' = FALSE /\ retrying' = FALSE /\ attempts' = 0
    /\ UNCHANGED <<db, stored, up, mem, loaded, timer, faults, opens>>

(* Mutant of ReadStored: the record overwrites what the port delivered. *)
ReadStoredMutant ==
    /\ reading
    /\ reading' = FALSE
    /\ view' = IF stored = NoRecord THEN view ELSE stored
    /\ own' = (own /\ stored = NoRecord)
    /\ UNCHANGED <<db, stored, workerVars, linkVars, open, delivered, fetched, heard, retryVars, faults, opens>>

(* chrome.storage.local.get calls back: the port's fields are not overwritten. *)
ReadStored ==
    /\ reading
    /\ reading' = FALSE
    /\ view' = IF stored = NoRecord THEN view
               ELSE [f \in Fields |-> IF f \in delivered THEN view[f] ELSE stored[f]]
    /\ own' = (own /\ (stored = NoRecord \/ "wallets" \in delivered))
    /\ UNCHANGED <<db, stored, workerVars, linkVars, open, delivered, fetched, heard, retryVars, faults, opens>>

(* setWalletName, setWalletIcon, createNewWallet, addAccounts and the like,  *)
(* which only pages call: after its write the page reads the list back.     *)
FetchWallets ==
    /\ open /\ Cardinality(fetched) < MaxFetched
    /\ fetched' = fetched \cup {db["wallets"]}
    /\ UNCHANGED <<db, stored, workerVars, linkVars, open, view, delivered, reading, heard, own, retryVars, faults, opens>>

(* The read is answered: the page shows what it read, whatever the port has *)
(* brought since. In a page broadcastFromBackground does nothing.           *)
AssignWallets ==
    /\ \E v \in fetched :
         view' = [view EXCEPT !["wallets"] = v] /\ fetched' = fetched \ {v}
    /\ own' = TRUE
    /\ UNCHANGED <<db, stored, workerVars, linkVars, open, delivered, reading, heard, retryVars, faults, opens>>

(* subscribe's timer, or connect's: without a port it sends nothing, and on *)
(* one that is gone it throws.                                              *)
SendSubscribe ==
    /\ subscribing
    /\ subscribing' = FALSE
    /\ \/ link = "off" /\ UNCHANGED <<linkVars, retrying, attempts>>
       \/ link \in {"connecting", "open"} /\ asked' = TRUE
          /\ UNCHANGED <<link, toPage, retrying, attempts>>
       \/ link = "lost" /\ link' = "off" /\ toPage' = <<>> /\ UNCHANGED asked
          /\ ScheduleReconnect(attempts)
    /\ UNCHANGED <<db, stored, workerVars, shownVars, faults, opens>>

Deliver ==
    /\ toPage # <<>> /\ link \in {"open", "lost"}
    /\ LET updates == Head(toPage) IN
        /\ view' = [f \in Fields |-> IF f \in DOMAIN updates THEN updates[f] ELSE view[f]]
        /\ delivered' = delivered \cup DOMAIN updates
        /\ heard' = IF "wallets" \in DOMAIN updates THEN updates["wallets"] ELSE heard
        /\ own' = (own /\ "wallets" \notin DOMAIN updates)
    /\ toPage' = Tail(toPage)
    /\ UNCHANGED <<db, stored, workerVars, link, asked, open, reading, fetched, retryVars, faults, opens>>

(* The port goes while both ends live. *)
PortLost ==
    /\ link = "open" /\ Fault
    /\ CutLink
    /\ waiting' = FALSE
    /\ UNCHANGED <<db, stored, up, mem, loaded, timer, shownVars, retryVars, opens>>

OnDisconnect ==
    /\ link = "lost" /\ toPage = <<>>
    /\ link' = "off"
    /\ ScheduleReconnect(attempts)
    /\ UNCHANGED <<db, stored, workerVars, toPage, asked, shownVars, subscribing, faults, opens>>

Reconnect ==
    /\ retrying
    /\ IF link # "off" THEN retrying' = FALSE /\ UNCHANGED <<linkVars, subscribing, attempts, faults>>
       ELSE \/ ConnectOk /\ retrying' = FALSE
            \/ ConnectThrows /\ ScheduleReconnect(attempts) /\ UNCHANGED subscribing
    /\ UNCHANGED <<db, stored, workerVars, shownVars, opens>>

-----------------------------------------------------------------------------
WorkerStep == SetWallets \/ SetConfig \/ WriteLater \/ Accept \/ HandleSubscribe
PageStep   == ReadStored \/ SendSubscribe \/ Deliver \/ OnDisconnect \/ Reconnect

Next ==
    \/ \E f \in Fields : DbWrite(f)
    \/ Start \/ Killed \/ WorkerStep
    \/ Open \/ Close \/ FetchWallets \/ AssignWallets \/ PageStep \/ PortLost

Spec == Init /\ [][Next]_vars

(* Live queries emit, timers fire, messages arrive, and the browser starts  *)
(* the worker for a page that connects. Nothing else starts it.             *)
Fairness ==
    /\ WF_vars(Start /\ link = "connecting")
    /\ WF_vars(SetWallets) /\ WF_vars(SetConfig) /\ WF_vars(WriteLater)
    /\ WF_vars(Accept) /\ WF_vars(HandleSubscribe)
    /\ WF_vars(ReadStored) /\ WF_vars(SendSubscribe) /\ WF_vars(Deliver)
    /\ WF_vars(OnDisconnect) /\ WF_vars(Reconnect)
FairSpec == Spec /\ Fairness

-----------------------------------------------------------------------------
(* A page never takes the store's default wallet list from the port, and    *)
(* the record never holds it: an empty list sends the user to onboarding.   *)
WalletsKnown ==
    /\ stored # NoRecord => stored["wallets"] # Unread
    /\ "wallets" \in delivered => view["wallets"] # Unread

(* In one page's life the list shown is never older than one the port has   *)
(* brought it, from a chrome.storage read that comes late, a message of     *)
(* before or a worker that has just restarted; only a list the page read    *)
(* back itself may be.                                                      *)
NeverOlder ==
    [][open /\ open' /\ "wallets" \in delivered => own' \/ view'["wallets"] >= heard]_vars

(* Nor does the record: a restarted worker does not write over it before it *)
(* has read as much.                                                        *)
RecordNeverOlder ==
    [][stored # NoRecord => stored'["wallets"] >= stored["wallets"]]_vars

(* The connects that could be tried have all thrown: only a new page helps. *)
GaveUp == link = "off" /\ ~retrying /\ attempts = MaxAttempts

(* Whatever was lost while the page had no port, it ends up showing what    *)
(* gero-db holds, without a further change to broadcast it; or the port has *)
(* brought it that list and an older one, read back before, was put over it.*)
PageCatchesUp ==
    <>[](open => \/ GaveUp
                 \/ /\ view["config"] = db["config"]
                    /\ \/ view["wallets"] = db["wallets"]
                       \/ own /\ heard = db["wallets"])

(* What the worker held back or still had on a timer when it was killed is  *)
(* written by the next one.                                                 *)
RecordCatchesUp == <>[](up => stored = db)
-----------------------------------------------------------------------------
(* Not kept. What a page shows never goes back: a broadcast or a snapshot   *)
(* that was posted before takes back what the page has read itself, and a   *)
(* list the page read before takes back a broadcast.                        *)
ShownNeverOlder ==
    [][open /\ open' /\ "wallets" \in delivered => view'["wallets"] >= view["wallets"]]_vars

(* Not kept. The page ends up showing gero-db's list: see AssignWallets.    *)
ShownCatchesUp == <>[](open => GaveUp \/ view = db)
=============================================================================
