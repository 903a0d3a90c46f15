----------------------------- MODULE SyncPending -----------------------------
(***************************************************************************)
(* The "checking for new transactions" flag: syncPending of the loading     *)
(* store (loading.ts), armed by every SUBSCRIBE and released by its answer   *)
(* (websocket.service.ts), and the TransactionsLoader whose passes bring the  *)
(* rows to the page (walletLoader.ts).                                        *)
(*                                                                         *)
(* An answer is applied under tipMutex; its commit makes Dexie queue a read   *)
(* on a timer, its settling queues the release on another: the two macrotasks *)
(* run in that order.  The read raises loadingTxs, and a release that finds   *)
(* it raised waits for the latest pass to end (setLoadingTxs).                *)
(*                                                                         *)
(* Rows are a version number: the commits so far, or 0 for a table that was    *)
(* cleared.  A table that an older version of the extension has left rows in   *)
(* is cleared by the pass that finds them, which then asks for a resync.        *)
(*                                                                         *)
(* The arm a socket made last (syncPendingToken) is always the store's         *)
(* generation, so one variable, gen, stands for both.                          *)
(***************************************************************************)
EXTENDS Naturals, Sequences, SequencesExt

CONSTANTS
    MaxArms,   \* bound: SUBSCRIBEs sent
    MaxRows,   \* bound: commits of new rows
    MaxOlder   \* bound: superseded passes still running

ASSUME BoundsAssumption == MaxArms \in Nat /\ MaxRows \in Nat /\ MaxOlder \in Nat

VARIABLES
    open, answers,               \* the socket; SUBSCRIBEs whose answer is still to be handled
    gen, timer, flag, settle,    \* syncPendingGeneration, the backstop's token, syncPending,
                                 \* releaseSyncPendingWhenTxsSettle
    applying, tasks,             \* answers under tipMutex, macrotasks queued
    committed, stored, old,      \* commits so far, rows in the table, old ones among them
    shown,                       \* rows in the wallet store
    subscribed, passes,          \* the loader, its latest pass (0) and those before it
    loadingTxs,
    due, lost                    \* ghosts: rows the waiting release stands for; the newest of
                                 \* those that were cleared or that no pass could put

arm    == <<gen, timer, flag, settle, due>>
loader == <<subscribed, passes, loadingTxs>>
table  == <<committed, stored, old>>
rows   == <<table, shown, lost>>
vars   == <<open, answers, arm, applying, tasks, rows, loader>>

Arms  == 1..MaxArms
Rows  == 0..MaxRows
Job   == [token : Arms, at : {"waiting", "committed"}, rows : Rows]
Task  == [kind : {"read", "release"}, token : 0..MaxArms, rows : Rows]
Pass  == [at : {"none", "reading", "clearing", "resyncing", "resynced", "finishing"},
          rows : Rows, old : BOOLEAN]
pass  == passes[0]

TypeOK ==
    /\ open \in BOOLEAN /\ answers \subseteq Arms
    /\ gen \in 0..MaxArms /\ timer \in 0..MaxArms
    /\ flag \in BOOLEAN /\ settle \in BOOLEAN
    /\ applying \in Seq(Job) /\ tasks \in Seq(Task)
    /\ committed \in Rows /\ stored \in 0..committed /\ old \in BOOLEAN
    /\ shown \in Rows
    /\ subscribed \in BOOLEAN
    /\ passes \in [0..MaxOlder -> Pass]
    /\ loadingTxs \in BOOLEAN
    /\ due \in Rows /\ lost \in Rows

NoPass == [at |-> "none", rows |-> 0, old |-> FALSE]

Init ==
    /\ open = FALSE /\ answers = {}
    /\ gen = 0 /\ timer = 0 /\ flag = FALSE /\ settle = FALSE
    /\ applying = <<>> /\ tasks = <<>>
    /\ committed = 0 /\ stored = 0 /\ old \in BOOLEAN /\ shown = 0
    /\ subscribed = FALSE /\ passes = [i \in 0..MaxOlder |-> NoPass]
    /\ loadingTxs = FALSE
    /\ due = 0 /\ lost = 0

Later(a, b) == IF a >= b THEN a ELSE b

-----------------------------------------------------------------------------
(* The loading store. *)

(* armSyncPending: setSyncPending(true) and the backstop, just before a SUBSCRIBE. *)
Arm ==
    /\ gen < MaxArms
    /\ gen' = gen + 1 /\ timer' = gen + 1
    /\ flag' = TRUE /\ settle' = FALSE /\ due' = 0
    /\ answers' = answers \cup {gen + 1}

(* setSyncPending(false, token), for an answer whose rows are rs. *)
Release(token, rs) ==
    /\ flag' = (flag /\ (token # gen \/ loadingTxs))
    /\ settle' = IF token # gen THEN settle ELSE loadingTxs
    /\ due' = IF token # gen THEN due ELSE IF loadingTxs THEN Later(due, rs) ELSE 0

(* setSyncPending(false): nobody can answer any more. *)
Clear == flag' = FALSE /\ settle' = FALSE /\ due' = 0 /\ timer' = 0 /\ UNCHANGED gen

SetLoadingTxsMutant(value) ==              \* mutant: the waiting release is forgotten
    /\ loadingTxs' = value
    /\ UNCHANGED <<flag, settle, due>>
SetLoadingTxs(value) ==
    /\ loadingTxs' = value
    /\ flag' = (flag /\ (value \/ ~settle))
    /\ settle' = (settle /\ value)
    /\ due' = IF value THEN due ELSE 0

-----------------------------------------------------------------------------
(* The socket. *)

(* onopen.  The loader's subscription was made several awaits before connect(). *)
OnOpen ==
    /\ ~open /\ subscribed
    /\ open' = TRUE
    /\ Arm
    /\ UNCHANGED <<applying, tasks, rows, loader>>

Resubscribe ==
    /\ open
    /\ Arm
    /\ UNCHANGED <<open, applying, tasks, rows, loader>>

(* onclose.  The answers already received are still inflated and handled. *)
OnCloseMutant ==                           \* mutant: the backstop is cleared, the flag is not
    /\ open
    /\ open' = FALSE
    /\ timer' = 0
    /\ answers' = {}
    /\ UNCHANGED <<gen, flag, settle, due, applying, tasks, rows, loader>>
OnClose ==
    /\ open
    /\ open' = FALSE
    /\ Clear
    /\ answers' \in SUBSET answers
    /\ UNCHANGED <<applying, tasks, rows, loader>>

(* A frame with addresses: onSync takes its place in tipMutex's queue. *)
Answered ==
    /\ \E a \in answers : answers' = answers \ {a}
    /\ applying' = Append(applying, [token |-> gen, at |-> "waiting", rows |-> 0])
    /\ UNCHANGED <<open, arm, tasks, rows, loader>>

(* setSync sees an address past its range: it subscribes again and returns. *)
TokenMutant(job) == gen'                   \* mutant: the token is taken when onSync has ended
Token(job) == job.token
Expand ==
    /\ applying # <<>> /\ Head(applying).at = "waiting" /\ open
    /\ Arm
    /\ applying' = Tail(applying)
    /\ tasks' = Append(tasks, [kind |-> "release", token |-> Token(Head(applying)), rows |-> 0])
    /\ UNCHANGED <<open, rows, loader>>

(* Dexie queues the loader's read at the commit; without new rows it does not. *)
Read == [kind |-> "read", token |-> 0, rows |-> 0]

NewRows ==
    /\ committed < MaxRows
    /\ committed' = committed + 1 /\ stored' = committed + 1
    /\ tasks' = Append(tasks, Read)
    /\ UNCHANGED old

Commit ==
    /\ applying # <<>> /\ Head(applying).at = "waiting"
    /\ NewRows \/ UNCHANGED <<table, tasks>>
    /\ applying' = <<[Head(applying) EXCEPT !.at = "committed", !.rows = stored']>>
                      \o Tail(applying)
    /\ UNCHANGED <<open, answers, arm, shown, lost, loader>>

(* clearSyncPendingWhenApplied: the release, one macrotask later. *)
Applied ==
    /\ applying # <<>> /\ Head(applying).at = "committed"
    /\ applying' = Tail(applying)
    /\ tasks' = Append(tasks, [kind |-> "release", token |-> Token(Head(applying)),
                               rows |-> Head(applying).rows])
    /\ UNCHANGED <<open, answers, arm, rows, loader>>

(* A block in real time: rows nobody waits for. *)
RealtimeRows ==
    /\ NewRows
    /\ UNCHANGED <<open, answers, arm, applying, shown, lost, loader>>

(* The table is cleared: what it held is shown no more, until it is fetched again. *)
Emptied ==
    /\ stored' = 0 /\ old' = FALSE /\ lost' = committed
    /\ tasks' = Append(tasks, Read)
    /\ UNCHANGED committed

(* resync: with the socket open it subscribes from block 0 in the turn that ends the   *)
(* clear, before Dexie's read; closed, the rows come over REST.                       *)
ResyncFrom0 ==
    /\ Emptied
    /\ \/ open /\ Arm
       \/ ~(open /\ gen < MaxArms) /\ UNCHANGED <<answers, arm>>     \* bound: MaxArms

Resync ==
    /\ open /\ gen < MaxArms
    /\ ResyncFrom0
    /\ UNCHANGED <<open, applying, shown, loader>>

RunRelease ==
    /\ tasks # <<>> /\ Head(tasks).kind = "release"
    /\ Release(Head(tasks).token, Head(tasks).rows)
    /\ tasks' = Tail(tasks)
    /\ UNCHANGED <<open, answers, gen, timer, applying, rows, loader>>

(* The backstop of the arm, 300 s after its SUBSCRIBE. *)
Backstop ==
    /\ timer # 0
    /\ timer' = 0
    /\ Release(timer, 0)
    /\ UNCHANGED <<open, answers, gen, applying, tasks, rows, loader>>

(* waitForSync's timeout with no batch held. *)
GiveUp ==
    /\ open /\ flag
    /\ Release(gen, 0)
    /\ UNCHANGED <<open, answers, gen, timer, applying, tasks, rows, loader>>

-----------------------------------------------------------------------------
(* TransactionsLoader. *)

(* A pass that was superseded before its rows came is aborted; one that has them *)
(* runs on.                                                                     *)
Supersede(next) ==
    IF pass.at \in {"none", "reading"}
    THEN passes' = [passes EXCEPT ![0] = next]
    ELSE \E i \in 1..MaxOlder :
            /\ passes[i].at = "none"
            /\ passes' = [passes EXCEPT ![0] = next, ![i] = pass]

(* The querier: a new generation, whose read sees what the table holds now.     *)
StartRead ==
    /\ Supersede([at |-> "reading", rows |-> stored, old |-> old])
    /\ SetLoadingTxs(TRUE)

RunRead ==
    /\ tasks # <<>> /\ Head(tasks).kind = "read"
    /\ tasks' = Tail(tasks)
    /\ IF subscribed THEN StartRead ELSE UNCHANGED <<passes, loadingTxs, flag, settle, due>>
    /\ UNCHANGED <<open, answers, gen, timer, applying, rows, subscribed>>

Load ==
    /\ ~subscribed
    /\ subscribed' = TRUE
    /\ StartRead
    /\ UNCHANGED <<open, answers, gen, timer, applying, tasks, rows>>

(* The pass ends; one of an older generation drops nothing.                     *)
SupersededMutant == SetLoadingTxs(FALSE)   \* mutant: the generation is not compared
Superseded == UNCHANGED <<loadingTxs, flag, settle, due>>
Ends(i) ==
    /\ passes' = [passes EXCEPT ![i] = NoPass]
    /\ IF i = 0 THEN SetLoadingTxs(FALSE) ELSE Superseded

GoesOn(i, at, rs) ==
    /\ passes' = [passes EXCEPT ![i] = [at |-> at, rows |-> rs, old |-> FALSE]]
    /\ UNCHANGED <<loadingTxs, flag, settle, due>>

ReadFails ==
    /\ pass.at = "reading" /\ Ends(0)
    /\ lost' = Later(lost, pass.rows)
    /\ UNCHANGED <<open, answers, gen, timer, applying, tasks, table, shown, subscribed>>

(* setTransactions, then the await of setUtxosAndAddresses; or the rows cannot be   *)
(* processed, and the catch empties the store.                                    *)
Puts(i) ==
    \/ /\ shown' = passes[i].rows /\ lost' = Later(lost, shown)
       /\ GoesOn(i, "finishing", 0)
    \/ /\ shown' = 0 /\ lost' = Later(lost, Later(shown, passes[i].rows))
       /\ Ends(i)

PutRows ==
    /\ pass.at = "reading" /\ ~pass.old
    /\ Puts(0)
    /\ UNCHANGED <<open, answers, gen, timer, applying, tasks, table, subscribed>>

(* detectAndHandleOldTransactionFormat: the table is cleared, or else the rows are put. *)
FindOldFormat ==
    /\ pass.at = "reading" /\ pass.old /\ GoesOn(0, "clearing", pass.rows)
    /\ UNCHANGED <<open, answers, gen, timer, applying, tasks, rows, subscribed>>

ClearTable(i) ==
    /\ passes[i].at = "clearing"
    /\ \/ Emptied /\ GoesOn(i, "resyncing", 0) /\ UNCHANGED shown
       \/ Puts(i) /\ UNCHANGED <<tasks, table>>
    /\ UNCHANGED <<open, answers, gen, timer, applying, subscribed>>

TriggerResync(i) ==
    /\ passes[i].at = "resyncing"
    /\ passes' = [passes EXCEPT ![i].at = "resynced"]
    /\ ResyncFrom0 \/ UNCHANGED <<answers, arm, tasks, table, lost>>   \* what fails in it is caught
    /\ UNCHANGED <<open, applying, shown, subscribed, loadingTxs>>

(* The end of a pass, and the early return after a resync: that waits for the network or  *)
(* 1.5 s, the read of the cleared table for a macrotask, so the pass is superseded by then. *)
PassEnds(i) ==
    /\ passes[i].at = "finishing" \/ (passes[i].at = "resynced" /\ i # 0)
    /\ Ends(i)
    /\ UNCHANGED <<open, answers, gen, timer, applying, tasks, rows, subscribed>>

(* logout: close(), the store emptied, unsubscribe().  Applies under way go on. *)
Logout ==
    /\ subscribed
    /\ open' = FALSE
    /\ Clear
    /\ answers' \in SUBSET answers
    /\ subscribed' = FALSE
    /\ Supersede(NoPass)
    /\ loadingTxs' = FALSE
    /\ shown' = 0
    /\ UNCHANGED <<applying, tasks, table, lost>>

Frames == OnOpen \/ Resubscribe \/ OnClose \/ Answered
Apply  == Expand \/ Commit \/ Applied
Tasks  == RunRelease \/ RunRead
Running(i) == ClearTable(i) \/ TriggerResync(i) \/ PassEnds(i)
Results == ReadFails \/ PutRows \/ FindOldFormat

Next == \/ Frames \/ Apply \/ RealtimeRows \/ Resync \/ Tasks \/ Backstop \/ GiveUp
        \/ Load \/ Results \/ Logout
        \/ \E i \in 0..MaxOlder : Running(i)

Spec == Init /\ [][Next]_vars

(* The timers, the macrotask queue and the database: not gero-sync.  A resync ends by   *)
(* the timeout of its wait.                                                            *)
FairSpec ==
    /\ Spec
    /\ WF_vars(Backstop) /\ WF_vars(Tasks) /\ WF_vars(Results)
    /\ \A i \in 0..MaxOlder : WF_vars(Running(i))

-----------------------------------------------------------------------------
(* A raised flag always has someone left to drop it: the backstop of the current *)
(* arm, or the latest pass for a release that waits for it.                      *)
SomeoneReleases == flag => timer = gen \/ (settle /\ loadingTxs /\ pass.at # "none")

(* Only the latest pass holds loadingTxs, and always does.                       *)
RaisedByLatest == loadingTxs <=> pass.at # "none"

(* A flag dropped for an answer has that answer's rows in the store: the release  *)
(* neither overtakes the read its commit caused nor is freed by an older pass.    *)
(* Not rows that were cleared, or that a pass could not put, or took back          *)
(* (DropsWithRows).                                                               *)
ByRelease == tasks # <<>> /\ Head(tasks).kind = "release" /\ tasks' = Tail(tasks)
ByPass    == settle /\ loadingTxs /\ ~loadingTxs' /\ open'
HasRows(rs) == shown' >= rs \/ lost' >= rs
RowsShown ==
    [][flag /\ ~flag'
         => /\ ByRelease => HasRows(Head(tasks).rows)
            /\ ByPass => HasRows(due)]_vars

(* An arm is not dropped for an answer handled before it: one whose handler        *)
(* subscribes again leaves that new arm alone.                                     *)
ArmOutlives ==
    [][\A t \in Arms : gen' = t /\ gen < t 
         => \A release \in ToSet(tasks') \cup ToSet(applying') : release.token < t]_vars

(* Whatever gero-sync does, the indicator does not stay.                            *)
FlagDrops == \A t \in Arms : flag /\ gen = t ~> ~flag \/ gen > t

(* Not kept by the code (README, Disagreements): no run checks it.                  *)
(* The flag is not dropped for an answer whose rows are not in the store.            *)
DropsWithRows ==
    [][flag /\ ~flag'
         => /\ ByRelease => shown' >= Head(tasks).rows
            /\ ByPass => shown' >= due]_vars
=============================================================================
