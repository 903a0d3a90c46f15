------------------------------ MODULE SyncSocket ------------------------------
(***************************************************************************)
(* The sync websocket of a Cardano wallet (websocket.service.ts) with the  *)
(* login, the logout and the resyncs that drive it, and the rows its frames *)
(* are written to (sync.service.ts, walletBg.ts).                           *)
(*                                                                         *)
(* A SUBSCRIBE names the last block the socket believes applied.  gero-sync *)
(* answers with one SYNC a block it lacks and then CATCH_UP_COMPLETE (from  *)
(* nothing) or SYNC_CHECK_OK with addresses (from a block); later blocks    *)
(* come as SYNC, a keep-alive as SYNC_CHECK_OK.  waitForSync collects SYNCs *)
(* and the complete frame applies them at once.  Frames are gzipped: each is *)
(* inflated on its own, so they are handled in any order, also after the     *)
(* socket they came from is gone.  A frame still on the wire is one that is  *)
(* being inflated, or, when the socket is lost, one that was never sent.     *)
(* onSync applies are serialised by tipMutex; the rows and the checkpoint    *)
(* are two writes that run in parallel.                                      *)
(*                                                                         *)
(* A block is its height and holds one transaction of the wallet.           *)
(* Rollbacks, failed writes and the mutex's own timeout are left out.        *)
(***************************************************************************)
EXTENDS Naturals, Sequences, FiniteSets, SequencesExt

CONSTANTS
    MaxBlock,    \* bound: blocks the chain grows to
    MaxResyncs,  \* bound: resyncs asked for by the user or by the server, in a
                 \* behaviour without breaks
    MaxBreaks,   \* bound: sockets lost, logouts and killed workers together
    MaxInFlight  \* bound: frames being inflated at once, no two of them equal

ASSUME BoundsAssumption ==
    /\ MaxBlock \in Nat /\ MaxResyncs \in Nat /\ MaxBreaks \in Nat
    /\ MaxInFlight \in Nat \ {0}

VARIABLES
    tip, serve,                  \* gero-sync: chain, what it answers
    open, inflating,             \* the socket, the frames sent and not handled
    lastSynced, catching, batches, tipCache,    \* fields of WebSocketService
    waits, current,              \* waitForSync calls, the one syncResolve answers
    applying, rows, checkpoint,  \* onSync under tipMutex, transactions table, sync table
    login, resync,               \* loginWallet, a resync: where it is
    resyncs, breaks, clean       \* bounds; ghost: nothing cut a catch-up short

server == <<tip, serve>>
fields == <<lastSynced, catching, batches, tipCache>>
waiting == <<waits, current>>
disk   == <<rows, checkpoint>>
counts == <<resyncs, breaks, clean>>
vars   == <<server, open, inflating, fields, waiting, applying, disk, login, resync, counts>>

Blocks  == 1..MaxBlock
Heights == 0..MaxBlock
Frames  == [type : {"SYNC", "CATCH_UP_COMPLETE", "SYNC_CHECK_OK", "FORCE_RESYNC"},
            block : Heights]
Waiters == {"login", "resync"}
NoRow   == MaxBlock + 1                    \* a write of the checkpoint that is done or not asked
Apply   == [txs : SUBSET Blocks, row : Heights \cup {NoRow}]

TypeOK ==
    /\ tip \in Heights
    /\ serve \in [at : Heights, phase : {"none", "history", "gap", "live"}]
    /\ inflating \subseteq Frames
    /\ open \in BOOLEAN
    /\ lastSynced \in Heights /\ catching \in BOOLEAN
    /\ batches \in Seq(Blocks) /\ tipCache \subseteq Blocks
    /\ waits \in [Waiters -> {"idle", "open"}] /\ current \in Waiters \cup {"none"}
    /\ applying \in Seq(Apply)
    /\ rows \subseteq Blocks /\ checkpoint \in Heights
    /\ login \in {"out", "restoring", "in"}
    /\ resync \in {"idle", "clearRow", "clearTxs", "cleared", "waiting"}
    /\ resyncs \in 0..MaxResyncs /\ breaks \in 0..MaxBreaks /\ clean \in BOOLEAN

MayBreak  == breaks < MaxBreaks /\ resyncs = 0
MayResync == resyncs < MaxResyncs /\ breaks = 0

Nothing == [at |-> 0, phase |-> "none"]

(* The worker starts: nothing in memory, any history on disk. *)
Init ==
    /\ tip \in Heights /\ checkpoint \in 0..tip /\ rows = 1..checkpoint
    /\ serve = Nothing
    /\ open = FALSE /\ inflating = {}
    /\ lastSynced = 0 /\ catching = FALSE /\ batches = <<>> /\ tipCache = {}
    /\ waits = [w \in Waiters |-> "idle"] /\ current = "none"
    /\ applying = <<>>
    /\ login = "out" /\ resync = "idle"
    /\ resyncs = 0 /\ breaks = 0 /\ clean = TRUE

-----------------------------------------------------------------------------
(* gero-sync. *)

Mint ==
    /\ tip < MaxBlock
    /\ tip' = tip + 1
    /\ UNCHANGED <<serve, open, inflating, fields, waiting, applying, disk,
                   login, resync, counts>>

(* It reads a SUBSCRIBE: one sent later replaces what it was answering. *)
Subscribe(from) ==
    serve' = [at |-> from, phase |-> IF from = 0 THEN "history" ELSE "gap"]

Frame(type, block) == [type |-> type, block |-> block]
Send(f) ==
    /\ f \notin inflating /\ Cardinality(inflating) < MaxInFlight
    /\ inflating' = inflating \cup {f}

(* The next block of a catch-up, of a gap, or just minted. *)
SendBlock ==
    /\ open /\ serve.phase # "none" /\ serve.at < tip
    /\ serve' = [serve EXCEPT !.at = @ + 1]
    /\ Send(Frame("SYNC", serve.at + 1))
    /\ UNCHANGED <<tip, open, fields, waiting, applying, disk, login, resync, counts>>

(* Every block sent: the answer.  A wallet without history is only checked. *)
SendAnswer ==
    /\ open /\ serve.phase \in {"history", "gap"} /\ serve.at = tip
    /\ serve' = [serve EXCEPT !.phase = "live"]
    /\ Send(Frame(IF serve.phase = "history" /\ tip > 0 THEN "CATCH_UP_COMPLETE" ELSE "SYNC_CHECK_OK",
                  tip))
    /\ UNCHANGED <<tip, open, fields, waiting, applying, disk, login, resync, counts>>

(* startSyncCheck's SYNC_CHECK carries lastSyncedBlock; the reply, on a quiet socket. *)
KeepAlive ==
    /\ open /\ serve.phase = "live" /\ serve.at = tip /\ lastSynced = tip
    /\ inflating = {} /\ applying = <<>> /\ resync = "idle"
    /\ Send(Frame("SYNC_CHECK_OK", tip))
    /\ UNCHANGED <<server, open, fields, waiting, applying, disk, login, resync, counts>>

AdminResync ==
    /\ open /\ serve.phase = "live" /\ MayResync /\ resync = "idle"
    /\ Send(Frame("FORCE_RESYNC", 0))
    /\ UNCHANGED <<server, open, fields, waiting, applying, disk, login, resync, counts>>

-----------------------------------------------------------------------------
(* The socket. *)

(* openConnection, onopen: SUBSCRIBE with what is believed applied. *)
Open ==
    /\ login # "out" /\ ~open
    /\ open' = TRUE
    /\ Subscribe(lastSynced)
    /\ UNCHANGED <<tip, inflating, fields, waiting, applying, disk, login,
                   resync, counts>>

(* onclose.  What was received before is still inflated and handled. *)
Drop ==
    /\ open /\ MayBreak
    /\ open' = FALSE
    /\ serve' = Nothing
    /\ breaks' = breaks + 1
    /\ UNCHANGED <<tip, inflating, fields, waiting, applying, disk, login, resync, resyncs,
                   clean>>

(* handlers are empty between close() and connect(). *)
OnSync(txs, row) ==
    applying' = IF login = "out" THEN applying ELSE Append(applying, [txs |-> txs, row |-> row])

(* syncResolve() and syncResolve = null. *)
ResolveMutant ==                           \* mutant: cleared and not called
    /\ UNCHANGED waits
    /\ current' = "none"
Resolve ==
    /\ waits' = [w \in Waiters |-> IF w = current THEN "idle" ELSE waits[w]]
    /\ current' = "none"

Held    == ToSet(batches)
InQueue == UNION {a.txs : a \in ToSet(applying)}

HandleSync(f) ==
    /\ f.type = "SYNC"
    /\ \/ /\ catching
          /\ batches' = Append(batches, f.block)
          /\ UNCHANGED <<lastSynced, tipCache, applying, clean>>
       \/ /\ ~catching /\ f.block \in tipCache
          /\ clean' = (clean /\ f.block \in rows \cup InQueue)
          /\ UNCHANGED <<lastSynced, tipCache, batches, applying>>
       \/ /\ ~catching /\ f.block \notin tipCache
          /\ tipCache' = tipCache \cup {f.block}
          /\ lastSynced' = f.block
          /\ OnSync({f.block}, f.block)
          /\ UNCHANGED <<batches, clean>>
    /\ UNCHANGED <<catching, waiting, resync, resyncs>>

CombinedMutant(block) == {block}           \* mutant: the held batches are not combined
Combined(block) == Held
HandleComplete(f) ==
    /\ f.type = "CATCH_UP_COMPLETE"
    /\ lastSynced' = f.block
    /\ OnSync(Combined(f.block), f.block)
    /\ batches' = <<>>
    /\ catching' = FALSE
    /\ Resolve
    /\ UNCHANGED <<tipCache, resync, resyncs, clean>>

(* The block goes to the checkpoint alone; catchingUp is left as it is. *)
HandleCheck(f) ==
    /\ f.type = "SYNC_CHECK_OK"
    /\ IF f.block = 0 THEN UNCHANGED applying ELSE OnSync({}, f.block)
    /\ Resolve
    /\ UNCHANGED <<fields, resync, resyncs, clean>>

(* FORCE_RESYNC: the checkpoint first, then the handler of loginWallet. *)
HandleForce(f) ==
    /\ f.type = "FORCE_RESYNC"
    /\ lastSynced' = 0
    /\ IF login # "out" /\ resync = "idle" /\ MayResync
       THEN resync' = "clearRow" /\ resyncs' = resyncs + 1
       ELSE UNCHANGED <<resync, resyncs>>
    /\ UNCHANGED <<clean, catching, batches, tipCache, waiting, applying>>

Handle ==
    /\ \E f \in inflating :
        /\ inflating' = inflating \ {f}
        /\ HandleSync(f) \/ HandleComplete(f) \/ HandleCheck(f) \/ HandleForce(f)
    /\ UNCHANGED <<server, open, disk, login, breaks>>

-----------------------------------------------------------------------------
(* waitForSync. *)

WaitForSync(w) ==
    /\ catching' = TRUE
    /\ batches' = <<>>
    /\ waits' = [waits EXCEPT ![w] = "open"]
    /\ current' = w

(* The safety timeout: of the call whose resolve is still the current one. *)
FlushMutant == {}                          \* mutant: the batches of a stalled catch-up are dropped
Flush == Held
WaitTimeout(w) ==
    /\ current = w
    /\ IF batches = <<>> THEN UNCHANGED applying ELSE OnSync(Flush, Last(batches))
    /\ batches' = <<>>
    /\ catching' = FALSE
    /\ Resolve
    /\ UNCHANGED <<server, open, inflating, lastSynced, tipCache, disk, login, resync, counts>>

-----------------------------------------------------------------------------
(* setSync under tipMutex: rows and checkpoint are written in parallel. *)

Written(a) == a.txs = {} /\ a.row = NoRow
Step(a) == applying' = IF Written(a) THEN Tail(applying) ELSE <<a>> \o Tail(applying)

WriteRows ==
    /\ applying # <<>> /\ Head(applying).txs # {}
    /\ rows' = rows \cup Head(applying).txs
    /\ Step([Head(applying) EXCEPT !.txs = {}])
    /\ UNCHANGED <<server, open, inflating, fields, waiting, checkpoint, login, resync, counts>>

WriteCheckpoint ==
    /\ applying # <<>> /\ Head(applying).row # NoRow
    /\ checkpoint' = Head(applying).row
    /\ Step([Head(applying) EXCEPT !.row = NoRow])
    /\ UNCHANGED <<server, open, inflating, fields, waiting, rows, login, resync, counts>>

-----------------------------------------------------------------------------
(* loginWallet, logout, the worker, resyncs. *)

(* A wallet without a checkpoint waits for its history.  connect(checkpoint) comes *)
(* after waitForSync and closes first, so nothing is held back for that wait.      *)
Resume == checkpoint
Login ==
    /\ login = "out"
    /\ lastSynced' = Resume
    /\ tipCache' = {}
    /\ catching' = FALSE /\ batches' = <<>>
    /\ IF checkpoint = 0
       THEN /\ waits' = [waits EXCEPT !["login"] = "open"] /\ current' = "login"
            /\ login' = "restoring"
       ELSE login' = "in" /\ UNCHANGED waiting
    /\ UNCHANGED <<server, open, inflating, applying, disk, resync, counts>>

(* The await of pendingSyncPromise. *)
Restored ==
    /\ login = "restoring" /\ waits["login"] = "idle"
    /\ login' = "in"
    /\ UNCHANGED <<server, open, inflating, fields, waiting, applying, disk, resync, counts>>

(* logout: close().  Frames being inflated and applies under way go on. *)
Logout ==
    /\ login = "in" /\ resync = "idle" /\ MayBreak
    /\ login' = "out"
    /\ open' = FALSE
    /\ serve' = Nothing
    /\ catching' = FALSE /\ batches' = <<>> /\ tipCache' = {}
    /\ breaks' = breaks + 1
    /\ clean' = (clean /\ inflating = {})
    /\ UNCHANGED <<tip, inflating, lastSynced, waiting, applying, disk, resync, resyncs>>

WorkerKilled ==
    /\ MayBreak
    /\ login' = "out" /\ resync' = "idle"
    /\ open' = FALSE
    /\ serve' = Nothing /\ inflating' = {}
    /\ lastSynced' = 0 /\ catching' = FALSE /\ batches' = <<>> /\ tipCache' = {}
    /\ waits' = [w \in Waiters |-> "idle"] /\ current' = "none"
    /\ applying' = <<>>
    /\ breaks' = breaks + 1
    /\ clean' = (clean /\ inflating = {} /\ applying = <<>> /\ batches = <<>> /\ resync = "idle")
    /\ UNCHANGED <<tip, disk, resyncs>>

(* resync(): the user's.  It clears the transactions and keeps the checkpoint. *)
Resync ==
    /\ login = "in" /\ open /\ resync = "idle" /\ MayResync
    /\ resync' = "clearTxs"
    /\ resyncs' = resyncs + 1
    /\ UNCHANGED <<server, open, inflating, fields, waiting, applying, disk, login, breaks,
                   clean>>

ClearRow ==
    /\ resync = "clearRow"
    /\ checkpoint' = 0
    /\ resync' = "clearTxs"
    /\ UNCHANGED <<server, open, inflating, fields, waiting, applying, rows, login, counts>>

ClearTxs ==
    /\ resync = "clearTxs"
    /\ rows' = {}
    /\ resync' = "cleared"
    /\ UNCHANGED <<server, open, inflating, fields, waiting, applying, checkpoint, login, counts>>

(* After the last clear: waitForSync and resubscribe(0) without an await. *)
Resubscribe ==
    /\ resync = "cleared"
    /\ resync' = "waiting"
    /\ WaitForSync("resync")
    /\ lastSynced' = 0
    /\ IF open THEN Subscribe(0) ELSE UNCHANGED serve
    /\ clean' = (clean /\ inflating = {})
    /\ UNCHANGED <<tip, open, inflating, tipCache, applying, disk, login, resyncs, breaks>>

ResyncDone ==
    /\ resync = "waiting" /\ waits["resync"] = "idle"
    /\ resync' = "idle"
    /\ UNCHANGED <<server, open, inflating, fields, waiting, applying, disk, login, counts>>

Serve == SendBlock \/ SendAnswer
Write == WriteRows \/ WriteCheckpoint
Wallet == Login \/ Restored \/ Logout \/ Resync \/ ClearRow \/ ClearTxs
          \/ Resubscribe \/ ResyncDone

Next == \/ Mint \/ Serve \/ KeepAlive \/ AdminResync
        \/ Open \/ Drop \/ Handle
        \/ \E w \in Waiters : WaitTimeout(w)
        \/ Write \/ Wallet \/ WorkerKilled

Spec == Init /\ [][Next]_vars

(* The reconnect timer, the network and gero-sync while the socket lasts,    *)
(* inflaters, the database, the safety timeout and the awaits that follow.   *)
FairSpec ==
    /\ Spec
    /\ WF_vars(Open) /\ WF_vars(Serve) /\ WF_vars(Handle) /\ WF_vars(Write)
    /\ WF_vars(Login) /\ WF_vars(Restored) /\ WF_vars(ClearRow) /\ WF_vars(ClearTxs)
    /\ WF_vars(Resubscribe)
    /\ \A w \in Waiters : WF_vars(WaitTimeout(w))

-----------------------------------------------------------------------------
SyncsIn(frames) == {f.block : f \in {g \in frames : g.type = "SYNC"}}
Clearing == resync \in {"clearRow", "clearTxs", "cleared"}

(* What the socket tells gero-sync it has, it has: every block up to          *)
(* lastSyncedBlock is written, waits for its write, is held for the catch-up   *)
(* or is being inflated, whatever the order frames were handled in, wherever a *)
(* socket was lost and however a resync's wait ended.  Excepted: a kill with   *)
(* work under way, a logout or a resync with a frame inside an inflater, and a *)
(* resync after which a block is skipped as a duplicate of one it cleared.     *)
BelievedIsKept ==
    clean /\ ~Clearing
        => 1..lastSynced \subseteq rows \cup InQueue \cup Held \cup SyncsIn(inflating)

(* A restore ends, whatever the network and gero-sync do, unless a resync asks *)
(* for a wait of its own meanwhile: that one takes over syncResolve.            *)
RestoreEnds == login = "restoring" ~> (login # "restoring" \/ resyncs > 0)

(* Not kept by the code (README, Disagreements): no run checks it.          *)
(* Frames are held back only while someone waits for the catch-up to end:       *)
(* otherwise a block is applied when it comes (the comment of handleMessage).   *)
HeldOnlyWhileWaiting == catching => current # "none"
Stuck == catching /\ current = "none"

(* Not kept by the code (README, Disagreements): no run checks it.          *)
(* Every wait ends: the safety timeout is there for it (waitForSync's comment).  *)
EveryWaitEnds == \A w \in Waiters : waits[w] = "open" ~> waits[w] = "idle"

(* Not kept by the code (README, Disagreements): no run checks it.          *)
(* A block skipped as a duplicate is one the store holds, or will (the comment at *)
(* the skip).                                                                      *)
DuplicateIsHeld ==
    [][\A b \in tipCache : inflating' = inflating \ {Frame("SYNC", b)} /\ ~catching
         /\ inflating' # inflating => b \in rows \cup InQueue]_vars

(* After the last break a wallet that is not stuck has the whole chain.         *)
Synced == <>[](~clean \/ Stuck \/ rows = 1..tip)

(* Not kept by the code (README, Disagreements): no run checks it.          *)
(* A login finds every transaction up to the checkpoint it subscribes with.     *)
HistoryAtLogin == login = "out" /\ checkpoint > 0 => 1..checkpoint \subseteq rows
=============================================================================
