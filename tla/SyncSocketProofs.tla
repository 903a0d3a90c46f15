--------------------------- MODULE SyncSocketProofs ---------------------------
(***************************************************************************)
(* That what the socket tells gero-sync it has, it has: BelievedIsKept, for *)
(* a chain of any length and any number of resyncs, breaks and frames.      *)
(*                                                                         *)
(* Everything that may become lastSyncedBlock is a claim: what gero-sync has *)
(* sent, the block of a frame being inflated, and, as long as no resync      *)
(* cleared rows a checkpoint speaks for, the checkpoint and those queued.    *)
(***************************************************************************)
EXTENDS SyncSocket, TLAPS

(* Where a block can be that was sent and not lost. *)
Kept == rows \cup InQueue \cup Held \cup SyncsIn(inflating)

Claims ==
    clean /\ ~Clearing
      => /\ 1..lastSynced \subseteq Kept
         /\ 1..serve.at \subseteq Kept
         /\ \A f \in inflating : 1..f.block \subseteq Kept
         /\ resyncs = 0 => /\ 1..checkpoint \subseteq Kept
                           /\ \A a \in ToSet(applying) : a.row # NoRow => 1..a.row \subseteq Kept

(* A SYNC has a block. *)
SyncHasBlock == \A f \in inflating : f.type = "SYNC" => f.block \in Blocks

(* What a break finds: nothing held back before a resync, nobody logged out   *)
(* with a socket, nor with a frame if nothing was cut short.                  *)
Quiet ==
    /\ ~open => serve = Nothing
    /\ resyncs = 0 => ~catching /\ batches = <<>> /\ resync = "idle"
    /\ login = "out" => ~open /\ resyncs = 0
    /\ login = "out" /\ clean => inflating = {}

IInv == TypeOK /\ SyncHasBlock /\ Quiet /\ Claims

-----------------------------------------------------------------------------
(* Bounds and frames. *)
LEMMA Bounds ==
    /\ MaxBlock \in Nat /\ MaxResyncs \in Nat /\ MaxBreaks \in Nat
    /\ 0 \in Heights /\ Blocks \subseteq Heights /\ Heights \subseteq Nat /\ NoRow \in Nat
    /\ 0 \in 0..MaxResyncs /\ 0 \in 0..MaxBreaks
    /\ Nothing \in [at : Heights, phase : {"none", "history", "gap", "live"}]
  BY BoundsAssumption DEF Heights, Blocks, NoRow, Nothing

LEMMA FrameType ==
  ASSUME NEW type \in {"SYNC", "CATCH_UP_COMPLETE", "SYNC_CHECK_OK", "FORCE_RESYNC"}, NEW b \in Heights
  PROVE  Frame(type, b) \in Frames /\ Frame(type, b).type = type /\ Frame(type, b).block = b
  BY DEF Frame, Frames

(* The queue of applies and the batches, as sets. *)
LEMMA AppendSet ==
  ASSUME NEW S, NEW s \in Seq(S), NEW x \in S
  PROVE  Append(s, x) \in Seq(S) /\ ToSet(Append(s, x)) = ToSet(s) \cup {x}
  <1>1. Append(s, x) \in Seq(S) /\ Len(Append(s, x)) = Len(s) + 1 /\ Append(s, x)[Len(s) + 1] = x
        /\ \A i \in 1..Len(s) : Append(s, x)[i] = s[i]
    OBVIOUS
  <1>2. Len(s) \in Nat /\ DOMAIN s = 1..Len(s) /\ DOMAIN Append(s, x) = 1..(Len(s) + 1)
    BY <1>1
  <1>3. \A i \in 1..(Len(s) + 1) : i \in 1..Len(s) \/ i = Len(s) + 1
    BY <1>2
  <1>4. 1..Len(s) \subseteq 1..(Len(s) + 1) /\ Len(s) + 1 \in 1..(Len(s) + 1)
    BY <1>2
  <1>5. QED
    BY <1>1, <1>2, <1>3, <1>4 DEF ToSet

LEMMA HeadTail ==
  ASSUME NEW S, NEW s \in Seq(S), s # <<>>
  PROVE  /\ Head(s) \in S /\ Tail(s) \in Seq(S)
         /\ ToSet(s) = ToSet(Tail(s)) \cup {Head(s)}
         /\ \A x \in S : <<x>> \o Tail(s) \in Seq(S) /\ ToSet(<<x>> \o Tail(s)) = ToSet(Tail(s)) \cup {x}
  <1>1. Head(s) \in S /\ Tail(s) \in Seq(S) /\ Head(s) = s[1] /\ 1 \in 1..Len(s) /\ Len(Tail(s)) = Len(s) - 1
        /\ Len(s) \in Nat /\ DOMAIN s = 1..Len(s) /\ DOMAIN Tail(s) = 1..(Len(s) - 1)
    OBVIOUS
  <1>2. \A i \in 1..(Len(s) - 1) : i + 1 \in 1..Len(s) /\ Tail(s)[i] = s[i + 1]
    BY <1>1
  <1>3. \A i \in 1..Len(s) : i = 1 \/ (i - 1 \in 1..(Len(s) - 1) /\ Tail(s)[i - 1] = s[i])
    BY <1>1
  <1>4. ToSet(s) = ToSet(Tail(s)) \cup {Head(s)}
    <2>1. ASSUME NEW y \in ToSet(s) PROVE y \in ToSet(Tail(s)) \cup {Head(s)}
      <3>1. PICK i \in 1..Len(s) : y = s[i]
        BY <1>1, <1>2, <1>3 DEF ToSet
      <3>2. CASE i = 1
        BY <1>1, <1>2, <1>3, <3>1, <3>2
      <3>3. CASE i # 1
        BY <1>1, <1>2, <1>3, <3>1, <3>3 DEF ToSet
      <3>4. QED
        BY <3>2, <3>3
    <2>2. ASSUME NEW y \in ToSet(Tail(s)) \cup {Head(s)} PROVE y \in ToSet(s)
      <3>1. CASE y = Head(s)
        BY <1>1, <1>2, <1>3, <3>1 DEF ToSet
      <3>2. CASE y \in ToSet(Tail(s))
        <4>1. PICK i \in 1..(Len(s) - 1) : y = Tail(s)[i]
          BY <1>1, <1>2, <1>3, <3>2 DEF ToSet
        <4>2. QED
          BY <1>1, <1>2, <1>3, <4>1 DEF ToSet
      <3>3. QED
        BY <3>1, <3>2
    <2>3. QED
      BY <2>1, <2>2
  <1>5. ASSUME NEW x \in S
        PROVE  <<x>> \o Tail(s) \in Seq(S) /\ ToSet(<<x>> \o Tail(s)) = ToSet(Tail(s)) \cup {x}
    <2> DEFINE q == <<x>> \o Tail(s)
    <2>1. q \in Seq(S) /\ Len(q) = Len(s) /\ q[1] = x /\ DOMAIN q = 1..Len(s)
      BY <1>1
    <2>2. \A i \in 1..(Len(s) - 1) : i + 1 \in 1..Len(s) /\ Tail(s)[i] = q[i + 1]
      BY <1>1
    <2>3. \A i \in 1..Len(s) : i = 1 \/ (i - 1 \in 1..(Len(s) - 1) /\ Tail(s)[i - 1] = q[i])
      BY <1>1
    <2> HIDE DEF q
    <2>4. ToSet(q) = ToSet(Tail(s)) \cup {x}
      <3>1. ASSUME NEW y \in ToSet(q) PROVE y \in ToSet(Tail(s)) \cup {x}
        <4>1. PICK i \in 1..Len(s) : y = q[i]
          BY <1>1, <2>1, <2>2, <2>3 DEF ToSet
        <4>2. CASE i = 1
          BY <1>1, <2>1, <2>2, <2>3, <4>1, <4>2
        <4>3. CASE i # 1
          BY <1>1, <2>1, <2>2, <2>3, <4>1, <4>3 DEF ToSet
        <4>4. QED
          BY <4>2, <4>3
      <3>2. ASSUME NEW y \in ToSet(Tail(s)) \cup {x} PROVE y \in ToSet(q)
        <4>1. CASE y = x
          BY <1>1, <2>1, <2>2, <2>3, <4>1 DEF ToSet
        <4>2. CASE y \in ToSet(Tail(s))
          <5>1. PICK i \in 1..(Len(s) - 1) : y = Tail(s)[i]
            BY <1>1, <2>1, <2>2, <2>3, <4>2 DEF ToSet
          <5>2. QED
            BY <1>1, <2>1, <2>2, <2>3, <5>1 DEF ToSet
        <4>3. QED
          BY <4>1, <4>2
      <3>3. QED
        BY <3>1, <3>2
    <2>5. QED
      BY <2>1, <2>4 DEF q
  <1>6. QED
    BY <1>1, <1>4, <1>5

LEMMA EmptySet == ToSet(<<>>) = {}
  BY DEF ToSet

(* onSync. *)
LEMMA OnSyncQueue ==
  ASSUME TypeOK, NEW txs \in SUBSET Blocks, NEW row \in Heights \cup {NoRow}, OnSync(txs, row)
  PROVE  /\ applying' \in Seq(Apply)
         /\ ToSet(applying') \subseteq ToSet(applying) \cup {[txs |-> txs, row |-> row]}
         /\ InQueue \subseteq InQueue' /\ (login # "out" => txs \subseteq InQueue')
  <1> DEFINE a == [txs |-> txs, row |-> row]
  <1>1. a \in Apply /\ a.txs = txs
    BY DEF Apply
  <1>2. applying \in Seq(Apply)
    BY DEF TypeOK
  <1>3. applying' = IF login = "out" THEN applying ELSE Append(applying, a)
    BY DEF OnSync
  <1> HIDE DEF a
  <1>4. Append(applying, a) \in Seq(Apply) /\ ToSet(Append(applying, a)) = ToSet(applying) \cup {a}
    BY <1>1, <1>2, AppendSet
  <1>5. CASE login = "out"
    BY <1>2, <1>3, <1>5 DEF InQueue
  <1>6. CASE login # "out"
    <2>1. ToSet(applying') = ToSet(applying) \cup {a} /\ applying' \in Seq(Apply)
      BY <1>3, <1>4, <1>6
    <2>2. QED
      BY <1>1, <2>1 DEF InQueue, a
  <1>7. QED
    BY <1>5, <1>6

-----------------------------------------------------------------------------
(* Every step keeps the types.  A step that calls onSync names what it queues. *)
LEMMA ResolveType == ASSUME TypeOK, Resolve PROVE waits' \in [Waiters -> {"idle", "open"}] /\ current' \in Waiters \cup {"none"}
  BY DEF TypeOK, Resolve

LEMMA SendType == ASSUME TypeOK, NEW f \in Frames, Send(f) PROVE inflating' \subseteq Frames /\ inflating' = inflating \cup {f}
  BY DEF TypeOK, Send

LEMMA HandleType ==
  ASSUME TypeOK, SyncHasBlock, NEW f \in inflating, HandleSync(f) \/ HandleComplete(f) \/ HandleCheck(f) \/ HandleForce(f)
  PROVE  /\ lastSynced' \in Heights /\ catching' \in BOOLEAN /\ batches' \in Seq(Blocks) /\ tipCache' \subseteq Blocks
         /\ waits' \in [Waiters -> {"idle", "open"}] /\ current' \in Waiters \cup {"none"}
         /\ applying' \in Seq(Apply)
         /\ resync' \in {"idle", "clearRow", "clearTxs", "cleared", "waiting"}
         /\ resyncs' \in 0..MaxResyncs /\ clean' \in BOOLEAN
  <1>0. f.block \in Heights
    BY DEF TypeOK, Frames
  <1>1. CASE HandleSync(f)
    <2>1. f.block \in Blocks /\ {f.block} \in SUBSET Blocks
      BY <1>1 DEF HandleSync, SyncHasBlock
    <2>2. Append(batches, f.block) \in Seq(Blocks)
      BY <2>1, AppendSet DEF TypeOK
    <2>3. OnSync({f.block}, f.block) => applying' \in Seq(Apply)
      BY <1>0, <2>1, OnSyncQueue
    <2>4. clean' \in BOOLEAN
      BY <1>1 DEF HandleSync, TypeOK
    <2>5. UNCHANGED <<catching, waits, current, resync, resyncs>>
      BY <1>1 DEF HandleSync, waiting
    <2>6. batches' \in Seq(Blocks) /\ applying' \in Seq(Apply) /\ lastSynced' \in Heights /\ tipCache' \subseteq Blocks
      <3>1. CASE catching
        BY <1>1, <2>2, <3>1 DEF HandleSync, TypeOK
      <3>2. CASE ~catching /\ f.block \in tipCache
        BY <1>1, <3>2 DEF HandleSync, TypeOK
      <3>3. CASE ~catching /\ f.block \notin tipCache
        <4>1. OnSync({f.block}, f.block) /\ UNCHANGED batches /\ lastSynced' = f.block /\ tipCache' = tipCache \cup {f.block}
          BY <1>1, <3>3 DEF HandleSync
        <4>2. QED
          BY <1>0, <2>1, <2>3, <4>1 DEF TypeOK
      <3>4. QED
        BY <3>1, <3>2, <3>3
    <2>7. QED
      BY <2>4, <2>5, <2>6 DEF TypeOK
  <1>2. CASE HandleComplete(f)
    <2>1. Combined(f.block) \in SUBSET Blocks
      BY DEF Combined, Held, TypeOK, ToSet
    <2>2. applying' \in Seq(Apply)
      BY <1>0, <1>2, <2>1, OnSyncQueue DEF HandleComplete
    <2>3. <<>> \in Seq(Blocks)
      OBVIOUS
    <2>4. QED
      BY <1>0, <1>2, <2>2, <2>3, ResolveType DEF HandleComplete, TypeOK
  <1>3. CASE HandleCheck(f)
    <2>1. applying' \in Seq(Apply)
      BY <1>0, <1>3, OnSyncQueue DEF HandleCheck, TypeOK
    <2>2. QED
      BY <1>3, <2>1, ResolveType DEF HandleCheck, TypeOK, fields
  <1>4. CASE HandleForce(f)
    <2>1. MayResync => resyncs + 1 \in 0..MaxResyncs
      BY Bounds DEF MayResync, TypeOK
    <2>2. QED
      BY <1>4, <2>1, Bounds DEF HandleForce, TypeOK, waiting
  <1>5. QED
    BY <1>1, <1>2, <1>3, <1>4

LEMMA TypeStep == ASSUME TypeOK, SyncHasBlock, [Next]_vars PROVE TypeOK'
  <1> USE DEF server, fields, waiting, disk, counts
  <1>1. CASE UNCHANGED vars
    BY <1>1 DEF vars, TypeOK
  <1>2. CASE Mint
    BY <1>2, Bounds DEF Mint, TypeOK, Heights
  <1>3. CASE SendBlock
    <2>1. serve.at + 1 \in Heights /\ serve' \in [at : Heights, phase : {"none", "history", "gap", "live"}]
      BY <1>3, Bounds DEF SendBlock, TypeOK, Heights
    <2>2. inflating' \subseteq Frames
      BY <1>3, <2>1, FrameType, SendType DEF SendBlock
    <2>3. QED
      BY <1>3, <2>1, <2>2 DEF SendBlock, TypeOK
  <1>4. CASE SendAnswer
    <2>1. serve' \in [at : Heights, phase : {"none", "history", "gap", "live"}]
      BY <1>4 DEF SendAnswer, TypeOK
    <2>2. inflating' \subseteq Frames
      BY <1>4, FrameType, SendType DEF SendAnswer, TypeOK
    <2>3. QED
      BY <1>4, <2>1, <2>2 DEF SendAnswer, TypeOK
  <1>5. CASE KeepAlive \/ AdminResync
    <2>1. inflating' \subseteq Frames
      BY <1>5, Bounds, FrameType, SendType DEF KeepAlive, AdminResync, TypeOK
    <2>2. QED
      BY <1>5, <2>1 DEF KeepAlive, AdminResync, TypeOK
  <1>6. CASE Open
    BY <1>6 DEF Open, Subscribe, TypeOK
  <1>7. MayBreak => breaks + 1 \in 0..MaxBreaks
    BY Bounds DEF MayBreak, TypeOK
  <1>8. <<>> \in Seq(Blocks) /\ <<>> \in Seq(Apply)
    OBVIOUS
  <1>9. CASE Drop
    BY <1>7, <1>9, Bounds DEF Drop, TypeOK
  <1>10. CASE Handle
    <2>1. PICK f \in inflating : inflating' = inflating \ {f}
                                 /\ (HandleSync(f) \/ HandleComplete(f) \/ HandleCheck(f) \/ HandleForce(f))
      BY <1>10 DEF Handle
    <2>2. UNCHANGED <<server, open, disk, login, breaks>>
      BY <1>10 DEF Handle
    <2>3. QED
      BY <2>1, <2>2, HandleType DEF TypeOK
  <1>11. ASSUME NEW w \in Waiters, WaitTimeout(w) PROVE TypeOK'
    <2>1. Flush \in SUBSET Blocks
      BY DEF Flush, Held, TypeOK, ToSet
    <2>2. batches # <<>> => Last(batches) \in Heights
      <3>1. batches \in Seq(Blocks)
        BY DEF TypeOK
      <3>2. batches # <<>> => Len(batches) \in 1..Len(batches)
        BY <3>1
      <3>3. batches # <<>> => batches[Len(batches)] \in Blocks
        BY <3>1, <3>2
      <3>4. Last(batches) = batches[Len(batches)]
        BY DEF Last
      <3>5. QED
        BY <3>3, <3>4, Bounds
    <2>3. applying' \in Seq(Apply)
      BY <1>11, <2>1, <2>2, OnSyncQueue DEF WaitTimeout, TypeOK
    <2>4. QED
      BY <1>8, <1>11, <2>3, ResolveType DEF WaitTimeout, TypeOK
  <1>12. CASE WriteRows \/ WriteCheckpoint
    <2>1. Head(applying) \in Apply /\ applying # <<>>
      BY <1>12, HeadTail DEF WriteRows, WriteCheckpoint, TypeOK
    <2>2. [Head(applying) EXCEPT !.txs = {}] \in Apply /\ [Head(applying) EXCEPT !.row = NoRow] \in Apply
      BY <2>1 DEF Apply
    <2>3. \A a \in Apply : Step(a) => applying' \in Seq(Apply)
      BY <2>1, HeadTail DEF Step, TypeOK
    <2>4. rows' \subseteq Blocks /\ checkpoint' \in Heights
      BY <1>12, <2>1 DEF WriteRows, WriteCheckpoint, Apply, TypeOK
    <2>5. applying' \in Seq(Apply)
      BY <1>12, <2>2, <2>3 DEF WriteRows, WriteCheckpoint
    <2>6. QED
      BY <1>12, <2>4, <2>5 DEF WriteRows, WriteCheckpoint, TypeOK
  <1>13. CASE Login
    <2>1. waits' \in [Waiters -> {"idle", "open"}] /\ current' \in Waiters \cup {"none"} /\ login' \in {"out", "restoring", "in"}
      BY <1>13 DEF Login, TypeOK, Waiters
    <2>2. QED
      BY <1>8, <1>13, <2>1 DEF Login, Resume, TypeOK
  <1>14. CASE Restored \/ ResyncDone
    BY <1>14 DEF Restored, ResyncDone, TypeOK
  <1>15. CASE Logout
    BY <1>7, <1>8, <1>15, Bounds DEF Logout, TypeOK
  <1>16. CASE WorkerKilled
    BY <1>7, <1>8, <1>16, Bounds DEF WorkerKilled, TypeOK
  <1>17. CASE Resync
    <2>1. resyncs' \in 0..MaxResyncs
      BY <1>17, Bounds DEF Resync, MayResync, TypeOK
    <2>2. QED
      BY <1>17, <2>1 DEF Resync, TypeOK
  <1>18. CASE ClearRow \/ ClearTxs
    BY <1>18, Bounds DEF ClearRow, ClearTxs, TypeOK
  <1>19. CASE Resubscribe
    <2>1. serve' \in [at : Heights, phase : {"none", "history", "gap", "live"}]
      BY <1>19, Bounds DEF Resubscribe, Subscribe, TypeOK
    <2>2. waits' \in [Waiters -> {"idle", "open"}] /\ current' \in Waiters \cup {"none"}
      BY <1>19 DEF Resubscribe, WaitForSync, TypeOK, Waiters
    <2>3. QED
      BY <1>8, <1>19, <2>1, <2>2, Bounds DEF Resubscribe, WaitForSync, TypeOK
  <1> QED
    BY <1>1, <1>2, <1>3, <1>4, <1>5, <1>6, <1>9, <1>10, <1>11, <1>12, <1>13, <1>14, <1>15, <1>16, <1>17, <1>18,
       <1>19 DEF Next, Serve, Write, Wallet

(* No step makes a SYNC without a block, nor a break find more than it may. *)
LEMMA BlockStep == ASSUME TypeOK, SyncHasBlock, [Next]_vars PROVE SyncHasBlock'
  <1>1. CASE inflating' \subseteq inflating
    BY <1>1 DEF SyncHasBlock
  <1>2. CASE SendBlock
    <2>1. serve.at + 1 \in Blocks
      BY <1>2, Bounds DEF SendBlock, TypeOK, Heights, Blocks
    <2>2. QED
      BY <1>2, <2>1, Bounds DEF SendBlock, Send, Frame, SyncHasBlock
  <1>3. CASE SendAnswer \/ KeepAlive \/ AdminResync
    BY <1>3 DEF SendAnswer, KeepAlive, AdminResync, Send, Frame, SyncHasBlock
  <1>4. QED
    BY <1>1, <1>2, <1>3 DEF vars, Next, Mint, Serve, Open, Drop, Handle, WaitTimeout, Write, WriteRows, WriteCheckpoint,
       Wallet, Login, Restored, Logout, Resync, ClearRow, ClearTxs, Resubscribe, ResyncDone, WorkerKilled

LEMMA QuietStep == ASSUME TypeOK, Quiet, [Next]_vars PROVE Quiet'
  <1> USE DEF server, fields, waiting, disk, counts, Quiet
  <1>0. resyncs \in Nat /\ resyncs + 1 # 0
    BY Bounds DEF TypeOK
  <1>1. CASE UNCHANGED vars \/ Mint
    BY <1>1 DEF vars, Mint
  <1>2. CASE SendBlock \/ SendAnswer \/ KeepAlive \/ AdminResync \/ Open
    BY <1>2 DEF SendBlock, SendAnswer, KeepAlive, AdminResync, Open
  <1>3. CASE Drop
    BY <1>3 DEF Drop
  <1>4. CASE Handle
    <2>1. PICK f \in inflating : inflating' = inflating \ {f}
                                 /\ (HandleSync(f) \/ HandleComplete(f) \/ HandleCheck(f) \/ HandleForce(f))
      BY <1>4 DEF Handle
    <2>2. UNCHANGED <<serve, open, login>> /\ (clean' => clean)
      <3>1. UNCHANGED <<serve, open, login>>
        BY <1>4 DEF Handle
      <3>2. HandleSync(f) => (clean' => clean)
        BY DEF HandleSync, TypeOK
      <3>3. HandleComplete(f) \/ HandleCheck(f) \/ HandleForce(f) => clean' = clean
        BY DEF HandleComplete, HandleCheck, HandleForce
      <3>4. QED
        BY <2>1, <3>1, <3>2, <3>3
    <2>3. CASE HandleSync(f)
      BY <2>1, <2>2, <2>3 DEF HandleSync
    <2>4. CASE HandleComplete(f) \/ HandleCheck(f)
      BY <2>1, <2>2, <2>4 DEF HandleComplete, HandleCheck
    <2>5. CASE HandleForce(f)
      BY <1>0, <2>1, <2>2, <2>5 DEF HandleForce
    <2>6. QED
      BY <2>1, <2>3, <2>4, <2>5
  <1>5. ASSUME NEW w \in Waiters, WaitTimeout(w) PROVE Quiet'
    BY <1>5 DEF WaitTimeout
  <1>6. CASE WriteRows \/ WriteCheckpoint \/ Restored \/ ResyncDone
    BY <1>6 DEF WriteRows, WriteCheckpoint, Restored, ResyncDone
  <1>7. CASE Login
    BY <1>7 DEF Login
  <1>8. CASE Logout
    BY <1>8 DEF Logout, MayBreak
  <1>9. CASE WorkerKilled
    BY <1>9 DEF WorkerKilled, MayBreak
  <1>10. CASE Resync
    BY <1>0, <1>10 DEF Resync
  <1>11. CASE ClearRow \/ ClearTxs
    BY <1>11 DEF ClearRow, ClearTxs
  <1>12. CASE Resubscribe
    BY <1>12 DEF Resubscribe, WaitForSync
  <1> QED
    BY <1>1, <1>2, <1>3, <1>4, <1>5, <1>6, <1>7, <1>8, <1>9, <1>10, <1>11, <1>12 DEF Next, Serve, Write, Wallet

(* A claim outlives a step that loses nothing of what is kept.              *)
LEMMA Covers ==
  ASSUME NEW h \in Nat, NEW K, NEW L, 1..h \subseteq K, K \subseteq L
  PROVE  1..h \subseteq L
  OBVIOUS

(* setSync's two writes lose no block, and the checkpoint is a row queued.   *)
LEMMA WriteClaims ==
  ASSUME TypeOK, WriteRows \/ WriteCheckpoint
  PROVE  /\ rows \cup InQueue \subseteq rows' \cup InQueue'
         /\ \A a \in ToSet(applying') : a.row # NoRow => \E b \in ToSet(applying) : b.row = a.row
         /\ checkpoint' = checkpoint
              \/ \E b \in ToSet(applying) : b.row # NoRow /\ b.row = checkpoint'
  <1> DEFINE h == Head(applying)
  <1>1. /\ applying # <<>> /\ h \in Apply
        /\ ToSet(applying) = ToSet(Tail(applying)) \cup {h}
        /\ \A x \in Apply : ToSet(<<x>> \o Tail(applying)) = ToSet(Tail(applying)) \cup {x}
    BY HeadTail DEF WriteRows, WriteCheckpoint, TypeOK
  <1>2. ASSUME NEW x \in Apply, Step(x)
        PROVE  /\ ToSet(applying') \subseteq ToSet(Tail(applying)) \cup {x}
               /\ ToSet(Tail(applying)) \subseteq ToSet(applying') /\ (x.txs # {} => x \in ToSet(applying'))
    BY <1>1, <1>2 DEF Step, Written
  <1>3. CASE WriteRows
    <2> DEFINE x == [h EXCEPT !.txs = {}]
    <2>1. x \in Apply /\ x.txs = {} /\ x.row = h.row
      BY <1>1 DEF Apply
    <2>2. Step(x) /\ rows' = rows \cup h.txs /\ checkpoint' = checkpoint
      BY <1>3 DEF WriteRows
    <2> HIDE DEF x, h
    <2>3. \A a \in ToSet(applying) : a.txs \subseteq rows' \/ a \in ToSet(applying')
      BY <1>1, <1>2, <2>1, <2>2
    <2>4. rows \cup InQueue \subseteq rows' \cup InQueue'
      BY <2>2, <2>3 DEF InQueue
    <2>5. QED
      BY <1>1, <1>2, <2>1, <2>2, <2>4
  <1>4. CASE WriteCheckpoint
    <2> DEFINE x == [h EXCEPT !.row = NoRow]
    <2>1. x \in Apply /\ x.txs = h.txs /\ x.row = NoRow
      BY <1>1 DEF Apply
    <2>2. Step(x) /\ rows' = rows /\ checkpoint' = h.row /\ h.row # NoRow
      BY <1>4 DEF WriteCheckpoint
    <2> HIDE DEF x, h
    <2>3. \A a \in ToSet(applying) : a.txs = {} \/ \E b \in ToSet(applying') : b.txs = a.txs
      BY <1>1, <1>2, <2>1, <2>2
    <2>4. rows \cup InQueue \subseteq rows' \cup InQueue'
      BY <2>2, <2>3 DEF InQueue
    <2>5. QED
      BY <1>1, <1>2, <2>1, <2>2, <2>4
  <1>5. QED
    BY <1>3, <1>4

(* What a frame handled has brought is applied, held or written already.     *)
LEMMA HandleClaims ==
  ASSUME TypeOK, SyncHasBlock, Quiet, Claims, NEW f \in inflating, inflating' = inflating \ {f},
         HandleSync(f) \/ HandleComplete(f) \/ HandleCheck(f) \/ HandleForce(f),
         UNCHANGED <<serve, rows, checkpoint, login>>
  PROVE  Claims'
  <1> SUFFICES ASSUME clean', ~Clearing'
               PROVE  /\ 1..lastSynced' \subseteq Kept'
                      /\ 1..serve'.at \subseteq Kept'
                      /\ \A g \in inflating' : 1..g.block \subseteq Kept'
                      /\ resyncs' = 0 => /\ 1..checkpoint' \subseteq Kept'
                                         /\ \A a \in ToSet(applying') : a.row # NoRow => 1..a.row \subseteq Kept'
    BY DEF Claims
  <1>1. f.block \in Heights /\ (f.type = "SYNC" => f.block \in Blocks)
    BY DEF TypeOK, Frames, SyncHasBlock
  <1>2. clean
    BY DEF HandleSync, HandleComplete, HandleCheck, HandleForce
  <1>3. ~Clearing
    BY DEF Clearing, HandleSync, HandleComplete, HandleCheck, HandleForce
  <1>4. login # "out"
    BY <1>2 DEF Quiet
  <1>5. SyncsIn(inflating) \subseteq SyncsIn(inflating') \cup (IF f.type = "SYNC" THEN {f.block} ELSE {})
    BY DEF SyncsIn
  <1>6. 1..0 = {}
    OBVIOUS
  <1>7. ASSUME NEW row \in Heights, row = f.block \/ resyncs' # 0,
               \A a \in ToSet(applying') : a \in ToSet(applying) \/ a.row = row,
               Kept \subseteq Kept', lastSynced' \in {lastSynced, f.block, 0}, resyncs' = 0 => resyncs = 0
        PROVE  /\ 1..lastSynced' \subseteq Kept'
               /\ 1..serve'.at \subseteq Kept'
               /\ \A g \in inflating' : 1..g.block \subseteq Kept'
               /\ resyncs' = 0 => /\ 1..checkpoint' \subseteq Kept'
                                  /\ \A a \in ToSet(applying') : a.row # NoRow => 1..a.row \subseteq Kept'
    <2>1. /\ 1..lastSynced \subseteq Kept' /\ 1..serve.at \subseteq Kept'
          /\ \A g \in inflating : 1..g.block \subseteq Kept'
          /\ resyncs = 0 => /\ 1..checkpoint \subseteq Kept'
                            /\ \A a \in ToSet(applying) : a.row # NoRow => 1..a.row \subseteq Kept'
      <3> HIDE DEF Kept
      <3>1. QED
        BY <1>2, <1>3, <1>7 DEF Claims
    <2> HIDE DEF Kept
    <2>2. QED
      BY <1>6, <1>7, <2>1
  <1>8. CASE HandleSync(f)
    <2>1. resyncs' = resyncs /\ f.block \in Blocks /\ f.type = "SYNC"
      BY <1>1, <1>8 DEF HandleSync
    <2>2. CASE catching
      <3>1. batches' = Append(batches, f.block) /\ UNCHANGED <<lastSynced, applying>>
        BY <1>8, <2>2 DEF HandleSync
      <3>2. ToSet(batches') = ToSet(batches) \cup {f.block}
        BY <2>1, <3>1, AppendSet DEF TypeOK
      <3>3. Kept \subseteq Kept'
        BY <1>5, <2>1, <3>1, <3>2 DEF Kept, Held, InQueue
      <3>4. QED
        BY <1>1, <1>7, <2>1, <3>1, <3>3
    <2>3. CASE ~catching /\ f.block \in tipCache
      <3>1. f.block \in rows \cup InQueue /\ UNCHANGED <<lastSynced, batches, applying>>
        BY <1>8, <2>3 DEF HandleSync
      <3>2. Kept \subseteq Kept'
        BY <1>5, <2>1, <3>1 DEF Kept, Held, InQueue
      <3>3. QED
        BY <1>1, <1>7, <2>1, <3>1, <3>2
    <2>4. CASE ~catching /\ f.block \notin tipCache
      <3>1. OnSync({f.block}, f.block) /\ UNCHANGED batches /\ lastSynced' = f.block
        BY <1>8, <2>4 DEF HandleSync
      <3>2. /\ ToSet(applying') \subseteq ToSet(applying) \cup {[txs |-> {f.block}, row |-> f.block]}
            /\ InQueue \subseteq InQueue' /\ f.block \in InQueue'
        BY <1>1, <1>4, <2>1, <3>1, OnSyncQueue
      <3>3. Kept \subseteq Kept'
        BY <1>5, <2>1, <3>1, <3>2 DEF Kept, Held
      <3>4. QED
        BY <1>1, <1>7, <2>1, <3>1, <3>2, <3>3
    <2>5. QED
      BY <2>2, <2>3, <2>4
  <1>9. CASE HandleComplete(f)
    <2>1. resyncs' = resyncs /\ OnSync(Held, f.block) /\ batches' = <<>> /\ lastSynced' = f.block /\ f.type # "SYNC"
      BY <1>9 DEF HandleComplete, Combined
    <2>2. Held \in SUBSET Blocks
      BY DEF Held, TypeOK, ToSet
    <2>3. /\ ToSet(applying') \subseteq ToSet(applying) \cup {[txs |-> Held, row |-> f.block]}
          /\ InQueue \subseteq InQueue' /\ Held \subseteq InQueue'
      BY <1>1, <1>4, <2>1, <2>2, OnSyncQueue
    <2>4. Kept \subseteq Kept'
      BY <1>5, <2>1, <2>3 DEF Kept
    <2>5. QED
      BY <1>1, <1>7, <2>1, <2>3, <2>4
  <1>10. CASE HandleCheck(f)
    <2>1. resyncs' = resyncs /\ UNCHANGED <<lastSynced, batches>> /\ f.type # "SYNC"
      BY <1>10 DEF HandleCheck, fields
    <2>2. /\ ToSet(applying') \subseteq ToSet(applying) \cup {[txs |-> {}, row |-> f.block]}
          /\ InQueue \subseteq InQueue'
      <3>1. CASE f.block = 0
        BY <1>10, <3>1 DEF HandleCheck, InQueue
      <3>2. CASE f.block # 0
        BY <1>1, <1>10, <3>2, OnSyncQueue DEF HandleCheck
      <3>3. QED
        BY <3>1, <3>2
    <2>3. Kept \subseteq Kept'
      BY <1>5, <2>1, <2>2 DEF Kept, Held
    <2>4. QED
      BY <1>1, <1>7, <2>1, <2>2, <2>3
  <1>11. CASE HandleForce(f)
    <2>1. lastSynced' = 0 /\ UNCHANGED <<batches, applying>> /\ f.type # "SYNC"
      BY <1>11 DEF HandleForce
    <2>2. resyncs' = resyncs
      BY <1>11 DEF HandleForce, Clearing
    <2>3. Kept \subseteq Kept'
      BY <1>5, <2>1 DEF Kept, Held, InQueue
    <2>4. QED
      BY <1>1, <1>7, <2>1, <2>2, <2>3
  <1>12. QED
    BY <1>8, <1>9, <1>10, <1>11

(* Every step keeps the claims.                                             *)
LEMMA ClaimsStep == ASSUME TypeOK, SyncHasBlock, Quiet, Claims, [Next]_vars PROVE Claims'
  <1> USE DEF server, fields, waiting, disk, counts
  <1>0. 1..0 = {} /\ resyncs \in Nat /\ serve.at \in Heights /\ lastSynced \in Nat /\ checkpoint \in Nat /\ tip \in Heights
    BY Bounds DEF TypeOK
  <1>1. CASE UNCHANGED vars \/ Mint \/ Restored
    BY <1>1 DEF vars, Mint, Restored, Claims, Clearing, Kept, InQueue, Held, SyncsIn
  <1>2. CASE ResyncDone
    BY <1>2 DEF ResyncDone, Claims, Clearing, Kept, InQueue, Held, SyncsIn
  <1>3. ASSUME NEW g \in Frames, Send(g), 1..g.block \subseteq (1..serve.at) \cup SyncsIn({g}),
               serve'.at \in {serve.at, g.block},
               UNCHANGED <<lastSynced, batches, applying, rows, checkpoint, resync, resyncs, clean>>
        PROVE  Claims'
    <2>1. inflating' = inflating \cup {g}
      BY <1>3 DEF Send
    <2>2. SyncsIn(inflating') = SyncsIn(inflating) \cup SyncsIn({g})
      BY <2>1 DEF SyncsIn
    <2>3. Kept' = Kept \cup SyncsIn({g})
      BY <1>3, <2>2 DEF Kept, InQueue, Held
    <2>4. (clean' <=> clean) /\ (Clearing' <=> Clearing)
      BY <1>3 DEF Clearing
    <2> HIDE DEF Kept
    <2> SUFFICES ASSUME clean', ~Clearing' PROVE Claims'
      BY DEF Claims
    <2>5. /\ 1..lastSynced \subseteq Kept /\ 1..serve.at \subseteq Kept
          /\ \A f \in inflating : 1..f.block \subseteq Kept
          /\ resyncs = 0 => /\ 1..checkpoint \subseteq Kept
                            /\ \A a \in ToSet(applying) : a.row # NoRow => 1..a.row \subseteq Kept
      BY <2>4 DEF Claims
    <2>6. 1..g.block \subseteq Kept' /\ Kept \subseteq Kept' /\ 1..serve.at \subseteq Kept'
      BY <1>3, <2>3, <2>5
    <2>7. \A f \in inflating' : 1..f.block \subseteq Kept'
      BY <2>1, <2>5, <2>6
    <2>8. 1..serve'.at \subseteq Kept' /\ 1..lastSynced' \subseteq Kept'
      BY <1>3, <2>5, <2>6
    <2>9. resyncs' = 0 => /\ 1..checkpoint' \subseteq Kept'
                          /\ \A a \in ToSet(applying') : a.row # NoRow => 1..a.row \subseteq Kept'
      BY <1>3, <2>5, <2>6
    <2>10. QED
      BY <2>7, <2>8, <2>9 DEF Claims
  <1>4. CASE SendBlock
    <2> DEFINE g == Frame("SYNC", serve.at + 1)
    <2>1. serve.at + 1 \in Heights
      BY <1>4, Bounds DEF SendBlock, TypeOK, Heights
    <2>2. g \in Frames /\ g.block = serve.at + 1 /\ g.type = "SYNC"
      BY <2>1, FrameType
    <2>3. 1..(serve.at + 1) \subseteq (1..serve.at) \cup {serve.at + 1}
      <3>1. \A n \in Nat : 1..(n + 1) \subseteq (1..n) \cup {n + 1}
        OBVIOUS
      <3>2. serve.at \in Nat
        BY <1>0, Bounds
      <3>3. QED
        BY <3>1, <3>2
    <2>4. serve'.at = serve.at + 1
      BY <1>4 DEF SendBlock, TypeOK
    <2>5. Send(g) /\ UNCHANGED <<lastSynced, batches, applying, rows, checkpoint, resync, resyncs, clean>>
      BY <1>4 DEF SendBlock
    <2> HIDE DEF g
    <2>6. SyncsIn({g}) = {serve.at + 1}
      BY <2>2 DEF SyncsIn
    <2>7. QED
      BY <1>3, <2>2, <2>3, <2>4, <2>5, <2>6
  <1>5. CASE SendAnswer \/ KeepAlive
    <2>1. PICK type \in {"CATCH_UP_COMPLETE", "SYNC_CHECK_OK"} : Send(Frame(type, tip))
      BY <1>5 DEF SendAnswer, KeepAlive
    <2>2. tip = serve.at /\ serve'.at = serve.at
      BY <1>5 DEF SendAnswer, KeepAlive, TypeOK
    <2>3. UNCHANGED <<lastSynced, batches, applying, rows, checkpoint, resync, resyncs, clean>>
      BY <1>5 DEF SendAnswer, KeepAlive
    <2>4. Frame(type, tip) \in Frames /\ Frame(type, tip).block = tip
      BY <1>0, FrameType
    <2>5. QED
      BY <1>3, <2>1, <2>2, <2>3, <2>4
  <1>6. CASE AdminResync
    BY <1>0, <1>3, <1>6, FrameType, Bounds DEF AdminResync
  <1>7. ASSUME serve'.at \in {0, lastSynced},
               UNCHANGED <<inflating, lastSynced, batches, applying, rows, checkpoint, resync, resyncs, clean>>
        PROVE  Claims'
    <2>1. Kept' = Kept /\ (Clearing' <=> Clearing)
      BY <1>7 DEF Kept, InQueue, Held, SyncsIn, Clearing
    <2> HIDE DEF Kept
    <2>2. QED
      BY <1>0, <1>7, <2>1 DEF Claims
  <1>8. CASE Open \/ Drop
    BY <1>7, <1>8 DEF Open, Drop, Subscribe, Nothing
  <1>9. CASE Handle
    <2>1. PICK f \in inflating : inflating' = inflating \ {f}
                                 /\ (HandleSync(f) \/ HandleComplete(f) \/ HandleCheck(f) \/ HandleForce(f))
      BY <1>9 DEF Handle
    <2>2. UNCHANGED <<serve, rows, checkpoint, login>>
      BY <1>9 DEF Handle
    <2>3. QED
      BY <2>1, <2>2, HandleClaims
  <1>10. ASSUME NEW w \in Waiters, WaitTimeout(w) PROVE Claims'
    <2>1. UNCHANGED <<serve, inflating, lastSynced, rows, checkpoint, resync, resyncs, clean>> /\ batches' = <<>>
      BY <1>10 DEF WaitTimeout
    <2>2. CASE batches = <<>>
      BY <1>10, <2>1, <2>2 DEF WaitTimeout, Claims, Clearing, Kept, InQueue, Held, SyncsIn
    <2>3. CASE batches # <<>>
      <3>1. resyncs # 0 /\ login # "out"
        BY <2>3 DEF Quiet
      <3>2. OnSync(Held, Last(batches)) /\ Held \in SUBSET Blocks
        BY <1>10, <2>3 DEF WaitTimeout, Flush, Held, TypeOK, ToSet
      <3>3. Last(batches) \in Heights
        <4>1. batches \in Seq(Blocks)
          BY DEF TypeOK
        <4>2. Len(batches) \in 1..Len(batches)
          BY <2>3, <4>1
        <4>3. batches[Len(batches)] \in Blocks
          BY <4>1, <4>2
        <4>4. QED
          BY <4>3, Bounds DEF Last
      <3>4. InQueue \subseteq InQueue' /\ Held \subseteq InQueue'
        BY <3>1, <3>2, <3>3, OnSyncQueue
      <3>5. Kept \subseteq Kept' /\ (Clearing' <=> Clearing)
        BY <2>1, <3>4 DEF Kept, SyncsIn, Clearing
      <3> HIDE DEF Kept
      <3>6. QED
        BY <2>1, <3>1, <3>5 DEF Claims
    <2>4. QED
      BY <2>2, <2>3
  <1>11. CASE WriteRows \/ WriteCheckpoint
    <2>1. UNCHANGED <<serve, inflating, lastSynced, batches, resync, resyncs, clean>>
      BY <1>11 DEF WriteRows, WriteCheckpoint
    <2>2. Kept \subseteq Kept' /\ (Clearing' <=> Clearing)
      BY <1>11, <2>1, WriteClaims DEF Kept, Held, SyncsIn, Clearing
    <2> HIDE DEF Kept
    <2>3. QED
      BY <1>11, <2>1, <2>2, WriteClaims DEF Claims
  <1>12. CASE Login
    <2>1. resyncs = 0 /\ batches = <<>>
      BY <1>12 DEF Login, Quiet
    <2>2. UNCHANGED <<serve, inflating, batches, applying, rows, checkpoint, resync, resyncs, clean>> /\ lastSynced' = checkpoint
      BY <1>12, <2>1 DEF Login, Resume
    <2>3. Kept' = Kept /\ (Clearing' <=> Clearing)
      BY <2>2 DEF Kept, InQueue, Held, SyncsIn, Clearing
    <2> HIDE DEF Kept
    <2>4. QED
      BY <2>1, <2>2, <2>3 DEF Claims
  <1>13. CASE Logout
    <2>1. resyncs = 0 /\ batches = <<>>
      BY <1>13 DEF Logout, MayBreak, Quiet
    <2>2. UNCHANGED <<inflating, batches, lastSynced, applying, rows, checkpoint, resync, resyncs>> /\ serve'.at = 0 /\ (clean' => clean)
      BY <1>13, <2>1 DEF Logout, Nothing
    <2>3. Kept' = Kept /\ (Clearing' <=> Clearing)
      BY <2>2 DEF Kept, InQueue, Held, SyncsIn, Clearing
    <2> HIDE DEF Kept
    <2>4. QED
      BY <1>0, <2>2, <2>3 DEF Claims
  <1>14. CASE WorkerKilled
    <2> SUFFICES ASSUME clean' PROVE Claims'
      BY DEF Claims
    <2>1. clean /\ inflating = {} /\ applying = <<>> /\ batches = <<>> /\ ~Clearing
      BY <1>14 DEF WorkerKilled, Clearing
    <2>2. inflating' = {} /\ applying' = <<>> /\ batches' = <<>> /\ UNCHANGED <<rows, checkpoint, resyncs>>
          /\ lastSynced' = 0 /\ serve'.at = 0 /\ resyncs = 0
      BY <1>14 DEF WorkerKilled, Nothing, MayBreak
    <2>3. Kept' = Kept
      BY <2>1, <2>2 DEF Kept, InQueue, Held, SyncsIn
    <2> HIDE DEF Kept
    <2>4. QED
      BY <1>0, <2>1, <2>2, <2>3, EmptySet DEF Claims
  <1>15. CASE Resync \/ ClearRow \/ ClearTxs
    BY <1>15 DEF Resync, ClearRow, ClearTxs, Claims, Clearing
  <1>16. CASE Resubscribe
    <2> SUFFICES ASSUME clean' PROVE Claims'
      BY DEF Claims
    <2>1. inflating' = {} /\ lastSynced' = 0 /\ resyncs' # 0
      BY <1>16 DEF Resubscribe, Quiet
    <2>2. serve'.at = 0
      BY <1>16 DEF Resubscribe, Subscribe, Quiet, Nothing
    <2>3. QED
      BY <1>0, <2>1, <2>2 DEF Claims
  <1> QED
    BY <1>1, <1>2, <1>4, <1>5, <1>6, <1>8, <1>9, <1>10, <1>11, <1>12, <1>13, <1>14, <1>15, <1>16
       DEF Next, Serve, Write, Wallet

-----------------------------------------------------------------------------
LEMMA InvInit == Init => IInv
  <1> SUFFICES ASSUME Init PROVE IInv
    OBVIOUS
  <1>1. TypeOK
    <2>1. <<>> \in Seq(Blocks) /\ <<>> \in Seq(Apply)
      OBVIOUS
    <2>2. checkpoint \in Heights /\ rows \subseteq Blocks
      BY Bounds DEF Init, Heights, Blocks
    <2>3. QED
      BY <2>1, <2>2, Bounds DEF Init, TypeOK
  <1>2. SyncHasBlock /\ Quiet
    BY DEF Init, SyncHasBlock, Quiet
  <1>3. Claims
    <2>1. 1..lastSynced = {} /\ 1..serve.at = {} /\ 1..checkpoint \subseteq Kept /\ ToSet(applying) = {} /\ inflating = {}
      BY EmptySet DEF Init, Nothing, Kept
    <2>2. QED
      BY <2>1 DEF Claims
  <1>4. QED
    BY <1>1, <1>2, <1>3 DEF IInv

LEMMA Invariant == Spec => []IInv
  <1>1. IInv /\ [Next]_vars => IInv'
    BY TypeStep, BlockStep, QuietStep, ClaimsStep DEF IInv
  <1>2. QED
    BY <1>1, InvInit, PTL DEF Spec

(* The state is well typed, the queue of applies and the batches included.  *)
THEOREM TypeCorrect == Spec => []TypeOK
  <1>1. IInv => TypeOK
    BY DEF IInv
  <1>2. QED
    BY <1>1, Invariant, PTL

(* What the socket tells gero-sync it has, it has: every block up to         *)
(* lastSyncedBlock is written, queued, held or being inflated, unless a kill, *)
(* a logout or a resync cut a catch-up short.                                 *)
THEOREM Believed == Spec => []BelievedIsKept
  <1>1. IInv => BelievedIsKept
    BY DEF IInv, Claims, Kept, BelievedIsKept
  <1>2. QED
    BY <1>1, Invariant, PTL
=============================================================================
