---------------------------- MODULE StorePersister ----------------------------
(***************************************************************************)
(* How the worker keeps walletStore over restarts (storePersistence.ts).   *)
(*                                                                         *)
(* The store is persisted in three places that no transaction spans:       *)
(*  - record: the compact record in chrome.storage.local;                  *)
(*  - cache:  the bulk fields in IndexedDB, each tagged with its session;  *)
(*  - vault:  the private copies of the fields the worker trusts (session  *)
(*            and lock), with the marker that the worker took them over.   *)
(*                                                                         *)
(* Setters mark fields dirty; a flush writes bulk, then trusted, then      *)
(* compact, and retries what failed.  At start the worker hydrates from    *)
(* all three while setters already run.  It can be killed at any step.     *)
(* One step is the code between two awaits, and the commit of a write is   *)
(* one step with the callback that follows it: between the two a setter    *)
(* touches nothing they do.                                                *)
(*                                                                         *)
(* A value is the session it belongs to and the setter call that made it,  *)
(* so comparing fingerprints (scope, length, hash) is comparing values.    *)
(***************************************************************************)
EXTENDS Naturals, Functions

CONSTANTS
    Wallets,     \* wallets that can be logged in; a session is a wallet
    NoWallet,    \* nobody is logged in
    NoRecord,    \* nothing under chrome.storage.local[storeName]
    Bulk,        \* the bulk fields
    MaxOps,      \* bound: setter calls
    MaxKills,    \* bound: times the worker dies
    ReadsFail    \* may a read at start fail

ASSUME SessionsAssumption == NoWallet \notin Wallets
ASSUME BoundsAssumption == MaxOps \in Nat /\ MaxKills \in Nat /\ ReadsFail \in BOOLEAN
ASSUME BulkAssumption == Bulk \cap {"session", "locked", "account"} = {}

Trusted  == {"session", "locked"}
Compact  == Trusted \cup {"account"}
Sessions == Wallets \cup {NoWallet}
Data     == [of : Sessions, ver : 0..(MaxOps + 1)]
NoData   == [of |-> NoWallet, ver |-> 0]

(* An older IndexedDB copy, what an older release wrote inline, later calls. *)
Older(s)  == [of |-> s, ver |-> 0]
Stored(s) == [of |-> s, ver |-> 1]
PartialOn(S, V) == UNION {[D -> V] : D \in SUBSET S}

(* f laid over g. *)
Over(f, g) == [x \in DOMAIN f \cup DOMAIN g |-> IF x \in DOMAIN f THEN f[x] ELSE g[x]]

VARIABLES
    mem,        \* the in-memory store of the worker
    bg,         \* WalletBg exists: the session is logged in, loaders run
    record, cache, vault, adopted,                             \* storage
    dirty, adopting, due, last, legacy, hyd, write,            \* the persister
    ops, kills, \* counters of the bounds
    fate,       \* ghost: what became of an older release's bulk values
    chosen,     \* ghost: sessions that a login or a logout has set
    blind       \* ghost: this start could not read the record

disk      == <<record, cache, vault, adopted>>
persister == <<dirty, adopting, due, last, legacy, hyd, write>>
ghosts    == <<fate, chosen, blind>>
vars == <<mem, bg, disk, persister, ops, kills, ghosts>>

Record == [session : Sessions, locked : BOOLEAN, account : Data,
           inline : PartialOn(Bulk, Data), secrets : BOOLEAN]
Entry  == [scope : Sessions, val : Data]
VaultOf == {v \in PartialOn(Trusted, Sessions \cup BOOLEAN) :
               /\ "session" \in DOMAIN v => v["session"] \in Sessions
               /\ "locked" \in DOMAIN v => v["locked"] \in BOOLEAN}

ASSUME RecordAssumption == NoRecord \notin Record

NothingDirty  == [bulk |-> {}, trusted |-> {}, compact |-> FALSE]
NothingLast   == [bulk |-> <<>>, trusted |-> <<>>, compact |-> NoRecord]
NothingLegacy == [inline |-> {}, held |-> <<>>, scope |-> NoWallet]
HydrationStart == [pc |-> "record", touched |-> {}, stored |-> NoRecord]
IdleWrite == [pc |-> "idle", bulk |-> <<>>, fields |-> {}, trusted |-> <<>>,
              adopting |-> FALSE, compact |-> FALSE, view |-> NoRecord,
              failedBulk |-> {}, failedTrusted |-> {}]
Defaults == [session |-> NoWallet, locked |-> FALSE, account |-> NoData,
             bulk |-> [b \in Bulk |-> NoData]]

Memory == [session : Sessions, locked : BOOLEAN, account : Data, bulk : [Bulk -> Data]]
Marks  == [bulk : SUBSET Bulk, trusted : SUBSET Trusted, compact : BOOLEAN]
Copies == [bulk : PartialOn(Bulk, Entry), trusted : VaultOf, compact : Record \cup {NoRecord}]
Moves  == [inline : SUBSET Bulk, held : PartialOn(Bulk, Data), scope : Sessions]
Hydrations == [pc : {"record", "bulk", "done"}, touched : SUBSET (Compact \cup Bulk),
               stored : Record \cup {NoRecord}]
Writes == [pc : {"idle", "bulk", "trusted", "compact"}, bulk : PartialOn(Bulk, Entry),
           fields : SUBSET Trusted, trusted : VaultOf, adopting : BOOLEAN, compact : BOOLEAN,
           view : Record \cup {NoRecord}, failedBulk : SUBSET Bulk, failedTrusted : SUBSET Trusted]

TypeOK ==
    /\ mem \in Memory
    /\ bg \in BOOLEAN
    /\ record \in Record \cup {NoRecord}
    /\ cache \in PartialOn(Bulk, Entry)
    /\ vault \in VaultOf
    /\ adopted \in BOOLEAN /\ adopting \in BOOLEAN /\ due \in BOOLEAN
    /\ dirty \in Marks
    /\ last \in Copies
    /\ legacy \in Moves /\ DOMAIN legacy.held \subseteq legacy.inline
    /\ hyd \in Hydrations
    /\ write \in Writes /\ (write.pc = "compact" => write.view \in Record)
    /\ ops \in 0..MaxOps /\ kills \in 0..MaxKills
    /\ fate \in [Bulk -> {"none", "kept", "superseded", "unread"}]
    /\ chosen \subseteq Sessions
    /\ blind \in BOOLEAN

(* Storage as a release leaves it: nothing; the old single-value format, with *)
(* or without IndexedDB entries of an interrupted move; this release's own;   *)
(* or an old record again, after a user rolled back from this release.        *)
OldRecord(s) == [session |-> s, locked |-> FALSE, account |-> Stored(s), secrets |-> TRUE,
                 inline |-> [b \in Bulk |-> Stored(s)]]
NewRecord(s) == [session |-> s, locked |-> FALSE, account |-> Stored(s), secrets |-> FALSE,
                 inline |-> <<>>]
CacheOf(s) == [b \in Bulk |-> [scope |-> s, val |-> Older(s)]]
KnownTo(s) == [f \in Trusted |-> IF f = "session" THEN s ELSE FALSE]

Inline == IF record = NoRecord THEN <<>> ELSE record.inline

Init ==
    /\ \E s, t \in Wallets :
         \/ record = NoRecord /\ cache = <<>> /\ vault = <<>> /\ adopted = FALSE
         \/ record = OldRecord(s) /\ cache \in {<<>>, CacheOf(t)} /\ vault = <<>> /\ adopted = FALSE
         \/ record = NewRecord(s) /\ cache = CacheOf(s) /\ vault = KnownTo(s) /\ adopted = TRUE
         \/ record = OldRecord(s) /\ cache = CacheOf(t) /\ vault = KnownTo(t) /\ adopted = TRUE
    /\ mem = Defaults
    /\ bg = FALSE
    /\ dirty = NothingDirty /\ adopting = FALSE /\ due = FALSE
    /\ last = NothingLast /\ legacy = NothingLegacy
    /\ hyd = HydrationStart /\ write = IdleWrite
    /\ ops = 0 /\ kills = 0
    /\ fate = [b \in Bulk |->
                 IF b \notin DOMAIN Inline THEN "none"
                 ELSE IF adopted /\ vault["session"] # record.session THEN "superseded"
                 ELSE "kept"]
    /\ chosen = {} /\ blind = FALSE

-----------------------------------------------------------------------------
(* The writer.  Each stage ends in the next one that has something to write; *)
(* its result is what it makes of write, dirty and due.                      *)

Without(f, S) == Restrict(f, DOMAIN f \ S)
Drop(g, S) == [g EXCEPT !.inline = @ \ S, !.held = Without(@, S)]

(* finally: what failed is dirty again, and a retry is scheduled. *)
RetryMutant(w, d, a, failed) ==            \* mutant: a failed trusted write is not retried
    [write |-> IdleWrite,
     dirty |-> [d EXCEPT !.bulk = @ \cup w.failedBulk, !.compact = @ \/ failed],
     due   |-> due \/ w.failedBulk # {} \/ a \/ failed]
Retry(w, d, a, failed) ==
    [write |-> IdleWrite,
     dirty |-> [bulk    |-> d.bulk \cup w.failedBulk,
                trusted |-> d.trusted \cup w.failedTrusted,
                compact |-> d.compact \/ failed],
     due   |-> due \/ w.failedBulk # {} \/ w.failedTrusted # {} \/ a \/ failed]

(* compactView: a field still carried inline keeps the old record's value. *)
InlineValueMutant(m, g, b) == m.bulk[b]    \* mutant: the store's copy, empty while hydrating
InlineValue(m, g, b) == IF b \in DOMAIN g.held THEN g.held[b] ELSE m.bulk[b]
CompactView(m, g) ==
    [session |-> m.session, locked |-> m.locked, account |-> m.account, secrets |-> FALSE,
     inline |-> [b \in g.inline |-> InlineValue(m, g, b)]]

CompactStage(w, m, g, d, a) ==
    IF w.compact /\ CompactView(m, g) # last.compact
    THEN [write |-> [w EXCEPT !.pc = "compact", !.view = CompactView(m, g)],
          dirty |-> d, due |-> due]
    ELSE Retry(w, d, a, FALSE)

TrustedStage(w, m, g, d, k) ==
    LET changed == {f \in w.fields : f \notin DOMAIN k.trusted \/ k.trusted[f] # m[f]}
    IN IF changed # {} \/ adopting
       THEN [write |-> [w EXCEPT !.pc = "trusted", !.adopting = adopting,
                                 !.trusted = [f \in changed |-> m[f]]],
             dirty |-> d, due |-> due]
       ELSE CompactStage(w, m, g, d, adopting)

Proceed(r) == write' = r.write /\ dirty' = r.dirty /\ due' = r.due

(* Legacy data of another session than the store's is let go. *)
OwnLegacy(m, g) ==
    IF g.inline # {} /\ m.session # g.scope THEN [g EXCEPT !.inline = {}, !.held = <<>>] ELSE g

(* flush once it may write, and write up to its first await. *)
BeginWrite(m, d, g0, k) ==
    LET g == OwnLegacy(m, g0)
        entry(b) == [scope |-> m.session,
                     val |-> IF b \in DOMAIN g.held THEN g.held[b] ELSE m.bulk[b]]
        current == {b \in d.bulk : b \in DOMAIN k.bulk /\ k.bulk[b] = entry(b)}
        left == Drop(g, current)
        w == [IdleWrite EXCEPT
                !.bulk = [b \in d.bulk \ current |-> entry(b)],
                !.fields = d.trusted,
                !.compact = d.compact \/ current \cap g.inline # {}]
    IN /\ legacy' = left
       /\ IF d.bulk # current
          THEN write' = [w EXCEPT !.pc = "bulk"] /\ dirty' = NothingDirty /\ due' = FALSE
          ELSE LET r == TrustedStage(w, m, left, NothingDirty, k)
               IN write' = r.write /\ dirty' = r.dirty /\ due' = (r.write.pc = "idle" /\ adopting)

(* A flush waits for a hydration's read of the record, then for the write in *)
(* flight.  due: the timer is set, or a flush waits.                         *)
GateMutant == TRUE                         \* mutant: a flush does not wait for the read
Gate == hyd.pc # "record"
Flush ==
    /\ due
    /\ Gate
    /\ write.pc = "idle"
    /\ IF dirty = NothingDirty /\ ~adopting
       THEN due' = FALSE /\ UNCHANGED <<dirty, legacy, write>>
       ELSE BeginWrite(mem, dirty, legacy, last)
    /\ UNCHANGED <<mem, bg, disk, adopting, last, hyd, ops, kills, ghosts>>

BulkWritten ==
    /\ write.pc = "bulk"
    /\ cache' = Over(write.bulk, cache)
    /\ last' = [last EXCEPT !.bulk = Over(write.bulk, @)]
    /\ legacy' = Drop(legacy, DOMAIN write.bulk)
    /\ LET w == [write EXCEPT !.compact = @ \/ legacy.inline \cap DOMAIN write.bulk # {}]
       IN Proceed(TrustedStage(w, mem, legacy', dirty, last))
    /\ UNCHANGED <<mem, bg, record, vault, adopted, adopting, hyd, ops, kills, ghosts>>

BulkFailed ==
    /\ write.pc = "bulk"
    /\ LET failed == DOMAIN write.bulk
           w == [write EXCEPT !.failedBulk = failed,
                              !.compact = @ \/ legacy.inline \cap failed # {}]
       IN Proceed(TrustedStage(w, mem, legacy, dirty, last))
    /\ UNCHANGED <<mem, bg, disk, adopting, last, legacy, hyd, ops, kills, ghosts>>

(* Ghost: a start that could not read the old record replaces its session, or   *)
(* the record itself while that is the only copy.                             *)
Unread(S) == fate' = [b \in Bulk |-> IF blind /\ b \in S /\ fate[b] = "kept"
                                     THEN "unread" ELSE fate[b]]
Moved(b) == b \in DOMAIN cache /\ cache[b].val.ver >= 1

VaultWritten ==
    /\ write.pc = "trusted"
    /\ vault' = Over(write.trusted, vault)
    /\ adopted' = (adopted \/ write.adopting)
    /\ adopting' = (adopting /\ ~write.adopting)
    /\ last' = [last EXCEPT !.trusted = Over(write.trusted, @)]
    /\ Proceed(CompactStage(write, mem, legacy, dirty, adopting'))
    /\ Unread({b \in DOMAIN Inline : "session" \in DOMAIN vault' /\ vault'["session"] # record.session})
    /\ UNCHANGED <<mem, bg, record, cache, legacy, hyd, ops, kills, chosen, blind>>

VaultFailed ==
    /\ write.pc = "trusted"
    /\ LET w == [write EXCEPT !.failedTrusted = DOMAIN write.trusted]
       IN Proceed(CompactStage(w, mem, legacy, dirty, adopting))
    /\ UNCHANGED <<mem, bg, disk, adopting, last, legacy, hyd, ops, kills, ghosts>>

RecordWritten ==
    /\ write.pc = "compact"
    /\ record' = write.view
    /\ last' = [last EXCEPT !.compact = write.view]
    /\ Proceed(Retry(write, dirty, adopting, FALSE))
    /\ Unread({b \in Bulk : ~Moved(b)})
    /\ UNCHANGED <<mem, bg, cache, vault, adopted, adopting, legacy, hyd, ops, kills, chosen, blind>>

RecordFailed ==
    /\ write.pc = "compact"
    /\ Proceed(Retry(write, dirty, adopting, TRUE))
    /\ UNCHANGED <<mem, bg, disk, adopting, last, legacy, hyd, ops, kills, ghosts>>

Writer == Flush \/ BulkWritten \/ BulkFailed \/ VaultWritten \/ VaultFailed
          \/ RecordWritten \/ RecordFailed

-----------------------------------------------------------------------------
(* hydrate({migrate: true}) of the worker. *)

Keep(f) == f \notin hyd.touched

(* Both reads land before the gate opens.  The private copy of a trusted    *)
(* field wins; the record's serves one that was never taken over.           *)
HydrateRecord ==
    /\ hyd.pc = "record"
    /\ \E recordRead, vaultRead \in {TRUE, ~ReadsFail} :
        LET stored == IF recordRead THEN record ELSE NoRecord
            known  == IF vaultRead THEN vault ELSE <<>>
            taken  == vaultRead /\ adopted
            value(f) ==
                IF f \in hyd.touched THEN mem[f]
                ELSE IF f \in DOMAIN known THEN known[f]
                ELSE IF stored # NoRecord /\ (f \notin Trusted \/ ~taken) THEN stored[f]
                ELSE mem[f]
            takeOver == vaultRead /\ ~adopted
            secrets  == stored # NoRecord /\ stored.secrets
            inline   == IF stored = NoRecord THEN <<>> ELSE stored.inline
            own      == inline # <<>> /\ stored.session = value("session")
        IN /\ mem' = [mem EXCEPT !.session = value("session"), !.locked = value("locked"),
                                 !.account = value("account")]
           /\ last' = [last EXCEPT !.trusted = known]
           /\ dirty' = [dirty EXCEPT !.trusted = IF takeOver THEN Trusted ELSE @,
                                     !.compact = @ \/ secrets]
           /\ adopting' = takeOver
           /\ due' = (due \/ takeOver \/ secrets)
           /\ legacy' = IF own
                        THEN [inline |-> DOMAIN inline, scope |-> stored.session,
                              held |-> Without(inline, hyd.touched)]
                        ELSE legacy
           /\ hyd' = [hyd EXCEPT !.pc = "bulk", !.stored = stored]
           /\ blind' = ~recordRead
    /\ UNCHANGED <<bg, disk, write, ops, kills, fate, chosen>>

(* A cached entry is used only in its own session; an inline value of an old *)
(* record wins over it, while the session is still the one that wrote it.    *)
ScopeFitsMutant(e, s) == TRUE              \* mutant: any session's entry
ScopeFits(e, s) == e.scope = s
InlineFits(stored, s) == stored.session = s
HydrateBulk ==
    /\ hyd.pc = "bulk"
    /\ \E cacheRead \in {TRUE, ~ReadsFail} :
        LET entries == IF cacheRead THEN cache ELSE <<>>
            inline  == IF hyd.stored = NoRecord THEN <<>> ELSE hyd.stored.inline
            from    == {b \in DOMAIN inline : InlineFits(hyd.stored, mem.session)}
            fits    == {b \in DOMAIN entries \ from : ScopeFits(entries[b], mem.session)}
            value(b) == IF ~Keep(b) THEN mem.bulk[b]
                        ELSE IF b \in from THEN inline[b]
                        ELSE IF b \in fits THEN entries[b].val
                        ELSE mem.bulk[b]
            m == [mem EXCEPT !.bulk = [b \in Bulk |-> value(b)]]
            k == [last EXCEPT !.bulk = Over(Restrict(entries, fits), @)]
            kept == Drop(legacy, DOMAIN inline \ from)
            g == [inline |-> kept.inline \cup from,
                  held   |-> Over(Without(Restrict(inline, from), hyd.touched), kept.held),
                  scope  |-> IF from = {} THEN kept.scope ELSE mem.session]
            d == [dirty EXCEPT !.bulk = @ \cup from, !.compact = TRUE]
        IN /\ mem' = m
           /\ last' = k
           /\ IF inline = <<>> THEN UNCHANGED <<dirty, due, legacy, write>>
              ELSE IF write.pc = "idle" THEN BeginWrite(m, d, g, k)
              ELSE dirty' = d /\ due' = TRUE /\ legacy' = g /\ UNCHANGED write
    /\ hyd' = [hyd EXCEPT !.pc = "done", !.touched = {}, !.stored = NoRecord]
    /\ UNCHANGED <<bg, disk, adopting, ops, kills, ghosts>>

Hydration == HydrateRecord \/ HydrateBulk

-----------------------------------------------------------------------------
(* The setters of walletStore.  They run from the worker's first turn on. *)

TouchMutant(F) ==                          \* mutant: a hydration does not learn of setters
    /\ hyd' = hyd
    /\ legacy' = [legacy EXCEPT !.held = Without(@, F)]
Touch(F) ==
    /\ hyd' = [hyd EXCEPT !.touched = IF hyd.pc = "done" THEN {} ELSE @ \cup F]
    /\ legacy' = [legacy EXCEPT !.held = Without(@, F)]

MarkDirty(F) ==
    /\ ops < MaxOps
    /\ ops' = ops + 1
    /\ dirty' = [bulk    |-> dirty.bulk \cup (F \cap Bulk),
                 trusted |-> dirty.trusted \cup (F \cap Trusted),
                 compact |-> dirty.compact \/ F \cap Compact # {}]
    /\ Touch(F)
    /\ due' = TRUE
    /\ UNCHANGED <<disk, adopting, last, write, kills, blind>>

(* A value of this session, newer than any before it. *)
Fresh == [of |-> mem.session, ver |-> ops + 2]
Emptied(m) == [m EXCEPT !.account = NoData, !.bulk = [b \in Bulk |-> NoData]]

(* A login, at start or from a page: clearForWalletSwitch and setLoggedWallet *)
(* in one turn, setLocked between them when the caller requires an unlock.    *)
Login(s, requireUnlock) ==
    /\ ~bg
    /\ bg' = TRUE
    /\ mem' = [Emptied(mem) EXCEPT !.session = s, !.locked = @ \/ requireUnlock]
    /\ MarkDirty(Bulk \cup {"account", "session"} \cup IF requireUnlock THEN {"locked"} ELSE {})
    /\ fate' = [b \in Bulk |-> IF fate[b] = "kept" THEN "superseded" ELSE fate[b]]
    /\ chosen' = chosen \cup {s}

Logout ==
    /\ mem.session # NoWallet
    /\ bg' = FALSE
    /\ mem' = Defaults
    /\ MarkDirty(Bulk \cup Compact)
    /\ fate' = [b \in Bulk |-> IF fate[b] = "kept" THEN "superseded" ELSE fate[b]]
    /\ chosen' = chosen \cup {NoWallet}

SetLocked ==
    /\ mem' = [mem EXCEPT !.locked = ~@]
    /\ MarkDirty({"locked"})
    /\ UNCHANGED <<bg, fate, chosen>>

(* The loaders of the session. *)
SetAccount ==
    /\ bg
    /\ mem' = [mem EXCEPT !.account = Fresh]
    /\ MarkDirty({"account"})
    /\ UNCHANGED <<bg, fate, chosen>>

SetBulk(b) ==
    /\ bg
    /\ mem' = [mem EXCEPT !.bulk[b] = Fresh]
    /\ MarkDirty({b})
    /\ fate' = [fate EXCEPT ![b] = IF @ = "kept" THEN "superseded" ELSE @]
    /\ UNCHANGED <<bg, chosen>>

(* The browser kills the worker; it starts again, and hydrates again. *)
WorkerKilled ==
    /\ kills < MaxKills
    /\ kills' = kills + 1
    /\ mem' = Defaults
    /\ bg' = FALSE
    /\ dirty' = NothingDirty /\ adopting' = FALSE /\ due' = FALSE
    /\ last' = NothingLast /\ legacy' = NothingLegacy
    /\ hyd' = HydrationStart /\ write' = IdleWrite
    /\ blind' = FALSE
    /\ UNCHANGED <<disk, ops, fate, chosen>>

Setter == \/ \E s \in Wallets, requireUnlock \in BOOLEAN : Login(s, requireUnlock)
          \/ Logout \/ SetLocked \/ SetAccount \/ \E b \in Bulk : SetBulk(b)

Next == Writer \/ Hydration \/ Setter \/ WorkerKilled

Spec == Init /\ [][Next]_vars

(* Reads and timers settle, and storage that is asked again and again works *)
(* in the end: what the retry with backoff counts on.                       *)
Fairness == /\ WF_vars(HydrateRecord) /\ WF_vars(HydrateBulk) /\ WF_vars(Flush)
            /\ SF_vars(BulkWritten) /\ SF_vars(VaultWritten) /\ SF_vars(RecordWritten)
FairSpec == Spec /\ Fairness

-----------------------------------------------------------------------------
(* No wallet's bulk data is ever in the store under another wallet's        *)
(* session: the promise of hydrate, over kills between any two writes.      *)
BulkFollowsSession ==
    \A b \in Bulk : mem.bulk[b] # NoData => mem.bulk[b].of = mem.session

(* An old record's bulk value is in storage until a setter writes the field,  *)
(* as every login and logout does, or a start that cannot read the record     *)
(* writes over it: through failed writes, kills and a record written while    *)
(* the move is pending.                                                      *)
OnDisk(b) == (b \in DOMAIN Inline /\ Inline[b].ver >= 1) \/ Moved(b)
LegacyKept == \A b \in Bulk : fate[b] = "kept" => OnDisk(b)

(* What the worker would take the session from if it started now.           *)
DurableSession ==
    IF "session" \in DOMAIN vault THEN vault["session"]
    ELSE IF adopted \/ record = NoRecord THEN NoWallet
    ELSE record.session

(* The durable session changes only to one that a login or a logout chose: a *)
(* start replaces it with the default it starts from only while it could not  *)
(* read the record, and not any more at the next start.                      *)
SessionChosen ==
    [][DurableSession' \in chosen' \cup {DurableSession} \cup IF blind THEN {NoWallet} ELSE {}]_vars

(* While one session lasts, hydration never puts an older value over what a *)
(* setter wrote while it was reading.                                       *)
NewestSurvives ==
    [][kills' = kills /\ mem'.session = mem.session /\ mem'.bulk # Emptied(mem).bulk
         => \A b \in Bulk : mem'.bulk[b].ver >= mem.bulk[b].ver]_vars

(* Not kept by the code (README, Disagreements): no run checks it.          *)
(* A compact record names a session and a lock state only once the private  *)
(* store knows them: the comment above the trusted write.                   *)
RecordNamesOnlyKnown ==
    [][record' # record /\ adopted
         => vault = [f \in Trusted |-> record'[f]]]_vars

(* No start replaces the session with a default: flush waits for the read of   *)
(* the record lest a write replace the session, but not for one that succeeds. *)
SessionAlwaysChosen == [][DurableSession' \in chosen' \cup {DurableSession}]_vars

(* A login of the session's own wallet empties the store, not what is held.    *)
HeldOverLogin ==
    [][~bg /\ bg' /\ mem'.session = mem.session => legacy'.held = legacy.held]_vars

(* Once setters and kills have ended, and storage works, what a restart     *)
(* would hydrate is what the store holds, and no secret is in the record.   *)
Restored(b) ==
    IF b \in DOMAIN Inline /\ record.session = mem.session THEN Inline[b]
    ELSE IF b \in DOMAIN cache /\ cache[b].scope = mem.session THEN cache[b].val ELSE NoData
Settled ==
    /\ adopted
    /\ vault = [f \in Trusted |-> mem[f]]
    /\ mem.account = IF record = NoRecord THEN NoData ELSE record.account
    /\ record # NoRecord => ~record.secrets
    /\ \A b \in Bulk : Restored(b) = mem.bulk[b]
EventuallyPersisted == <>[]Settled
=============================================================================
