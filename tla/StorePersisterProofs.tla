------------------------- MODULE StorePersisterProofs -------------------------
(***************************************************************************)
(* What holds of the persisted store for any wallets, bulk fields, setter  *)
(* calls and kills, over every order of the three writes with a hydration: *)
(*  - no wallet's bulk data is in the store under another's session;       *)
(*  - a hydration puts nothing older over what a setter wrote meanwhile;   *)
(*  - the durable session changes only to one that was chosen, in a start  *)
(*    that read the record;                                                *)
(*  - the values of an old record stay in storage until a setter, or a     *)
(*    start that could not read the record, writes over them.              *)
(* Each needs an invariant over all the places a value can be in on its    *)
(* way: storage, the store, the write in flight, what is yet to be moved.  *)
(***************************************************************************)
EXTENDS StorePersister, TLAPS

Fates == {"none", "kept", "superseded", "unread"}

LEMMA PartialIn ==
    ASSUME NEW S, NEW V, NEW f,
           f = [x \in DOMAIN f |-> f[x]], DOMAIN f \subseteq S, \A x \in DOMAIN f : f[x] \in V
    PROVE  f \in PartialOn(S, V)
<1>1. f \in [DOMAIN f -> V] OBVIOUS
<1> QED BY <1>1 DEF PartialOn

LEMMA PartialOut ==
    ASSUME NEW S, NEW V, NEW f \in PartialOn(S, V)
    PROVE  f = [x \in DOMAIN f |-> f[x]] /\ DOMAIN f \subseteq S /\ \A x \in DOMAIN f : f[x] \in V
BY DEF PartialOn

LEMMA EmptyPartial == ASSUME NEW S, NEW V PROVE <<>> \in PartialOn(S, V)
<1>1. <<>> \in [{} -> V] OBVIOUS
<1> QED BY <1>1 DEF PartialOn

LEMMA OverPartial ==
    ASSUME NEW S, NEW V, NEW f \in PartialOn(S, V), NEW g \in PartialOn(S, V)
    PROVE  /\ Over(f, g) \in PartialOn(S, V)
           /\ DOMAIN Over(f, g) = DOMAIN f \cup DOMAIN g
           /\ \A x \in DOMAIN Over(f, g) :
                 Over(f, g)[x] = IF x \in DOMAIN f THEN f[x] ELSE g[x]
<1>1. DOMAIN f \subseteq S /\ \A x \in DOMAIN f : f[x] \in V  BY PartialOut
<1>2. DOMAIN g \subseteq S /\ \A x \in DOMAIN g : g[x] \in V  BY PartialOut
<1>3. Over(f, g) \in [DOMAIN f \cup DOMAIN g -> V] BY <1>1, <1>2 DEF Over
<1> QED BY <1>1, <1>2, <1>3 DEF PartialOn, Over

LEMMA RestrictPartial ==
    ASSUME NEW S, NEW V, NEW f \in PartialOn(S, V), NEW D, D \subseteq DOMAIN f
    PROVE  /\ Restrict(f, D) \in PartialOn(S, V)
           /\ DOMAIN Restrict(f, D) = D
           /\ \A x \in D : Restrict(f, D)[x] = f[x]
<1>1. DOMAIN f \subseteq S /\ \A x \in DOMAIN f : f[x] \in V  BY PartialOut
<1>2. Restrict(f, D) \in [D -> V] BY <1>1 DEF Restrict
<1> QED BY <1>1, <1>2 DEF PartialOn, Restrict

LEMMA WithoutPartial ==
    ASSUME NEW S, NEW V, NEW f \in PartialOn(S, V), NEW D
    PROVE  /\ Without(f, D) \in PartialOn(S, V)
           /\ DOMAIN Without(f, D) = DOMAIN f \ D
           /\ \A x \in DOMAIN f \ D : Without(f, D)[x] = f[x]
BY RestrictPartial DEF Without

LEMMA Fields ==
    ASSUME NEW m \in Memory, NEW F \in SUBSET Trusted
    PROVE  /\ [f \in F |-> m[f]] \in VaultOf
           /\ "session" \in F => [f \in F |-> m[f]]["session"] = m.session
<1>1. \A f \in F : m[f] \in Sessions \cup BOOLEAN
  BY DEF Memory, Trusted
<1>2. [f \in F |-> m[f]] \in [F -> Sessions \cup BOOLEAN] BY <1>1
<1>3. [f \in F |-> m[f]] \in PartialOn(Trusted, Sessions \cup BOOLEAN) BY <1>2 DEF PartialOn
<1> QED BY <1>3 DEF VaultOf, Memory

LEMMA VaultFields ==
    ASSUME NEW v \in VaultOf
    PROVE  /\ v \in PartialOn(Trusted, Sessions \cup BOOLEAN)
           /\ DOMAIN v \subseteq Trusted
           /\ "session" \in DOMAIN v => v["session"] \in Sessions
           /\ "locked" \in DOMAIN v => v["locked"] \in BOOLEAN
BY PartialOut DEF VaultOf

LEMMA OverVault ==
    ASSUME NEW v \in VaultOf, NEW u \in VaultOf
    PROVE  /\ Over(v, u) \in VaultOf
           /\ DOMAIN Over(v, u) = DOMAIN v \cup DOMAIN u
           /\ "session" \in DOMAIN Over(v, u) =>
                Over(v, u)["session"] = IF "session" \in DOMAIN v THEN v["session"] ELSE u["session"]
<1>1. /\ Over(v, u) \in PartialOn(Trusted, Sessions \cup BOOLEAN)
      /\ DOMAIN Over(v, u) = DOMAIN v \cup DOMAIN u
      /\ \A x \in DOMAIN Over(v, u) : Over(v, u)[x] = IF x \in DOMAIN v THEN v[x] ELSE u[x]
  <2> DEFINE V == Sessions \cup BOOLEAN
  <2>1. v \in PartialOn(Trusted, V) /\ u \in PartialOn(Trusted, V)
    BY VaultFields
  <2> HIDE DEF V
  <2>2. Over(v, u) \in PartialOn(Trusted, V) BY <2>1, OverPartial
  <2> QED BY <2>2 DEF V, Over
<1> QED BY <1>1, VaultFields DEF VaultOf

LEMMA EmptyVault == <<>> \in VaultOf
<1>1. <<>> \in PartialOn(Trusted, Sessions \cup BOOLEAN) BY EmptyPartial
<1> QED BY <1>1 DEF VaultOf

LEMMA StartTypes ==
    /\ NoData \in Data /\ Defaults \in Memory
    /\ NothingDirty \in Marks /\ NothingLast \in Copies
    /\ NothingLegacy \in Moves /\ DOMAIN NothingLegacy.held = {}
    /\ HydrationStart \in Hydrations /\ IdleWrite \in Writes
<1>1. NoData \in Data BY BoundsAssumption DEF NoData, Data, Sessions
<1>2. Defaults \in Memory BY <1>1 DEF Defaults, Memory, Sessions
<1>3. NothingDirty \in Marks BY DEF NothingDirty, Marks
<1>4. /\ <<>> \in PartialOn(Bulk, Entry) /\ <<>> \in PartialOn(Bulk, Data)
  BY EmptyPartial
<1>5. NothingLast \in Copies BY <1>4, EmptyVault DEF NothingLast, Copies
<1>6. NothingLegacy \in Moves /\ DOMAIN NothingLegacy.held = {}
  BY <1>4 DEF NothingLegacy, Moves, Sessions
<1>7. HydrationStart \in Hydrations BY DEF HydrationStart, Hydrations
<1>8. IdleWrite \in Writes BY <1>4, EmptyVault DEF IdleWrite, Writes
<1> QED BY <1>1, <1>2, <1>3, <1>5, <1>6, <1>7, <1>8

(* An idle writer holds nothing. *)
LEMMA IdleHolds ==
    /\ IdleWrite.pc = "idle" /\ DOMAIN IdleWrite.bulk = {} /\ IdleWrite.view = NoRecord
    /\ IdleWrite.failedBulk = {} /\ IdleWrite.failedTrusted = {}
    /\ DOMAIN IdleWrite.trusted = {} /\ IdleWrite.fields = {}
BY DEF IdleWrite

LEMMA InitTypes == Init => TypeOK
<1> SUFFICES ASSUME Init PROVE TypeOK OBVIOUS
<1>1. mem \in Memory /\ dirty \in Marks /\ last \in Copies /\ legacy \in Moves
      /\ DOMAIN legacy.held \subseteq legacy.inline /\ hyd \in Hydrations
      /\ write \in Writes /\ write.pc = "idle"
  BY StartTypes, IdleHolds DEF Init
<1>2. /\ \A s \in Wallets : /\ s \in Sessions /\ OldRecord(s) \in Record /\ NewRecord(s) \in Record
                            /\ CacheOf(s) \in PartialOn(Bulk, Entry) /\ KnownTo(s) \in VaultOf
      /\ <<>> \in PartialOn(Bulk, Entry)
  <2>1. \A s \in Wallets : s \in Sessions /\ Stored(s) \in Data /\ Older(s) \in Data
    BY BoundsAssumption DEF Sessions, Stored, Older, Data
  <2>2. <<>> \in PartialOn(Bulk, Data) /\ <<>> \in PartialOn(Bulk, Entry) BY EmptyPartial
  <2>3. ASSUME NEW s \in Wallets
        PROVE  /\ OldRecord(s) \in Record /\ NewRecord(s) \in Record
               /\ CacheOf(s) \in PartialOn(Bulk, Entry) /\ KnownTo(s) \in VaultOf
    <3>1. [b \in Bulk |-> Stored(s)] \in PartialOn(Bulk, Data) BY <2>1 DEF PartialOn
    <3>2. OldRecord(s) \in Record BY <2>1, <3>1 DEF OldRecord, Record
    <3>3. NewRecord(s) \in Record BY <2>1, <2>2 DEF NewRecord, Record
    <3>4. CacheOf(s) \in [Bulk -> Entry] BY <2>1 DEF CacheOf, Entry
    <3>5. CacheOf(s) \in PartialOn(Bulk, Entry) BY <3>4 DEF PartialOn
    <3>6. KnownTo(s) \in [Trusted -> Sessions \cup BOOLEAN] BY <2>1 DEF KnownTo
    <3>7. KnownTo(s) \in PartialOn(Trusted, Sessions \cup BOOLEAN) BY <3>6 DEF PartialOn
    <3>8. KnownTo(s) \in VaultOf BY <2>1, <3>7 DEF VaultOf, KnownTo
    <3> QED BY <3>2, <3>3, <3>5, <3>8
  <2> QED BY <2>1, <2>2, <2>3
<1>3. record \in Record \cup {NoRecord} /\ cache \in PartialOn(Bulk, Entry)
      /\ vault \in VaultOf /\ adopted \in BOOLEAN
  BY <1>2, EmptyVault DEF Init
<1>4. fate \in [Bulk -> Fates] BY DEF Init, Fates
<1>5. bg \in BOOLEAN /\ adopting \in BOOLEAN /\ due \in BOOLEAN /\ blind \in BOOLEAN
  BY DEF Init
<1>6. ops = 0 /\ kills = 0 /\ chosen = {} BY DEF Init
<1>7. ops \in 0..MaxOps /\ kills \in 0..MaxKills /\ chosen \subseteq Sessions
  BY <1>6, BoundsAssumption
<1> QED BY <1>1, <1>3, <1>4, <1>5, <1>7 DEF TypeOK, Fates

-----------------------------------------------------------------------------
(* What a stage of the writer makes of the write w with the marks d: x and e. *)
Carries(w, x) ==
    /\ x.bulk = w.bulk /\ x.fields = w.fields
    /\ x.failedBulk = w.failedBulk /\ x.failedTrusted = w.failedTrusted
Ended(w, d, x, e) ==
    /\ x = IdleWrite
    /\ e.bulk = d.bulk \cup w.failedBulk
    /\ e.trusted = d.trusted \cup w.failedTrusted
Compacting(w, m, g, d, x, e) ==
    /\ e = d /\ Carries(w, x)
    /\ x.pc = "compact" /\ x.view = CompactView(m, g)
Trusting(w, m, d, x, e) ==
    /\ e = d /\ Carries(w, x)
    /\ x.pc = "trusted" /\ x.adopting = adopting /\ x.view = w.view
    /\ \E F \in SUBSET w.fields : x.trusted = [f \in F |-> m[f]]
StageTypes(x, e) ==
    /\ x \in Writes /\ e \in Marks
    /\ x.pc = "compact" => x.view \in Record
Settles(w, m, g, d, x, e) ==
    StageTypes(x, e) /\ (Ended(w, d, x, e) \/ Compacting(w, m, g, d, x, e))
Staged(w, m, g, d, k, x, e) ==
    \/ /\ ~adopting
       /\ "session" \in w.fields => "session" \in DOMAIN k.trusted
       /\ Settles(w, m, g, d, x, e)
    \/ /\ StageTypes(x, e) /\ Trusting(w, m, d, x, e)
       /\ "session" \in w.fields \ DOMAIN k.trusted => "session" \in DOMAIN x.trusted

LEMMA ViewTyped ==
    ASSUME NEW m \in Memory, NEW g \in Moves
    PROVE  /\ CompactView(m, g) \in Record
           /\ DOMAIN CompactView(m, g).inline = g.inline
           /\ CompactView(m, g).session = m.session
           /\ \A b \in g.inline : CompactView(m, g).inline[b] =
                IF b \in DOMAIN g.held THEN g.held[b] ELSE m.bulk[b]
<1>1. DOMAIN g.held \subseteq Bulk /\ \A b \in DOMAIN g.held : g.held[b] \in Data
  BY PartialOut DEF Moves
<1>2. [b \in g.inline |-> InlineValue(m, g, b)] \in [g.inline -> Data]
  BY <1>1 DEF Memory, Moves, InlineValue
<1>3. [b \in g.inline |-> InlineValue(m, g, b)] \in PartialOn(Bulk, Data)
  BY <1>2 DEF PartialOn, Moves
<1>4. CompactView(m, g) \in Record BY <1>3 DEF CompactView, Record, Memory
<1> QED BY <1>4 DEF CompactView, InlineValue

LEMMA RetryEnds ==
    ASSUME NEW w \in Writes, NEW d \in Marks, NEW a \in BOOLEAN, due \in BOOLEAN
    PROVE  LET r == Retry(w, d, a, FALSE)
               q == Retry(w, d, a, TRUE)
           IN /\ StageTypes(r.write, r.dirty) /\ Ended(w, d, r.write, r.dirty) /\ r.due \in BOOLEAN
              /\ StageTypes(q.write, q.dirty) /\ Ended(w, d, q.write, q.dirty) /\ q.due \in BOOLEAN
<1>1. IdleWrite \in Writes /\ IdleWrite.pc # "compact" BY StartTypes, IdleHolds
<1> QED BY <1>1 DEF Retry, Ended, StageTypes, Writes, Marks

(* A write that goes on to the record, or to the private store. *)
ToRecord(w, v) == [w EXCEPT !.pc = "compact", !.view = v]
ToVault(w, t) == [w EXCEPT !.pc = "trusted", !.adopting = adopting, !.trusted = t]

LEMMA ToRecordFields ==
    ASSUME NEW w \in Writes, NEW v \in Record
    PROVE  /\ ToRecord(w, v) \in Writes
           /\ ToRecord(w, v).pc = "compact" /\ ToRecord(w, v).view = v
           /\ ToRecord(w, v).bulk = w.bulk /\ ToRecord(w, v).fields = w.fields
           /\ ToRecord(w, v).failedBulk = w.failedBulk
           /\ ToRecord(w, v).failedTrusted = w.failedTrusted
<1> DEFINE x == ToRecord(w, v)
<1>1. x \in Writes BY DEF Writes, ToRecord
<1>2. x.pc = "compact" /\ x.view = v BY DEF Writes, ToRecord
<1>3. x.bulk = w.bulk /\ x.fields = w.fields BY DEF Writes, ToRecord
<1>4. x.failedBulk = w.failedBulk /\ x.failedTrusted = w.failedTrusted BY DEF Writes, ToRecord
<1> QED BY <1>1, <1>2, <1>3, <1>4

LEMMA ToVaultFields ==
    ASSUME NEW w \in Writes, NEW t \in VaultOf, adopting \in BOOLEAN
    PROVE  /\ ToVault(w, t) \in Writes
           /\ ToVault(w, t).pc = "trusted" /\ ToVault(w, t).adopting = adopting
           /\ ToVault(w, t).trusted = t /\ ToVault(w, t).view = w.view
           /\ ToVault(w, t).bulk = w.bulk /\ ToVault(w, t).fields = w.fields
           /\ ToVault(w, t).failedBulk = w.failedBulk
           /\ ToVault(w, t).failedTrusted = w.failedTrusted
<1> DEFINE x == ToVault(w, t)
<1>1. x \in Writes BY DEF Writes, ToVault
<1>2. x.pc = "trusted" /\ x.adopting = adopting /\ x.trusted = t BY DEF Writes, ToVault
<1>3. x.bulk = w.bulk /\ x.fields = w.fields /\ x.view = w.view BY DEF Writes, ToVault
<1>4. x.failedBulk = w.failedBulk /\ x.failedTrusted = w.failedTrusted BY DEF Writes, ToVault
<1> QED BY <1>1, <1>2, <1>3, <1>4

LEMMA CompactStageSettles ==
    ASSUME NEW w \in Writes, NEW m \in Memory, NEW g \in Moves, NEW d \in Marks, NEW a \in BOOLEAN,
           due \in BOOLEAN
    PROVE  LET r == CompactStage(w, m, g, d, a)
           IN Settles(w, m, g, d, r.write, r.dirty) /\ r.due \in BOOLEAN
<1> DEFINE r == CompactStage(w, m, g, d, a)
           v == CompactView(m, g)
<1>0. v \in Record BY ViewTyped
<1> HIDE DEF v
<1>1. CASE w.compact /\ CompactView(m, g) # last.compact
  <2> DEFINE x == ToRecord(w, v)
  <2>1. r = [write |-> x, dirty |-> d, due |-> due] BY <1>1 DEF CompactStage, ToRecord, v
  <2>2. /\ x \in Writes /\ x.pc = "compact" /\ x.view = v
        /\ x.bulk = w.bulk /\ x.fields = w.fields
        /\ x.failedBulk = w.failedBulk /\ x.failedTrusted = w.failedTrusted
    BY <1>0, ToRecordFields
  <2> HIDE DEF x, r
  <2>3. r.write = x /\ r.dirty = d /\ r.due = due BY <2>1
  <2> QED BY <1>0, <2>2, <2>3 DEF Settles, StageTypes, Compacting, Carries, v, r
<1>2. CASE ~(w.compact /\ CompactView(m, g) # last.compact)
  <2>1. r = Retry(w, d, a, FALSE) BY <1>2 DEF CompactStage
  <2> HIDE DEF r
  <2>2. StageTypes(r.write, r.dirty) /\ Ended(w, d, r.write, r.dirty) /\ r.due \in BOOLEAN
    BY <2>1, RetryEnds
  <2> QED BY <2>2 DEF Settles, r
<1> QED BY <1>1, <1>2

LEMMA TrustedStageStages ==
    ASSUME NEW w \in Writes, NEW m \in Memory, NEW g \in Moves, NEW d \in Marks, NEW k \in Copies,
           due \in BOOLEAN, adopting \in BOOLEAN
    PROVE  LET r == TrustedStage(w, m, g, d, k)
           IN Staged(w, m, g, d, k, r.write, r.dirty) /\ r.due \in BOOLEAN
<1> DEFINE changed == {f \in w.fields : f \notin DOMAIN k.trusted \/ k.trusted[f] # m[f]}
           r == TrustedStage(w, m, g, d, k)
           t == [f \in changed |-> m[f]]
<1>0. changed \in SUBSET w.fields /\ changed \in SUBSET Trusted BY DEF Writes
<1>00. "session" \in w.fields \ DOMAIN k.trusted => "session" \in changed OBVIOUS
<1>1. CASE changed # {} \/ adopting
  <2> DEFINE x == ToVault(w, t)
  <2>1. r = [write |-> x, dirty |-> d, due |-> due] BY <1>1 DEF TrustedStage, ToVault
  <2>2. t \in VaultOf /\ DOMAIN t = changed
    <3> HIDE DEF changed
    <3> QED BY <1>0, Fields
  <2> HIDE DEF t
  <2>3. /\ x \in Writes /\ x.pc = "trusted" /\ x.adopting = adopting /\ x.trusted = t
        /\ x.bulk = w.bulk /\ x.fields = w.fields /\ x.view = w.view
        /\ x.failedBulk = w.failedBulk /\ x.failedTrusted = w.failedTrusted
    BY <2>2, ToVaultFields
  <2> HIDE DEF x, r, changed
  <2>4. r.write = x /\ r.dirty = d /\ r.due = due BY <2>1
  <2>5. Trusting(w, m, d, r.write, r.dirty) BY <1>0, <2>3, <2>4 DEF Trusting, Carries, t
  <2> QED BY <1>00, <2>2, <2>3, <2>4, <2>5 DEF Staged, StageTypes, r
<1>2. CASE ~(changed # {} \/ adopting)
  <2>1. r = CompactStage(w, m, g, d, adopting) BY <1>2 DEF TrustedStage
  <2> HIDE DEF r
  <2>2. "session" \in w.fields => "session" \in DOMAIN k.trusted BY <1>2, <1>00
  <2>3. Settles(w, m, g, d, r.write, r.dirty) /\ r.due \in BOOLEAN BY <2>1, CompactStageSettles
  <2> QED BY <1>2, <2>2, <2>3 DEF Staged, r
<1> QED BY <1>1, <1>2

-----------------------------------------------------------------------------
(* What the start of a write leaves of the legacy data. *)
Narrows(g, h) ==
    /\ h.inline \subseteq g.inline /\ h.scope = g.scope
    /\ DOMAIN h.held \subseteq DOMAIN g.held
    /\ \A b \in DOMAIN h.held : h.held[b] = g.held[b]
    /\ \A b \in DOMAIN g.held : b \in h.inline => b \in DOMAIN h.held

LEMMA DropFields ==
    ASSUME NEW g \in Moves, NEW S, DOMAIN g.held \subseteq g.inline
    PROVE  /\ Drop(g, S) \in Moves
           /\ Drop(g, S).inline = g.inline \ S
           /\ DOMAIN Drop(g, S).held = DOMAIN g.held \ S
           /\ DOMAIN Drop(g, S).held \subseteq Drop(g, S).inline
           /\ Narrows(g, Drop(g, S))
<1> DEFINE h == Without(g.held, S)
<1>1. /\ h \in PartialOn(Bulk, Data) /\ DOMAIN h = DOMAIN g.held \ S
      /\ \A x \in DOMAIN g.held \ S : h[x] = g.held[x]
  <2>1. g.held \in PartialOn(Bulk, Data) BY DEF Moves
  <2>2. h \in PartialOn(Bulk, Data) BY <2>1, WithoutPartial
  <2> QED BY <2>2 DEF Without, Restrict
<1> HIDE DEF h
<1>2. Drop(g, S) \in Moves /\ Drop(g, S).inline = g.inline \ S
      /\ Drop(g, S).held = h /\ Drop(g, S).scope = g.scope
  BY <1>1 DEF Moves, Drop, h
<1> QED BY <1>1, <1>2 DEF Narrows

LEMMA OwnLegacyFields ==
    ASSUME NEW m, NEW g \in Moves, DOMAIN g.held \subseteq g.inline
    PROVE  /\ OwnLegacy(m, g) \in Moves
           /\ DOMAIN OwnLegacy(m, g).held \subseteq OwnLegacy(m, g).inline
           /\ Narrows(g, OwnLegacy(m, g))
           /\ m.session = g.scope => OwnLegacy(m, g) = g
<1> DEFINE h == [g EXCEPT !.inline = {}, !.held = <<>>]
<1>1. h \in Moves /\ h.inline = {} /\ h.held = <<>> /\ h.scope = g.scope
  BY EmptyPartial DEF Moves
<1> HIDE DEF h
<1>2. OwnLegacy(m, g) = IF g.inline # {} /\ m.session # g.scope THEN h ELSE g
  BY DEF OwnLegacy, h
<1> QED BY <1>1, <1>2 DEF Narrows

LEMMA NarrowsChain ==
    ASSUME NEW f, NEW g, NEW h, Narrows(f, g), Narrows(g, h)
    PROVE  Narrows(f, h)
BY DEF Narrows

(* A write that starts. *)
Starting(B, F, C) == [IdleWrite EXCEPT !.bulk = B, !.fields = F, !.compact = C]

StartsWith(w, B, F) ==
    /\ w \in Writes /\ w.bulk = B /\ w.fields = F /\ w.view = NoRecord
    /\ w.failedBulk = {} /\ w.failedTrusted = {}

LEMMA StartingFields ==
    ASSUME NEW B \in PartialOn(Bulk, Entry), NEW F \in SUBSET Trusted, NEW C \in BOOLEAN
    PROVE  StartsWith(Starting(B, F, C), B, F)
<1>1. IdleWrite \in Writes BY StartTypes
<1>2. Starting(B, F, C) \in Writes BY <1>1 DEF Starting, Writes
<1> QED BY <1>2 DEF Starting, IdleWrite, StartsWith

LEMMA ToBulkFields ==
    ASSUME NEW w \in Writes
    PROVE  LET x == [w EXCEPT !.pc = "bulk"] IN
           x \in Writes /\ x.pc = "bulk" /\ Carries(w, x) /\ x.view = w.view
BY DEF Writes, Carries

(* What BeginWrite makes of the marks d and the legacy data g. *)
Current(b, m, g, k) ==
    b \in DOMAIN k.bulk /\ (b \in DOMAIN g.held => k.bulk[b].val = g.held[b])
BulkStarts(m, d, g) ==
    /\ dirty' = NothingDirty
    /\ write' \in Writes /\ write'.pc = "bulk" /\ write'.fields = d.trusted
    /\ write'.failedBulk = {} /\ write'.failedTrusted = {} /\ write'.view = NoRecord
    /\ \A b \in DOMAIN write'.bulk :
         /\ b \in d.bulk /\ write'.bulk[b].scope = m.session
         /\ \/ write'.bulk[b].val = m.bulk[b]
            \/ b \in DOMAIN g.held /\ write'.bulk[b].val = g.held[b]
LaterStarts(m, d, k) ==
    \E w \in Writes :
        /\ w.fields = d.trusted /\ DOMAIN w.bulk = {} /\ w.view = NoRecord
        /\ w.failedBulk = {} /\ w.failedTrusted = {}
        /\ Staged(w, m, legacy', NothingDirty, k, write', dirty')
Begun(m, d, g, k) ==
    /\ legacy' \in Moves /\ DOMAIN legacy'.held \subseteq legacy'.inline
    /\ Narrows(g, legacy')
    /\ m.session = g.scope => \A b \in g.inline \ legacy'.inline : Current(b, m, g, k)
    /\ due' \in BOOLEAN
    /\ BulkStarts(m, d, g) \/ LaterStarts(m, d, k)

LEMMA BeginWriteBegins ==
    ASSUME NEW m \in Memory, NEW d \in Marks, NEW g0 \in Moves, NEW k \in Copies,
           DOMAIN g0.held \subseteq g0.inline, due \in BOOLEAN, adopting \in BOOLEAN,
           BeginWrite(m, d, g0, k)
    PROVE  Begun(m, d, g0, k)
<1> DEFINE g == OwnLegacy(m, g0)
           entry(b) == [scope |-> m.session,
                        val |-> IF b \in DOMAIN g.held THEN g.held[b] ELSE m.bulk[b]]
           current == {b \in d.bulk : b \in DOMAIN k.bulk /\ k.bulk[b] = entry(b)}
           left == Drop(g, current)
           B == [b \in d.bulk \ current |-> entry(b)]
           C == d.compact \/ current \cap g.inline # {}
           w == Starting(B, d.trusted, C)
           r == TrustedStage(w, m, left, NothingDirty, k)
<1>1. /\ legacy' = left
      /\ IF d.bulk # current
         THEN write' = [w EXCEPT !.pc = "bulk"] /\ dirty' = NothingDirty /\ due' = FALSE
         ELSE write' = r.write /\ dirty' = r.dirty /\ due' = (r.write.pc = "idle" /\ adopting)
  BY DEF BeginWrite, Starting
<1>2. /\ g \in Moves /\ DOMAIN g.held \subseteq g.inline /\ Narrows(g0, g)
      /\ m.session = g0.scope => g = g0
  BY OwnLegacyFields
<1> HIDE DEF g
<1>3. \A b \in d.bulk : /\ entry(b) \in Entry /\ entry(b).scope = m.session
                        /\ entry(b).val = IF b \in DOMAIN g.held THEN g.held[b] ELSE m.bulk[b]
  <2>1. \A b \in DOMAIN g.held : g.held[b] \in Data BY <1>2, PartialOut DEF Moves
  <2>2. d.bulk \subseteq Bulk BY DEF Marks
  <2> QED BY <2>1, <2>2 DEF Memory, Entry
<1>4. \A b \in current : /\ b \in DOMAIN k.bulk
                         /\ b \in DOMAIN g.held => k.bulk[b].val = g.held[b]
  BY <1>3
<1> HIDE DEF entry
<1>5. /\ B \in PartialOn(Bulk, Entry) /\ DOMAIN B = d.bulk \ current
      /\ \A b \in DOMAIN B : B[b] = entry(b)
  <2>1. d.bulk \ current \subseteq Bulk BY DEF Marks
  <2> HIDE DEF current
  <2>2. B \in [d.bulk \ current -> Entry] BY <1>3
  <2> QED BY <2>1, <2>2 DEF PartialOn
<1> HIDE DEF B
<1>6. C \in BOOLEAN /\ d.trusted \in SUBSET Trusted BY DEF Marks
<1> HIDE DEF C
<1>7. /\ w \in Writes /\ w.bulk = B /\ w.fields = d.trusted /\ w.view = NoRecord
      /\ w.failedBulk = {} /\ w.failedTrusted = {}
  <2> DEFINE F == d.trusted
  <2>1. B \in PartialOn(Bulk, Entry) /\ F \in SUBSET Trusted /\ C \in BOOLEAN BY <1>5, <1>6
  <2> HIDE DEF F
  <2>2. StartsWith(Starting(B, F, C), B, F)
    BY <2>1, StartingFields
  <2> QED BY <2>2 DEF StartsWith, F
<1> HIDE DEF w
<1>8. /\ left \in Moves /\ left.inline = g.inline \ current
      /\ DOMAIN left.held \subseteq left.inline /\ Narrows(g, left)
  <2> HIDE DEF current
  <2> QED BY <1>2, DropFields
<1>9. legacy' = left BY <1>1
<1>10. Narrows(g0, legacy') BY <1>2, <1>8, <1>9, NarrowsChain
<1>11. m.session = g0.scope => \A b \in g0.inline \ legacy'.inline : Current(b, m, g0, k)
  BY <1>2, <1>4, <1>8, <1>9 DEF Current
<1>12. CASE d.bulk # current
  <2>1. write' = [w EXCEPT !.pc = "bulk"] /\ dirty' = NothingDirty /\ due' = FALSE
    BY <1>1, <1>12
  <2>2. write' \in Writes /\ write'.pc = "bulk" /\ Carries(w, write') /\ write'.view = w.view
    BY <1>7, <2>1, ToBulkFields
  <2>3. \A b \in DOMAIN B :
         /\ b \in d.bulk /\ B[b].scope = m.session
         /\ \/ B[b].val = m.bulk[b]
            \/ b \in DOMAIN g0.held /\ B[b].val = g0.held[b]
    BY <1>2, <1>3, <1>5 DEF Narrows
  <2>4. BulkStarts(m, d, g0)
    BY <1>7, <2>1, <2>2, <2>3 DEF BulkStarts, Carries
  <2>5. due' \in BOOLEAN BY <2>1
  <2> QED BY <1>8, <1>9, <1>10, <1>11, <2>4, <2>5 DEF Begun
<1>13. CASE d.bulk = current
  <2>1. write' = r.write /\ dirty' = r.dirty /\ due' \in BOOLEAN BY <1>1, <1>13
  <2>2. NothingDirty \in Marks BY StartTypes
  <2>3. Staged(w, m, left, NothingDirty, k, r.write, r.dirty)
    <3> HIDE DEF left
    <3> QED BY <1>7, <1>8, <2>2, TrustedStageStages
  <2>4. DOMAIN w.bulk = {} BY <1>5, <1>7, <1>13
  <2>5. LaterStarts(m, d, k)
    <3> HIDE DEF r, left
    <3> QED BY <1>7, <1>9, <2>1, <2>3, <2>4 DEF LaterStarts
  <2> QED BY <1>8, <1>9, <1>10, <1>11, <2>1, <2>5 DEF Begun
<1> QED BY <1>12, <1>13

-----------------------------------------------------------------------------
(* What the steps of the writer do. *)

LEMMA FlushEffect ==
    ASSUME TypeOK, Flush
    PROVE  /\ hyd.pc # "record" /\ write.pc = "idle"
           /\ UNCHANGED <<mem, bg, disk, adopting, last, hyd, ops, kills, ghosts>>
           /\ \/ due' \in BOOLEAN /\ UNCHANGED <<dirty, legacy, write>>
              \/ Begun(mem, dirty, legacy, last)
<1>1. CASE dirty = NothingDirty /\ ~adopting
  <2>1. due' = FALSE /\ UNCHANGED <<dirty, legacy, write>> BY <1>1 DEF Flush
  <2>2. due' \in BOOLEAN BY <2>1
  <2> QED BY <2>1, <2>2 DEF Flush, Gate
<1>2. CASE ~(dirty = NothingDirty /\ ~adopting)
  <2>1. BeginWrite(mem, dirty, legacy, last) BY <1>2 DEF Flush
  <2>2. Begun(mem, dirty, legacy, last) BY <2>1, BeginWriteBegins DEF TypeOK
  <2> QED BY <2>2 DEF Flush, Gate
<1> QED BY <1>1, <1>2

(* The write, when a stage of it has been added to its fields. *)
WithFailedBulk(w, F, C) == [w EXCEPT !.failedBulk = F, !.compact = C]
LEMMA WithFailedBulkFields ==
    ASSUME NEW w \in Writes, NEW F \in SUBSET Bulk, NEW C \in BOOLEAN
    PROVE  LET x == WithFailedBulk(w, F, C) IN
           /\ x \in Writes /\ x.bulk = w.bulk /\ x.fields = w.fields /\ x.view = w.view
           /\ x.failedBulk = F /\ x.failedTrusted = w.failedTrusted
BY DEF Writes, WithFailedBulk

LEMMA WithCompactFields ==
    ASSUME NEW w \in Writes, NEW C \in BOOLEAN
    PROVE  LET x == [w EXCEPT !.compact = C] IN
           x \in Writes /\ Carries(w, x) /\ x.view = w.view
BY DEF Writes, Carries

LEMMA WithFailedTrustedFields ==
    ASSUME NEW w \in Writes, NEW F \in SUBSET Trusted
    PROVE  LET x == [w EXCEPT !.failedTrusted = F] IN
           /\ x \in Writes /\ x.bulk = w.bulk /\ x.fields = w.fields /\ x.view = w.view
           /\ x.failedTrusted = F /\ x.failedBulk = w.failedBulk
BY DEF Writes

LEMMA BulkWrittenEffect ==
    ASSUME TypeOK, BulkWritten
    PROVE  /\ write.pc = "bulk"
           /\ cache' = Over(write.bulk, cache)
           /\ last' \in Copies
           /\ last'.bulk = Over(write.bulk, last.bulk) /\ last'.trusted = last.trusted
           /\ legacy' = Drop(legacy, DOMAIN write.bulk)
           /\ due' \in BOOLEAN
           /\ UNCHANGED <<mem, bg, record, vault, adopted, adopting, hyd, ops, kills, ghosts>>
           /\ \E w \in Writes :
                /\ Carries(write, w) /\ w.view = write.view
                /\ Staged(w, mem, legacy', dirty, last, write', dirty')
<1> DEFINE C == write.compact \/ legacy.inline \cap DOMAIN write.bulk # {}
           w == [write EXCEPT !.compact = C]
           r == TrustedStage(w, mem, legacy', dirty, last)
           k == Over(write.bulk, last.bulk)
<1>1. C \in BOOLEAN BY DEF TypeOK, Writes
<1>2. write' = r.write /\ dirty' = r.dirty /\ due' = r.due BY DEF BulkWritten, Proceed
<1> HIDE DEF C
<1>3. w \in Writes /\ Carries(write, w) /\ w.view = write.view
  BY <1>1, WithCompactFields DEF TypeOK
<1> HIDE DEF w
<1>4. legacy' = Drop(legacy, DOMAIN write.bulk) BY DEF BulkWritten
<1>5. legacy' \in Moves BY <1>4, DropFields DEF TypeOK
<1>6. Staged(w, mem, legacy', dirty, last, r.write, r.dirty) /\ r.due \in BOOLEAN
  BY <1>3, <1>5, TrustedStageStages DEF TypeOK
<1>7. k \in PartialOn(Bulk, Entry)
  <2>1. write.bulk \in PartialOn(Bulk, Entry) /\ last.bulk \in PartialOn(Bulk, Entry)
    BY DEF TypeOK, Writes, Copies
  <2> QED BY <2>1, OverPartial
<1> HIDE DEF r, k
<1>8. last' = [last EXCEPT !.bulk = k] BY DEF BulkWritten, k
<1>9. last' \in Copies /\ last'.bulk = k /\ last'.trusted = last.trusted
  BY <1>7, <1>8 DEF TypeOK, Copies
<1> QED BY <1>2, <1>3, <1>4, <1>6, <1>9 DEF BulkWritten, k

LEMMA BulkFailedEffect ==
    ASSUME TypeOK, BulkFailed
    PROVE  /\ write.pc = "bulk" /\ due' \in BOOLEAN
           /\ UNCHANGED <<mem, bg, disk, adopting, last, legacy, hyd, ops, kills, ghosts>>
           /\ \E w \in Writes :
                /\ w.bulk = write.bulk /\ w.fields = write.fields /\ w.view = write.view
                /\ w.failedBulk = DOMAIN write.bulk /\ w.failedTrusted = write.failedTrusted
                /\ Staged(w, mem, legacy, dirty, last, write', dirty')
<1> DEFINE F == DOMAIN write.bulk
           C == write.compact \/ legacy.inline \cap F # {}
           w == WithFailedBulk(write, F, C)
           r == TrustedStage(w, mem, legacy, dirty, last)
<1>1. C \in BOOLEAN BY DEF TypeOK, Writes
<1>2. F \in SUBSET Bulk
  <2>1. write.bulk \in PartialOn(Bulk, Entry) BY DEF TypeOK, Writes
  <2> QED BY <2>1, PartialOut
<1>3. write' = r.write /\ dirty' = r.dirty /\ due' = r.due
  BY DEF BulkFailed, Proceed, WithFailedBulk
<1> HIDE DEF C, F
<1>4. /\ w \in Writes /\ w.bulk = write.bulk /\ w.fields = write.fields /\ w.view = write.view
      /\ w.failedBulk = F /\ w.failedTrusted = write.failedTrusted
  BY <1>1, <1>2, WithFailedBulkFields DEF TypeOK
<1> HIDE DEF w
<1>5. Staged(w, mem, legacy, dirty, last, r.write, r.dirty) /\ r.due \in BOOLEAN
  BY <1>4, TrustedStageStages DEF TypeOK
<1> HIDE DEF r
<1> QED BY <1>3, <1>4, <1>5 DEF BulkFailed, F

(* The two commits that may leave a value behind that the start did not read. *)
LEMMA UnreadEffect ==
    ASSUME TypeOK, NEW S, Unread(S)
    PROVE  /\ fate' \in [Bulk -> Fates]
           /\ \A b \in Bulk : fate'[b] = "kept" => fate[b] = "kept" /\ (blind => b \notin S)
BY DEF TypeOK, Unread, Fates

LEMMA VaultWrittenEffect ==
    ASSUME TypeOK, VaultWritten
    PROVE  /\ write.pc = "trusted" /\ due' \in BOOLEAN
           /\ vault' = Over(write.trusted, vault)
           /\ adopted' = (adopted \/ write.adopting)
           /\ adopting' = (adopting /\ ~write.adopting)
           /\ last' \in Copies
           /\ last'.trusted = Over(write.trusted, last.trusted) /\ last'.bulk = last.bulk
           /\ UNCHANGED <<mem, bg, record, cache, legacy, hyd, ops, kills, chosen, blind>>
           /\ Settles(write, mem, legacy, dirty, write', dirty')
           /\ fate' \in [Bulk -> Fates]
           /\ \A b \in Bulk : fate'[b] = "kept" =>
                /\ fate[b] = "kept"
                /\ blind /\ b \in DOMAIN Inline /\ "session" \in DOMAIN vault'
                     => vault'["session"] = record.session
<1> DEFINE r == CompactStage(write, mem, legacy, dirty, adopting')
           k == Over(write.trusted, last.trusted)
<1>1. write' = r.write /\ dirty' = r.dirty /\ due' = r.due BY DEF VaultWritten, Proceed
<1>2. adopting' = (adopting /\ ~write.adopting) BY DEF VaultWritten
<1>3. adopting' \in BOOLEAN BY <1>2
<1>4. Settles(write, mem, legacy, dirty, r.write, r.dirty) /\ r.due \in BOOLEAN
  BY <1>3, CompactStageSettles DEF TypeOK
<1>5. k \in VaultOf
  <2>1. write.trusted \in VaultOf /\ last.trusted \in VaultOf BY DEF TypeOK, Writes, Copies
  <2> QED BY <2>1, OverVault
<1> HIDE DEF r, k
<1>6. last' = [last EXCEPT !.trusted = k] BY DEF VaultWritten, k
<1>7. last' \in Copies /\ last'.trusted = k /\ last'.bulk = last.bulk
  BY <1>5, <1>6 DEF TypeOK, Copies
<1> DEFINE S == {b \in DOMAIN Inline :
                    "session" \in DOMAIN vault' /\ vault'["session"] # record.session}
<1>8. Unread(S) BY DEF VaultWritten
<1>9. /\ fate' \in [Bulk -> Fates]
      /\ \A b \in Bulk : fate'[b] = "kept" => fate[b] = "kept" /\ (blind => b \notin S)
  <2> HIDE DEF S
  <2> QED BY <1>8, UnreadEffect
<1> QED BY <1>1, <1>2, <1>4, <1>7, <1>9 DEF VaultWritten, k

LEMMA VaultFailedEffect ==
    ASSUME TypeOK, VaultFailed
    PROVE  /\ write.pc = "trusted" /\ due' \in BOOLEAN
           /\ UNCHANGED <<mem, bg, disk, adopting, last, legacy, hyd, ops, kills, ghosts>>
           /\ \E w \in Writes :
                /\ w.bulk = write.bulk /\ w.failedBulk = write.failedBulk
                /\ w.failedTrusted = DOMAIN write.trusted
                /\ Settles(w, mem, legacy, dirty, write', dirty')
<1> DEFINE F == DOMAIN write.trusted
           w == [write EXCEPT !.failedTrusted = F]
           r == CompactStage(w, mem, legacy, dirty, adopting)
<1>1. write' = r.write /\ dirty' = r.dirty /\ due' = r.due BY DEF VaultFailed, Proceed
<1>2. F \in SUBSET Trusted
  <2>1. write.trusted \in VaultOf BY DEF TypeOK, Writes
  <2> QED BY <2>1, VaultFields
<1> HIDE DEF F
<1>3. /\ w \in Writes /\ w.bulk = write.bulk /\ w.failedTrusted = F
      /\ w.failedBulk = write.failedBulk
  BY <1>2, WithFailedTrustedFields DEF TypeOK
<1> HIDE DEF w
<1>4. Settles(w, mem, legacy, dirty, r.write, r.dirty) /\ r.due \in BOOLEAN
  BY <1>3, CompactStageSettles DEF TypeOK
<1> HIDE DEF r
<1> QED BY <1>1, <1>3, <1>4 DEF VaultFailed, F

LEMMA RecordWrittenEffect ==
    ASSUME TypeOK, RecordWritten
    PROVE  /\ write.pc = "compact" /\ due' \in BOOLEAN
           /\ record' = write.view
           /\ last' \in Copies
           /\ last'.bulk = last.bulk /\ last'.trusted = last.trusted
           /\ UNCHANGED <<mem, bg, cache, vault, adopted, adopting, legacy, hyd, ops, kills, chosen, blind>>
           /\ StageTypes(write', dirty') /\ Ended(write, dirty, write', dirty')
           /\ fate' \in [Bulk -> Fates]
           /\ \A b \in Bulk : fate'[b] = "kept" => fate[b] = "kept" /\ (blind => Moved(b))
<1> DEFINE r == Retry(write, dirty, adopting, FALSE)
<1>1. write' = r.write /\ dirty' = r.dirty /\ due' = r.due BY DEF RecordWritten, Proceed
<1>2. StageTypes(r.write, r.dirty) /\ Ended(write, dirty, r.write, r.dirty) /\ r.due \in BOOLEAN
  BY RetryEnds DEF TypeOK
<1> HIDE DEF r
<1>3. last' \in Copies /\ last'.bulk = last.bulk /\ last'.trusted = last.trusted
  BY DEF RecordWritten, TypeOK, Copies, Writes
<1> DEFINE S == {b \in Bulk : ~Moved(b)}
<1>4. Unread(S) BY DEF RecordWritten
<1>5. /\ fate' \in [Bulk -> Fates]
      /\ \A b \in Bulk : fate'[b] = "kept" => fate[b] = "kept" /\ (blind => b \notin S)
  <2> HIDE DEF S
  <2> QED BY <1>4, UnreadEffect
<1> QED BY <1>1, <1>2, <1>3, <1>5 DEF RecordWritten

LEMMA RecordFailedEffect ==
    ASSUME TypeOK, RecordFailed
    PROVE  /\ write.pc = "compact" /\ due' \in BOOLEAN
           /\ UNCHANGED <<mem, bg, disk, adopting, last, legacy, hyd, ops, kills, ghosts>>
           /\ StageTypes(write', dirty') /\ Ended(write, dirty, write', dirty')
<1> DEFINE r == Retry(write, dirty, adopting, TRUE)
<1>1. write' = r.write /\ dirty' = r.dirty /\ due' = r.due BY DEF RecordFailed, Proceed
<1>2. StageTypes(r.write, r.dirty) /\ Ended(write, dirty, r.write, r.dirty) /\ r.due \in BOOLEAN
  BY RetryEnds DEF TypeOK
<1> HIDE DEF r
<1> QED BY <1>1, <1>2 DEF RecordFailed

-----------------------------------------------------------------------------
(* What the two reads of a hydration do. *)

RecordRead(stored, known, taken, takeOver) ==
    /\ stored \in {record, NoRecord}
    /\ \/ known = vault /\ taken = adopted /\ takeOver = ~adopted
       \/ known = <<>> /\ taken = FALSE /\ takeOver = FALSE
    /\ mem' \in Memory /\ mem'.bulk = mem.bulk
    /\ mem'.session =
         IF "session" \in hyd.touched THEN mem.session
         ELSE IF "session" \in DOMAIN known THEN known["session"]
         ELSE IF stored # NoRecord /\ ~taken THEN stored.session ELSE mem.session
    /\ last' \in Copies /\ last'.trusted = known /\ last'.bulk = last.bulk
    /\ dirty' \in Marks /\ dirty'.bulk = dirty.bulk
    /\ dirty'.trusted = IF takeOver THEN Trusted ELSE dirty.trusted
    /\ adopting' = takeOver
    /\ \/ /\ legacy' = legacy
          /\ stored # NoRecord => stored.inline = <<>> \/ stored.session # mem'.session
       \/ /\ stored # NoRecord /\ stored.session = mem'.session
          /\ legacy' \in Moves /\ legacy'.scope = stored.session
          /\ legacy'.inline = DOMAIN stored.inline
          /\ DOMAIN legacy'.held = DOMAIN stored.inline \ hyd.touched
          /\ \A b \in DOMAIN legacy'.held : legacy'.held[b] = stored.inline[b]
    /\ hyd' \in Hydrations
    /\ hyd'.pc = "bulk" /\ hyd'.touched = hyd.touched /\ hyd'.stored = stored
    /\ blind' \in BOOLEAN /\ stored = IF blind' THEN NoRecord ELSE record

LEMMA RecordFields ==
    ASSUME NEW r \in Record
    PROVE  /\ r.session \in Sessions /\ r.locked \in BOOLEAN /\ r.account \in Data
           /\ r["session"] = r.session /\ r["locked"] = r.locked /\ r["account"] = r.account
           /\ r.inline \in PartialOn(Bulk, Data) /\ r.secrets \in BOOLEAN
           /\ DOMAIN r.inline \subseteq Bulk /\ \A b \in DOMAIN r.inline : r.inline[b] \in Data
<1>1. r.inline \in PartialOn(Bulk, Data) BY DEF Record
<1>2. DOMAIN r.inline \subseteq Bulk /\ \A b \in DOMAIN r.inline : r.inline[b] \in Data
  BY <1>1, PartialOut
<1> QED BY <1>1, <1>2 DEF Record

LEMMA HydrateRecordEffect ==
    ASSUME TypeOK, HydrateRecord
    PROVE  /\ hyd.pc = "record" /\ due' \in BOOLEAN
           /\ UNCHANGED <<bg, disk, write, ops, kills, fate, chosen>>
           /\ \E stored, known, taken, takeOver : RecordRead(stored, known, taken, takeOver)
<1>1. PICK recordRead \in {TRUE, ~ReadsFail}, vaultRead \in {TRUE, ~ReadsFail} :
        LET stored == IF recordRead THEN record ELSE NoRecord
            known  == IF vaultRead THEN vault ELSE <<>>
            taken  == vaultRead /\ adopted
            value(f) ==
                IF f \in hyd.touched THEN mem[f]
                ELSE IF f \in DOMAIN known THEN known[f]
                ELSE IF stored # NoRecord /\ (f \notin Trusted \/ ~taken) THEN stored[f]
                ELSE mem[f]
            takeOver == vaultRead /\ ~adopted
            secrets  == stored # NoRecord /\ stored.secrets
            inline   == IF stored = NoRecord THEN <<>> ELSE stored.inline
            own      == inline # <<>> /\ stored.session = value("session")
        IN /\ mem' = [mem EXCEPT !.session = value("session"), !.locked = value("locked"),
                                 !.account = value("account")]
           /\ last' = [last EXCEPT !.trusted = known]
           /\ dirty' = [dirty EXCEPT !.trusted = IF takeOver THEN Trusted ELSE @,
                                     !.compact = @ \/ secrets]
           /\ adopting' = takeOver
           /\ due' = (due \/ takeOver \/ secrets)
           /\ legacy' = IF own
                        THEN [inline |-> DOMAIN inline, scope |-> stored.session,
                              held |-> Without(inline, hyd.touched)]
                        ELSE legacy
           /\ hyd' = [hyd EXCEPT !.pc = "bulk", !.stored = stored]
           /\ blind' = ~recordRead
  BY DEF HydrateRecord
<1>0. recordRead \in BOOLEAN /\ vaultRead \in BOOLEAN BY BoundsAssumption
<1> DEFINE stored == IF recordRead THEN record ELSE NoRecord
           known  == IF vaultRead THEN vault ELSE <<>>
           taken  == vaultRead /\ adopted
           takeOver == vaultRead /\ ~adopted
           value(f) == IF f \in hyd.touched THEN mem[f]
                       ELSE IF f \in DOMAIN known THEN known[f]
                       ELSE IF stored # NoRecord /\ (f \notin Trusted \/ ~taken) THEN stored[f]
                       ELSE mem[f]
           secrets  == stored # NoRecord /\ stored.secrets
           inline   == IF stored = NoRecord THEN <<>> ELSE stored.inline
           s == value("session")
           l == value("locked")
           a == value("account")
           own == inline # <<>> /\ stored.session = s
           h == Without(inline, hyd.touched)
<1>2. /\ stored \in {record, NoRecord} /\ known \in VaultOf
      /\ taken \in BOOLEAN /\ takeOver \in BOOLEAN
      /\ \/ known = vault /\ taken = adopted /\ takeOver = ~adopted
         \/ known = <<>> /\ taken = FALSE /\ takeOver = FALSE
  BY <1>0, EmptyVault DEF TypeOK
<1>3. stored # NoRecord => stored \in Record BY <1>2 DEF TypeOK
<1>4. /\ mem' = [mem EXCEPT !.session = s, !.locked = l, !.account = a]
      /\ last' = [last EXCEPT !.trusted = known]
      /\ dirty' = [dirty EXCEPT !.trusted = IF takeOver THEN Trusted ELSE @, !.compact = @ \/ secrets]
      /\ adopting' = takeOver /\ due' = (due \/ takeOver \/ secrets)
      /\ legacy' = IF own THEN [inline |-> DOMAIN inline, scope |-> stored.session, held |-> h]
                   ELSE legacy
      /\ hyd' = [hyd EXCEPT !.pc = "bulk", !.stored = stored]
  BY <1>1
<1>5. stored = IF blind' THEN NoRecord ELSE record BY <1>0, <1>1
<1>6. blind' \in BOOLEAN BY <1>0, <1>1
<1> HIDE <1>1
<1> HIDE DEF stored, known, taken, takeOver
<1>7. mem["session"] = mem.session /\ mem["locked"] = mem.locked /\ mem["account"] = mem.account
      /\ mem.session \in Sessions /\ mem.locked \in BOOLEAN /\ mem.account \in Data
  BY DEF TypeOK, Memory
<1>8. s = IF "session" \in hyd.touched THEN mem.session
          ELSE IF "session" \in DOMAIN known THEN known["session"]
          ELSE IF stored # NoRecord /\ ~taken THEN stored.session ELSE mem.session
  BY <1>3, <1>7, RecordFields DEF Trusted
<1>9. s \in Sessions BY <1>2, <1>3, <1>7, <1>8, RecordFields, VaultFields
<1>10. l \in BOOLEAN BY <1>2, <1>3, <1>7, RecordFields, VaultFields DEF Trusted
<1>11. a \in Data
  <2>1. "account" \notin DOMAIN known BY <1>2, VaultFields DEF Trusted
  <2> QED BY <2>1, <1>3, <1>7, RecordFields
<1> HIDE DEF s, l, a
<1>12. mem' \in Memory /\ mem'.bulk = mem.bulk /\ mem'.session = s
  BY <1>4, <1>9, <1>10, <1>11 DEF TypeOK, Memory
<1>13. last' \in Copies /\ last'.trusted = known /\ last'.bulk = last.bulk
  BY <1>2, <1>4 DEF TypeOK, Copies
<1>14. secrets \in BOOLEAN BY <1>3, RecordFields
<1> HIDE DEF secrets
<1>15. /\ dirty' \in Marks /\ dirty'.bulk = dirty.bulk
       /\ dirty'.trusted = IF takeOver THEN Trusted ELSE dirty.trusted
  BY <1>2, <1>4, <1>14 DEF TypeOK, Marks
<1>16. due' \in BOOLEAN BY <1>2, <1>4, <1>14 DEF TypeOK
<1>17. /\ hyd' \in Hydrations
       /\ hyd'.pc = "bulk" /\ hyd'.touched = hyd.touched /\ hyd'.stored = stored
  BY <1>2, <1>4 DEF TypeOK, Hydrations
<1>18. \/ /\ legacy' = legacy
          /\ stored # NoRecord => stored.inline = <<>> \/ stored.session # mem'.session
       \/ /\ stored # NoRecord /\ stored.session = mem'.session
          /\ legacy' \in Moves /\ legacy'.scope = stored.session
          /\ legacy'.inline = DOMAIN stored.inline
          /\ DOMAIN legacy'.held = DOMAIN stored.inline \ hyd.touched
          /\ \A b \in DOMAIN legacy'.held : legacy'.held[b] = stored.inline[b]
  <2>1. CASE own
    <3>1. stored # NoRecord BY <2>1
    <3>2. stored \in Record /\ inline = stored.inline BY <3>1, <1>3
    <3>3. /\ h \in PartialOn(Bulk, Data)
      BY <3>2, RecordFields, WithoutPartial
    <3>4. /\ DOMAIN h = DOMAIN stored.inline \ hyd.touched
          /\ \A b \in DOMAIN h : h[b] = stored.inline[b]
      BY <3>2 DEF Without, Restrict
    <3> HIDE DEF h
    <3>5. legacy' = [inline |-> DOMAIN stored.inline, scope |-> stored.session, held |-> h]
      BY <2>1, <1>4, <3>2
    <3>6. DOMAIN stored.inline \subseteq Bulk /\ stored.session \in Sessions BY <3>2, RecordFields
    <3>7. /\ legacy' \in Moves /\ legacy'.scope = stored.session /\ legacy'.held = h
          /\ legacy'.inline = DOMAIN stored.inline
      BY <3>3, <3>5, <3>6 DEF Moves
    <3>8. stored.session = mem'.session BY <2>1, <1>12
    <3> QED BY <3>1, <3>4, <3>7, <3>8
  <2>2. CASE ~own
    BY <2>2, <1>4, <1>12
  <2> QED BY <2>1, <2>2
<1>19. RecordRead(stored, known, taken, takeOver)
  BY <1>2, <1>4, <1>5, <1>6, <1>8, <1>12, <1>13, <1>15, <1>17, <1>18 DEF RecordRead
<1>20. \E st, kn, ta, to : RecordRead(st, kn, ta, to) BY <1>19
<1> QED BY <1>16, <1>20 DEF HydrateRecord

(* The inline values that the hydration may use, and what it makes of them. *)
Usable == IF hyd.stored # NoRecord /\ hyd.stored.session = mem.session
          THEN DOMAIN hyd.stored.inline ELSE {}
Unusable == IF hyd.stored # NoRecord /\ hyd.stored.session # mem.session
            THEN DOMAIN hyd.stored.inline ELSE {}
BulkRead ==
    /\ mem' \in Memory /\ mem'.session = mem.session
    /\ \A b \in Bulk :
         \/ mem'.bulk[b] = mem.bulk[b] /\ (b \in hyd.touched \/ b \notin Usable)
         \/ b \notin hyd.touched /\ b \in Usable /\ mem'.bulk[b] = hyd.stored.inline[b]
         \/ /\ b \notin hyd.touched /\ b \notin Usable /\ b \in DOMAIN cache
            /\ cache[b].scope = mem.session /\ mem'.bulk[b] = cache[b].val
    /\ last' \in Copies /\ last'.trusted = last.trusted
    /\ \A b \in DOMAIN last'.bulk :
         \/ b \in DOMAIN cache /\ last'.bulk[b] = cache[b]
         \/ b \in DOMAIN last.bulk /\ last'.bulk[b] = last.bulk[b]
    /\ hyd' \in Hydrations /\ hyd'.pc = "done" /\ hyd'.touched = {} /\ hyd'.stored = NoRecord
Resumed(d, g) ==
    /\ d \in Marks /\ d.bulk = dirty.bulk \cup Usable /\ d.trusted = dirty.trusted
    /\ g \in Moves /\ DOMAIN g.held \subseteq g.inline
    /\ g.inline = (legacy.inline \ Unusable) \cup Usable
    /\ g.scope = IF Usable = {} THEN legacy.scope ELSE mem.session
    /\ \A b \in DOMAIN g.held :
         \/ b \in Usable \ hyd.touched /\ g.held[b] = hyd.stored.inline[b]
         \/ b \in DOMAIN legacy.held /\ g.held[b] = legacy.held[b]
    /\ (Usable \ hyd.touched) \cup (DOMAIN legacy.held \ Unusable) \subseteq DOMAIN g.held

LEMMA HydrateBulkEffect ==
    ASSUME TypeOK, HydrateBulk
    PROVE  /\ hyd.pc = "bulk"
           /\ UNCHANGED <<bg, disk, adopting, ops, kills, ghosts>>
           /\ BulkRead
           /\ \/ UNCHANGED <<dirty, due, legacy, write>> /\ Usable = {} /\ Unusable = {}
              \/ \E d, g : /\ Resumed(d, g)
                           /\ \/ write.pc = "idle" /\ Begun(mem', d, g, last')
                              \/ dirty' = d /\ due' = TRUE /\ legacy' = g /\ UNCHANGED write
<1>1. PICK cacheRead \in {TRUE, ~ReadsFail} :
        LET entries == IF cacheRead THEN cache ELSE <<>>
            inline  == IF hyd.stored = NoRecord THEN <<>> ELSE hyd.stored.inline
            from    == {b \in DOMAIN inline : InlineFits(hyd.stored, mem.session)}
            fits    == {b \in DOMAIN entries \ from : ScopeFits(entries[b], mem.session)}
            value(b) == IF ~Keep(b) THEN mem.bulk[b]
                        ELSE IF b \in from THEN inline[b]
                        ELSE IF b \in fits THEN entries[b].val
                        ELSE mem.bulk[b]
            m == [mem EXCEPT !.bulk = [b \in Bulk |-> value(b)]]
            k == [last EXCEPT !.bulk = Over(Restrict(entries, fits), @)]
            kept == Drop(legacy, DOMAIN inline \ from)
            g == [inline |-> kept.inline \cup from,
                  held   |-> Over(Without(Restrict(inline, from), hyd.touched), kept.held),
                  scope  |-> IF from = {} THEN kept.scope ELSE mem.session]
            d == [dirty EXCEPT !.bulk = @ \cup from, !.compact = TRUE]
        IN /\ mem' = m
           /\ last' = k
           /\ IF inline = <<>> THEN UNCHANGED <<dirty, due, legacy, write>>
              ELSE IF write.pc = "idle" THEN BeginWrite(m, d, g, k)
              ELSE dirty' = d /\ due' = TRUE /\ legacy' = g /\ UNCHANGED write
  BY DEF HydrateBulk
<1> DEFINE entries == IF cacheRead THEN cache ELSE <<>>
           inline  == IF hyd.stored = NoRecord THEN <<>> ELSE hyd.stored.inline
           from    == {b \in DOMAIN inline : InlineFits(hyd.stored, mem.session)}
           fits    == {b \in DOMAIN entries \ from : ScopeFits(entries[b], mem.session)}
           value(b) == IF ~Keep(b) THEN mem.bulk[b]
                       ELSE IF b \in from THEN inline[b]
                       ELSE IF b \in fits THEN entries[b].val
                       ELSE mem.bulk[b]
           B == [b \in Bulk |-> value(b)]
           L == Over(Restrict(entries, fits), last.bulk)
           kept == Drop(legacy, DOMAIN inline \ from)
           H == Over(Without(Restrict(inline, from), hyd.touched), kept.held)
           c == IF from = {} THEN kept.scope ELSE mem.session
           g == [inline |-> kept.inline \cup from, held |-> H, scope |-> c]
           d == [dirty EXCEPT !.bulk = @ \cup from, !.compact = TRUE]
<1>2. /\ mem' = [mem EXCEPT !.bulk = B]
      /\ last' = [last EXCEPT !.bulk = L]
      /\ IF inline = <<>> THEN UNCHANGED <<dirty, due, legacy, write>>
         ELSE IF write.pc = "idle" THEN BeginWrite(mem', d, g, last')
         ELSE dirty' = d /\ due' = TRUE /\ legacy' = g /\ UNCHANGED write
  BY <1>1
<1> HIDE <1>1
<1>3. entries \in PartialOn(Bulk, Entry) /\ (entries = cache \/ DOMAIN entries = {})
  BY EmptyPartial DEF TypeOK
<1> HIDE DEF entries
<1>4. \A b \in DOMAIN entries : b \in DOMAIN cache /\ entries[b] = cache[b] /\ entries[b] \in Entry
  <2>1. \A b \in DOMAIN entries : entries[b] \in Entry BY <1>3, PartialOut
  <2> QED BY <1>3, <2>1
<1>5. /\ inline \in PartialOn(Bulk, Data) /\ DOMAIN inline \subseteq Bulk
      /\ \A b \in DOMAIN inline : inline[b] \in Data
      /\ hyd.stored # NoRecord => inline = hyd.stored.inline
      /\ hyd.stored = NoRecord => DOMAIN inline = {}
  <2>1. hyd.stored # NoRecord => hyd.stored \in Record BY DEF TypeOK, Hydrations
  <2>2. CASE hyd.stored = NoRecord
    <3>1. inline = <<>> BY <2>2
    <3>2. <<>> \in PartialOn(Bulk, Data) BY EmptyPartial
    <3> QED BY <2>2, <3>1, <3>2
  <2>3. CASE hyd.stored # NoRecord
    BY <2>1, <2>3, RecordFields
  <2> QED BY <2>2, <2>3
<1> HIDE DEF inline
<1>6. from = Usable /\ DOMAIN inline \ from = Unusable
  BY <1>5 DEF Usable, Unusable, InlineFits
<1>7. fits \subseteq DOMAIN entries
      /\ \A b \in fits : entries[b].scope = mem.session /\ b \notin from
  BY DEF ScopeFits
<1>8. from \subseteq DOMAIN inline OBVIOUS
<1> HIDE DEF from, fits
<1>9. B \in [Bulk -> Data]
  BY <1>4, <1>5, <1>7, <1>8 DEF TypeOK, Memory, Entry
<1>10. \A b \in Bulk :
         \/ B[b] = mem.bulk[b] /\ (b \in hyd.touched \/ b \notin Usable)
         \/ b \notin hyd.touched /\ b \in Usable /\ B[b] = hyd.stored.inline[b]
         \/ /\ b \notin hyd.touched /\ b \notin Usable /\ b \in DOMAIN cache
            /\ cache[b].scope = mem.session /\ B[b] = cache[b].val
  <2>1. ASSUME NEW b \in Bulk, b \in from PROVE inline = hyd.stored.inline
    BY <2>1, <1>5, <1>8
  <2>2. \A b \in Bulk : B[b] = value(b) OBVIOUS
  <2> HIDE DEF B
  <2> QED BY <1>4, <1>6, <1>7, <2>1, <2>2 DEF Keep
<1> HIDE DEF B
<1>11. mem' \in Memory /\ mem'.session = mem.session /\ mem'.bulk = B
  BY <1>2, <1>9 DEF TypeOK, Memory
<1>12. L \in PartialOn(Bulk, Entry)
  <2>1. Restrict(entries, fits) \in PartialOn(Bulk, Entry) BY <1>3, <1>7, RestrictPartial
  <2>2. last.bulk \in PartialOn(Bulk, Entry) BY DEF TypeOK, Copies
  <2> QED BY <2>1, <2>2, OverPartial
<1>13. \A b \in DOMAIN L : \/ b \in DOMAIN cache /\ L[b] = cache[b]
                           \/ b \in DOMAIN last.bulk /\ L[b] = last.bulk[b]
  BY <1>4, <1>7 DEF Over, Restrict
<1> HIDE DEF L
<1>14. last' \in Copies /\ last'.trusted = last.trusted /\ last'.bulk = L
  BY <1>2, <1>12 DEF TypeOK, Copies
<1>15. hyd' \in Hydrations /\ hyd'.pc = "done" /\ hyd'.touched = {} /\ hyd'.stored = NoRecord
  BY DEF HydrateBulk, TypeOK, Hydrations
<1>16. BulkRead BY <1>10, <1>11, <1>13, <1>14, <1>15 DEF BulkRead
<1>17. Resumed(d, g)
  <2>1. /\ kept \in Moves /\ kept.inline = legacy.inline \ Unusable
        /\ DOMAIN kept.held = DOMAIN legacy.held \ Unusable
        /\ DOMAIN kept.held \subseteq kept.inline /\ Narrows(legacy, kept)
    BY <1>6, DropFields DEF TypeOK
  <2> HIDE DEF kept
  <2>2. H \in PartialOn(Bulk, Data)
    <3>1. Restrict(inline, from) \in PartialOn(Bulk, Data) BY <1>5, <1>8, RestrictPartial
    <3>2. Without(Restrict(inline, from), hyd.touched) \in PartialOn(Bulk, Data)
      BY <3>1, WithoutPartial
    <3>3. kept.held \in PartialOn(Bulk, Data) BY <2>1 DEF Moves
    <3> QED BY <3>2, <3>3, OverPartial
  <2>3. /\ DOMAIN H = (from \ hyd.touched) \cup DOMAIN kept.held
        /\ \A b \in DOMAIN H : H[b] = IF b \in from \ hyd.touched THEN inline[b] ELSE kept.held[b]
    BY DEF Over, Without, Restrict
  <2> HIDE DEF H
  <2>4. c \in Sessions /\ kept.inline \cup from \subseteq Bulk
    BY <1>5, <1>8, <2>1 DEF TypeOK, Memory, Moves
  <2> HIDE DEF c
  <2>5. g \in Moves /\ g.inline = kept.inline \cup from /\ g.held = H /\ g.scope = c
    BY <2>2, <2>4 DEF Moves
  <2>6. d \in Marks /\ d.bulk = dirty.bulk \cup from /\ d.trusted = dirty.trusted
    BY <1>5, <1>8 DEF TypeOK, Marks
  <2>7. c = IF Usable = {} THEN legacy.scope ELSE mem.session BY <1>6, <2>1 DEF c, Narrows
  <2>8. \A b \in from : inline = hyd.stored.inline BY <1>5, <1>8
  <2> HIDE DEF d, g
  <2>9. \A b \in DOMAIN g.held :
         \/ b \in Usable \ hyd.touched /\ g.held[b] = hyd.stored.inline[b]
         \/ b \in DOMAIN legacy.held /\ g.held[b] = legacy.held[b]
    BY <1>6, <2>1, <2>3, <2>5, <2>8 DEF Narrows
  <2>10. DOMAIN g.held \subseteq g.inline
         /\ (Usable \ hyd.touched) \cup (DOMAIN legacy.held \ Unusable) \subseteq DOMAIN g.held
    BY <1>6, <2>1, <2>3, <2>5
  <2> QED BY <1>6, <2>1, <2>5, <2>6, <2>7, <2>9, <2>10 DEF Resumed
<1> HIDE DEF d, g
<1>18. CASE inline = <<>>
  <2>1. DOMAIN inline = {} BY <1>18
  <2> QED BY <1>2, <1>6, <1>8, <1>16, <1>18, <2>1 DEF HydrateBulk
<1>19. CASE inline # <<>> /\ write.pc = "idle"
  <2>1. BeginWrite(mem', d, g, last') BY <1>2, <1>19
  <2>2. Begun(mem', d, g, last')
    BY <1>11, <1>14, <1>17, <2>1, BeginWriteBegins DEF Resumed, TypeOK
  <2> QED BY <1>16, <1>17, <1>19, <2>2 DEF HydrateBulk
<1>20. CASE inline # <<>> /\ write.pc # "idle"
  <2>1. dirty' = d /\ due' = TRUE /\ legacy' = g /\ UNCHANGED write BY <1>2, <1>20
  <2> QED BY <1>16, <1>17, <2>1 DEF HydrateBulk
<1> QED BY <1>18, <1>19, <1>20

-----------------------------------------------------------------------------
(* What a setter of the fields F does. *)
Marked(F) ==
    /\ ops < MaxOps /\ ops' = ops + 1
    /\ dirty' \in Marks
    /\ dirty'.bulk = dirty.bulk \cup (F \cap Bulk)
    /\ dirty'.trusted = dirty.trusted \cup (F \cap Trusted)
    /\ hyd' \in Hydrations /\ hyd'.pc = hyd.pc /\ hyd'.stored = hyd.stored
    /\ hyd'.touched = IF hyd.pc = "done" THEN {} ELSE hyd.touched \cup F
    /\ legacy' \in Moves /\ legacy'.inline = legacy.inline /\ legacy'.scope = legacy.scope
    /\ DOMAIN legacy'.held = DOMAIN legacy.held \ F
    /\ \A b \in DOMAIN legacy'.held : legacy'.held[b] = legacy.held[b]
    /\ due' = TRUE
    /\ UNCHANGED <<disk, adopting, last, write, kills, blind>>

LEMMA MarkDirtyEffect ==
    ASSUME TypeOK, NEW F \in SUBSET (Compact \cup Bulk), MarkDirty(F)
    PROVE  Marked(F)
<1> DEFINE T == IF hyd.pc = "done" THEN {} ELSE hyd.touched \cup F
           h == Without(legacy.held, F)
           C == dirty.compact \/ F \cap Compact # {}
<1>1. /\ dirty' = [bulk |-> dirty.bulk \cup (F \cap Bulk),
                   trusted |-> dirty.trusted \cup (F \cap Trusted), compact |-> C]
      /\ hyd' = [hyd EXCEPT !.touched = T] /\ legacy' = [legacy EXCEPT !.held = h]
  BY DEF MarkDirty, Touch
<1>2. T \in SUBSET (Compact \cup Bulk) BY DEF TypeOK, Hydrations
<1>3. C \in BOOLEAN BY DEF TypeOK, Marks
<1>4. h \in PartialOn(Bulk, Data)
  <2>1. legacy.held \in PartialOn(Bulk, Data) BY DEF TypeOK, Moves
  <2> QED BY <2>1, WithoutPartial
<1>5. DOMAIN h = DOMAIN legacy.held \ F /\ \A b \in DOMAIN h : h[b] = legacy.held[b]
  BY DEF Without, Restrict
<1> HIDE DEF T, h, C
<1>6. /\ dirty' \in Marks /\ dirty'.bulk = dirty.bulk \cup (F \cap Bulk)
      /\ dirty'.trusted = dirty.trusted \cup (F \cap Trusted)
  BY <1>1, <1>3 DEF TypeOK, Marks
<1>7. hyd' \in Hydrations /\ hyd'.pc = hyd.pc /\ hyd'.stored = hyd.stored /\ hyd'.touched = T
  BY <1>1, <1>2 DEF TypeOK, Hydrations
<1>8. /\ legacy' \in Moves /\ legacy'.inline = legacy.inline /\ legacy'.scope = legacy.scope
      /\ legacy'.held = h
  BY <1>1, <1>4 DEF TypeOK, Moves
<1> QED BY <1>5, <1>6, <1>7, <1>8 DEF Marked, MarkDirty, T

Superseding(b) == IF fate[b] = "kept" THEN "superseded" ELSE fate[b]

LEMMA LoginEffect ==
    ASSUME TypeOK, NEW s \in Wallets, NEW lock \in BOOLEAN, Login(s, lock)
    PROVE  /\ ~bg /\ bg' = TRUE
           /\ mem' \in Memory /\ mem'.session = s /\ mem'.bulk = [b \in Bulk |-> NoData]
           /\ \E F \in SUBSET (Compact \cup Bulk) :
                Bulk \subseteq F /\ "session" \in F /\ Marked(F)
           /\ fate' = [b \in Bulk |-> Superseding(b)]
           /\ chosen' = chosen \cup {s}
<1> DEFINE F == Bulk \cup {"account", "session"} \cup IF lock THEN {"locked"} ELSE {}
           B == [b \in Bulk |-> NoData]
           l == mem.locked \/ lock
           e == [mem EXCEPT !.account = NoData, !.bulk = B]
<1>1. F \in SUBSET (Compact \cup Bulk) BY DEF Compact, Trusted
<1>2. Bulk \subseteq F /\ "session" \in F OBVIOUS
<1>3. MarkDirty(F) BY DEF Login
<1> HIDE DEF F
<1>4. Marked(F) BY <1>1, <1>3, MarkDirtyEffect
<1>5. B \in [Bulk -> Data] BY StartTypes
<1> HIDE DEF B
<1>6. e \in Memory /\ e.bulk = B /\ e.locked = mem.locked BY <1>5, StartTypes DEF TypeOK, Memory
<1>7. Emptied(mem) = e BY DEF Emptied, B
<1> HIDE DEF e
<1>8. mem' = [e EXCEPT !.session = s, !.locked = l] BY <1>6, <1>7 DEF Login
<1>9. l \in BOOLEAN BY DEF TypeOK, Memory
<1>10. mem' \in Memory /\ mem'.session = s /\ mem'.bulk = B
  BY <1>6, <1>8, <1>9 DEF Memory, Sessions
<1> QED BY <1>1, <1>2, <1>4, <1>10 DEF Login, Superseding, B

LEMMA LogoutEffect ==
    ASSUME TypeOK, Logout
    PROVE  /\ bg' = FALSE
           /\ mem' \in Memory /\ mem'.session = NoWallet /\ mem'.bulk = [b \in Bulk |-> NoData]
           /\ Marked(Bulk \cup Compact) /\ "session" \in Compact
           /\ fate' = [b \in Bulk |-> Superseding(b)]
           /\ chosen' = chosen \cup {NoWallet}
<1>1. MarkDirty(Bulk \cup Compact) BY DEF Logout
<1>2. Marked(Bulk \cup Compact) BY <1>1, MarkDirtyEffect
<1>3. mem' \in Memory BY StartTypes DEF Logout
<1>4. mem'.session = NoWallet /\ mem'.bulk = [b \in Bulk |-> NoData] BY DEF Logout, Defaults
<1> QED BY <1>2, <1>3, <1>4 DEF Logout, Superseding, Compact, Trusted

LEMMA SetLockedEffect ==
    ASSUME TypeOK, SetLocked
    PROVE  /\ mem' \in Memory /\ mem'.session = mem.session /\ mem'.bulk = mem.bulk
           /\ Marked({"locked"}) /\ UNCHANGED <<bg, fate, chosen>>
<1>1. MarkDirty({"locked"}) BY DEF SetLocked
<1>2. Marked({"locked"}) BY <1>1, MarkDirtyEffect DEF Compact, Trusted
<1>3. mem' = [mem EXCEPT !.locked = ~mem.locked] BY DEF SetLocked, TypeOK, Memory
<1>4. mem' \in Memory /\ mem'.session = mem.session /\ mem'.bulk = mem.bulk
  BY <1>3 DEF TypeOK, Memory
<1> QED BY <1>2, <1>4 DEF SetLocked

LEMMA FreshTyped ==
    ASSUME TypeOK, ops < MaxOps
    PROVE  Fresh \in Data /\ Fresh.of = mem.session /\ Fresh.ver = ops + 2
BY BoundsAssumption DEF Fresh, Data, TypeOK, Memory

LEMMA SetAccountEffect ==
    ASSUME TypeOK, SetAccount
    PROVE  /\ bg /\ mem' \in Memory /\ mem'.session = mem.session /\ mem'.bulk = mem.bulk
           /\ Marked({"account"}) /\ UNCHANGED <<bg, fate, chosen>>
<1>1. MarkDirty({"account"}) BY DEF SetAccount
<1>2. Marked({"account"}) BY <1>1, MarkDirtyEffect DEF Compact, Trusted
<1>3. Fresh \in Data BY <1>2, FreshTyped DEF Marked
<1> HIDE DEF Fresh
<1>4. mem' \in Memory /\ mem'.session = mem.session /\ mem'.bulk = mem.bulk
  BY <1>3 DEF SetAccount, TypeOK, Memory
<1> QED BY <1>2, <1>4 DEF SetAccount

LEMMA SetBulkEffect ==
    ASSUME TypeOK, NEW b \in Bulk, SetBulk(b)
    PROVE  /\ bg /\ mem' \in Memory /\ mem'.session = mem.session
           /\ mem'.bulk = [mem.bulk EXCEPT ![b] = Fresh]
           /\ Marked({b}) /\ UNCHANGED <<bg, chosen>>
           /\ fate' = [fate EXCEPT ![b] = Superseding(b)]
<1>1. MarkDirty({b}) BY DEF SetBulk
<1>2. Marked({b}) BY <1>1, MarkDirtyEffect
<1>3. Fresh \in Data BY <1>2, FreshTyped DEF Marked
<1> DEFINE B == [mem.bulk EXCEPT ![b] = Fresh]
<1>4. B \in [Bulk -> Data] BY <1>3 DEF TypeOK, Memory
<1>5. mem' = [mem EXCEPT !.bulk = B] BY DEF SetBulk, TypeOK, Memory
<1> HIDE DEF B
<1>6. mem' \in Memory /\ mem'.session = mem.session /\ mem'.bulk = B
  BY <1>4, <1>5 DEF TypeOK, Memory
<1>7. fate' = [fate EXCEPT ![b] = Superseding(b)] BY DEF SetBulk, Superseding, TypeOK
<1> QED BY <1>2, <1>6, <1>7 DEF SetBulk, B

-----------------------------------------------------------------------------
(* The types. *)

LEMMA SupersededTyped ==
    ASSUME TypeOK
    PROVE  /\ [b \in Bulk |-> Superseding(b)] \in [Bulk -> Fates]
           /\ \A c \in Bulk : [fate EXCEPT ![c] = Superseding(c)]
                               \in [Bulk -> Fates]
BY DEF TypeOK, Superseding, Fates

(* A stage's result is typed whatever it is. *)
LEMMA StagedTyped ==
    ASSUME NEW w, NEW m, NEW g, NEW d, NEW k, NEW x, NEW e, Staged(w, m, g, d, k, x, e)
    PROVE  StageTypes(x, e)
BY DEF Staged, Settles

LEMMA BegunTyped ==
    ASSUME NEW m, NEW d, NEW g, NEW k, Begun(m, d, g, k)
    PROVE  /\ StageTypes(write', dirty') /\ due' \in BOOLEAN
           /\ legacy' \in Moves /\ DOMAIN legacy'.held \subseteq legacy'.inline
<1>1. CASE BulkStarts(m, d, g)
  BY <1>1, StartTypes DEF Begun, BulkStarts, StageTypes
<1>2. CASE LaterStarts(m, d, k)
  <2>1. StageTypes(write', dirty') BY <1>2, StagedTyped DEF LaterStarts
  <2> QED BY <2>1 DEF Begun
<1> QED BY <1>1, <1>2 DEF Begun

LEMMA WriterTypes == ASSUME TypeOK, Writer PROVE TypeOK'
<1>1. CASE Flush
  <2>1. UNCHANGED <<mem, bg, disk, adopting, last, hyd, ops, kills, ghosts>> BY <1>1, FlushEffect
  <2>2. /\ due' \in BOOLEAN /\ StageTypes(write', dirty')
        /\ legacy' \in Moves /\ DOMAIN legacy'.held \subseteq legacy'.inline
    BY <1>1, FlushEffect, BegunTyped DEF TypeOK, StageTypes
  <2> QED BY <2>1, <2>2 DEF TypeOK, StageTypes, disk, ghosts
<1>2. CASE BulkWritten
  <2>1. /\ cache' = Over(write.bulk, cache) /\ last' \in Copies
        /\ legacy' = Drop(legacy, DOMAIN write.bulk) /\ due' \in BOOLEAN
        /\ UNCHANGED <<mem, bg, record, vault, adopted, adopting, hyd, ops, kills, ghosts>>
        /\ StageTypes(write', dirty')
    BY <1>2, BulkWrittenEffect, StagedTyped
  <2>2. legacy' \in Moves /\ DOMAIN legacy'.held \subseteq legacy'.inline
    BY <2>1, DropFields DEF TypeOK
  <2>3. cache' \in PartialOn(Bulk, Entry)
    <3>1. write.bulk \in PartialOn(Bulk, Entry) /\ cache \in PartialOn(Bulk, Entry)
      BY DEF TypeOK, Writes
    <3> QED BY <2>1, <3>1, OverPartial
  <2> QED BY <2>1, <2>2, <2>3 DEF TypeOK, StageTypes, ghosts
<1>3. CASE BulkFailed
  <2>1. /\ due' \in BOOLEAN /\ StageTypes(write', dirty')
        /\ UNCHANGED <<mem, bg, disk, adopting, last, legacy, hyd, ops, kills, ghosts>>
    BY <1>3, BulkFailedEffect, StagedTyped
  <2> QED BY <2>1 DEF TypeOK, StageTypes, disk, ghosts
<1>4. CASE VaultWritten
  <2>1. /\ due' \in BOOLEAN /\ vault' = Over(write.trusted, vault) /\ last' \in Copies
        /\ adopted' = (adopted \/ write.adopting) /\ adopting' = (adopting /\ ~write.adopting)
        /\ UNCHANGED <<mem, bg, record, cache, legacy, hyd, ops, kills, chosen, blind>>
        /\ StageTypes(write', dirty') /\ fate' \in [Bulk -> Fates]
    BY <1>4, VaultWrittenEffect DEF Settles
  <2>2. vault' \in VaultOf
    <3>1. write.trusted \in VaultOf /\ vault \in VaultOf BY DEF TypeOK, Writes
    <3> QED BY <2>1, <3>1, OverVault
  <2>3. adopted' \in BOOLEAN /\ adopting' \in BOOLEAN BY <2>1
  <2> QED BY <2>1, <2>2, <2>3 DEF TypeOK, StageTypes, Fates
<1>5. CASE VaultFailed
  <2>1. /\ due' \in BOOLEAN /\ StageTypes(write', dirty')
        /\ UNCHANGED <<mem, bg, disk, adopting, last, legacy, hyd, ops, kills, ghosts>>
    BY <1>5, VaultFailedEffect DEF Settles
  <2> QED BY <2>1 DEF TypeOK, StageTypes, disk, ghosts
<1>6. CASE RecordWritten
  <2>1. /\ due' \in BOOLEAN /\ StageTypes(write', dirty') /\ write.pc = "compact"
        /\ record' = write.view /\ last' \in Copies /\ fate' \in [Bulk -> Fates]
        /\ UNCHANGED <<mem, bg, cache, vault, adopted, adopting, legacy, hyd, ops, kills, chosen, blind>>
    BY <1>6, RecordWrittenEffect
  <2> QED BY <2>1 DEF TypeOK, StageTypes, Fates
<1>7. CASE RecordFailed
  <2>1. /\ due' \in BOOLEAN /\ StageTypes(write', dirty')
        /\ UNCHANGED <<mem, bg, disk, adopting, last, legacy, hyd, ops, kills, ghosts>>
    BY <1>7, RecordFailedEffect
  <2> QED BY <2>1 DEF TypeOK, StageTypes, disk, ghosts
<1> QED BY <1>1, <1>2, <1>3, <1>4, <1>5, <1>6, <1>7 DEF Writer

LEMMA HydrationTypes == ASSUME TypeOK, Hydration PROVE TypeOK'
<1>1. CASE HydrateRecord
  <2>1. /\ due' \in BOOLEAN /\ UNCHANGED <<bg, disk, write, ops, kills, fate, chosen>>
        /\ \E stored, known, taken, takeOver : RecordRead(stored, known, taken, takeOver)
    BY <1>1, HydrateRecordEffect
  <2>2. PICK stored, known, taken, takeOver : RecordRead(stored, known, taken, takeOver) BY <2>1
  <2>3. /\ mem' \in Memory /\ last' \in Copies /\ dirty' \in Marks /\ hyd' \in Hydrations
        /\ blind' \in BOOLEAN
    BY <2>2 DEF RecordRead
  <2>4. adopting' \in BOOLEAN BY <2>2 DEF RecordRead, TypeOK
  <2>5. legacy' \in Moves /\ DOMAIN legacy'.held \subseteq legacy'.inline
    <3>1. CASE legacy' = legacy BY <3>1 DEF TypeOK
    <3>2. CASE legacy' # legacy BY <2>2, <3>2 DEF RecordRead
    <3> QED BY <3>1, <3>2
  <2> QED BY <2>1, <2>3, <2>4, <2>5 DEF TypeOK, disk
<1>2. CASE HydrateBulk
  <2>1. /\ UNCHANGED <<bg, disk, adopting, ops, kills, ghosts>>
        /\ mem' \in Memory /\ last' \in Copies /\ hyd' \in Hydrations
    BY <1>2, HydrateBulkEffect DEF BulkRead
  <2>2. /\ StageTypes(write', dirty') /\ due' \in BOOLEAN
        /\ legacy' \in Moves /\ DOMAIN legacy'.held \subseteq legacy'.inline
    <3>1. CASE UNCHANGED <<dirty, due, legacy, write>>
      BY <3>1 DEF TypeOK, StageTypes
    <3>2. CASE \E d, g : Resumed(d, g) /\ Begun(mem', d, g, last')
      BY <3>2, BegunTyped
    <3>3. CASE \E d, g : Resumed(d, g) /\ dirty' = d /\ due' = TRUE /\ legacy' = g /\ UNCHANGED write
      BY <3>3 DEF Resumed, TypeOK, StageTypes
    <3> QED BY <1>2, <3>1, <3>2, <3>3, HydrateBulkEffect
  <2> QED BY <2>1, <2>2 DEF TypeOK, StageTypes, disk, ghosts
<1> QED BY <1>1, <1>2 DEF Hydration

LEMMA SetterTypes == ASSUME TypeOK, Setter PROVE TypeOK'
<1>1. ASSUME NEW F, Marked(F)
      PROVE  /\ dirty' \in Marks /\ hyd' \in Hydrations /\ legacy' \in Moves
             /\ DOMAIN legacy'.held \subseteq legacy'.inline /\ due' \in BOOLEAN
             /\ ops' \in 0..MaxOps
             /\ UNCHANGED <<disk, adopting, last, write, kills, blind>>
  BY <1>1, BoundsAssumption DEF Marked, TypeOK
<1>2. ASSUME NEW s \in Wallets, NEW lock \in BOOLEAN, Login(s, lock) PROVE TypeOK'
  <2>1. /\ bg' = TRUE /\ mem' \in Memory /\ fate' = [b \in Bulk |-> Superseding(b)]
        /\ chosen' = chosen \cup {s} /\ \E F : Marked(F)
    BY <1>2, LoginEffect
  <2>2. bg' \in BOOLEAN /\ chosen' \subseteq Sessions BY <2>1 DEF TypeOK, Sessions
  <2> QED BY <1>1, <2>1, <2>2, SupersededTyped DEF TypeOK, disk, Fates
<1>3. CASE Logout
  <2>1. /\ bg' = FALSE /\ mem' \in Memory /\ fate' = [b \in Bulk |-> Superseding(b)]
        /\ chosen' = chosen \cup {NoWallet} /\ \E F : Marked(F)
    BY <1>3, LogoutEffect
  <2>2. bg' \in BOOLEAN /\ chosen' \subseteq Sessions BY <2>1 DEF TypeOK, Sessions
  <2> QED BY <1>1, <2>1, <2>2, SupersededTyped DEF TypeOK, disk, Fates
<1>4. CASE SetLocked
  <2>1. mem' \in Memory /\ UNCHANGED <<bg, fate, chosen>> /\ \E F : Marked(F)
    BY <1>4, SetLockedEffect
  <2> QED BY <1>1, <2>1 DEF TypeOK, disk
<1>5. CASE SetAccount
  <2>1. mem' \in Memory /\ UNCHANGED <<bg, fate, chosen>> /\ \E F : Marked(F)
    BY <1>5, SetAccountEffect
  <2> QED BY <1>1, <2>1 DEF TypeOK, disk
<1>6. ASSUME NEW b \in Bulk, SetBulk(b) PROVE TypeOK'
  <2>1. /\ mem' \in Memory /\ UNCHANGED <<bg, chosen>> /\ \E F : Marked(F)
        /\ fate' = [fate EXCEPT ![b] = Superseding(b)]
    BY <1>6, SetBulkEffect
  <2> QED BY <1>1, <2>1, SupersededTyped DEF TypeOK, disk, Fates
<1> QED BY <1>2, <1>3, <1>4, <1>5, <1>6 DEF Setter

LEMMA KillTypes == ASSUME TypeOK, WorkerKilled PROVE TypeOK'
<1>1. /\ mem' \in Memory /\ dirty' \in Marks /\ last' \in Copies /\ hyd' \in Hydrations
      /\ legacy' \in Moves /\ DOMAIN legacy'.held \subseteq legacy'.inline
      /\ write' \in Writes /\ write'.pc # "compact"
  BY StartTypes, IdleHolds DEF WorkerKilled
<1>2. bg' \in BOOLEAN /\ adopting' \in BOOLEAN /\ due' \in BOOLEAN BY DEF WorkerKilled
<1>3. kills' \in 0..MaxKills BY BoundsAssumption DEF WorkerKilled, TypeOK
<1>4. blind' \in BOOLEAN /\ UNCHANGED <<disk, ops, fate, chosen>> BY DEF WorkerKilled
<1> QED BY <1>1, <1>2, <1>3, <1>4 DEF TypeOK, disk

LEMMA NextTypes == TypeOK /\ [Next]_vars => TypeOK'
<1> SUFFICES ASSUME TypeOK, [Next]_vars PROVE TypeOK' OBVIOUS
<1>1. CASE UNCHANGED vars BY <1>1 DEF TypeOK, vars, disk, persister, ghosts
<1> QED BY <1>1, WriterTypes, HydrationTypes, SetterTypes, KillTypes DEF Next

(* The three stores, what the worker holds and what it is writing are always  *)
(* of their types.                                                            *)
THEOREM TypeCorrect == Spec => []TypeOK
<1> QED BY InitTypes, NextTypes, PTL DEF Spec

-----------------------------------------------------------------------------
(* Bulk values follow their session.  A value is tame under a session when it *)
(* is that session's and no setter call to come made it; every place a value  *)
(* can be in names the session it is tame under.                              *)
Tame(v, s) == v.ver <= ops + 1 /\ (v # NoData => v.of = s)
TameOn(f, s) == \A b \in DOMAIN f : Tame(f[b], s)
TameRecord(r) == r # NoRecord => TameOn(r.inline, r.session)
TameEntries(c) == \A b \in DOMAIN c : Tame(c[b].val, c[b].scope)
BulkTame ==
    /\ TameOn(mem.bulk, mem.session) /\ TameOn(legacy.held, mem.session)
    /\ TameRecord(record) /\ TameRecord(hyd.stored) /\ TameRecord(write.view)
    /\ TameEntries(cache) /\ TameEntries(write.bulk)

(* Until the record is read nothing is written, and the store holds the empty *)
(* defaults and what setters put there, which the hydration knows of.         *)
Reading ==
    hyd.pc = "record" =>
        /\ write = IdleWrite /\ ~adopting
        /\ legacy.inline = {} /\ DOMAIN legacy.held = {}
        /\ dirty.trusted \cup dirty.bulk \subseteq hyd.touched
        /\ IF "session" \in hyd.touched THEN mem.session \in chosen
           ELSE mem.session = NoWallet /\ ~bg /\ hyd.touched \cap Bulk = {}
Unfilled == hyd.pc # "done" => \A b \in Bulk \ hyd.touched : mem.bulk[b] = NoData
BulkInv == TypeOK /\ Reading /\ Unfilled /\ BulkTame

LEMMA InitBulk == Init => BulkInv
<1> SUFFICES ASSUME Init PROVE BulkInv OBVIOUS
<1>1. TypeOK BY InitTypes
<1>2. Reading /\ Unfilled
  BY IdleHolds DEF Init, Reading, Unfilled, NothingLegacy, NothingDirty, HydrationStart, Defaults
<1>3. TameOn(mem.bulk, mem.session) /\ TameOn(legacy.held, mem.session)
  BY BoundsAssumption DEF Init, TameOn, Tame, Defaults, NoData, NothingLegacy
<1>4. TameRecord(hyd.stored) /\ TameRecord(write.view) /\ TameEntries(write.bulk)
  BY IdleHolds DEF Init, TameRecord, TameEntries, HydrationStart
<1>5. TameRecord(record) /\ TameEntries(cache)
  <2>1. \A s \in Wallets : Tame(Stored(s), s) /\ Tame(Older(s), s)
    BY DEF Init, Tame, Stored, Older
  <2>2. \A s \in Wallets : TameRecord(OldRecord(s)) /\ TameRecord(NewRecord(s)) /\ TameEntries(CacheOf(s))
    BY <2>1 DEF TameRecord, TameOn, TameEntries, OldRecord, NewRecord, CacheOf
  <2>3. TameRecord(NoRecord) /\ TameEntries(<<>>) BY DEF TameRecord, TameEntries
  <2> QED BY <2>2, <2>3 DEF Init
<1> QED BY <1>1, <1>2, <1>3, <1>4, <1>5 DEF BulkInv, BulkTame

(* A stage keeps what it writes tame. *)
LEMMA StagedTame ==
    ASSUME NEW w, NEW m \in Memory, NEW g \in Moves, NEW d, NEW k, NEW x, NEW e,
           Staged(w, m, g, d, k, x, e) \/ Settles(w, m, g, d, x, e) \/ Ended(w, d, x, e),
           TameOn(m.bulk, m.session), TameOn(g.held, m.session),
           TameRecord(w.view), TameEntries(w.bulk)
    PROVE  TameRecord(x.view) /\ TameEntries(x.bulk)
<1>1. CASE Ended(w, d, x, e)
  BY <1>1, IdleHolds DEF Ended, TameRecord, TameEntries
<1>2. CASE Compacting(w, m, g, d, x, e)
  <2>1. x.bulk = w.bulk /\ x.view = CompactView(m, g) BY <1>2 DEF Compacting, Carries
  <2>2. \A b \in DOMAIN CompactView(m, g).inline :
           Tame(CompactView(m, g).inline[b], m.session)
    BY ViewTyped DEF TameOn, Memory, Moves
  <2>3. CompactView(m, g).session = m.session BY ViewTyped
  <2> QED BY <2>1, <2>2, <2>3 DEF TameRecord, TameOn
<1>3. CASE Trusting(w, m, d, x, e)
  BY <1>3 DEF Trusting, Carries
<1> QED BY <1>1, <1>2, <1>3 DEF Staged, Settles

LEMMA BegunTame ==
    ASSUME NEW m \in Memory, NEW d \in Marks, NEW g \in Moves, NEW k,
           Begun(m, d, g, k), TameOn(m.bulk, m.session), TameOn(g.held, m.session)
    PROVE  TameOn(legacy'.held, m.session) /\ TameRecord(write'.view) /\ TameEntries(write'.bulk)
<1>1. TameOn(legacy'.held, m.session) /\ legacy' \in Moves
  BY DEF Begun, Narrows, TameOn
<1>2. CASE BulkStarts(m, d, g)
  <2>1. TameRecord(write'.view) BY <1>2 DEF BulkStarts, TameRecord
  <2>2. \A b \in d.bulk : b \in DOMAIN m.bulk BY DEF Memory, Marks
  <2>3. TameEntries(write'.bulk) BY <1>2, <2>2 DEF BulkStarts, TameOn, TameEntries
  <2> QED BY <1>1, <2>1, <2>3
<1>3. CASE LaterStarts(m, d, k)
  <2>1. PICK w \in Writes : /\ DOMAIN w.bulk = {} /\ w.view = NoRecord
                            /\ Staged(w, m, legacy', NothingDirty, k, write', dirty')
    BY <1>3 DEF LaterStarts
  <2>2. TameRecord(w.view) /\ TameEntries(w.bulk) BY <2>1 DEF TameRecord, TameEntries
  <2> QED BY <1>1, <2>1, <2>2, StagedTame
<1> QED BY <1>2, <1>3 DEF Begun

(* No write is in flight, and none starts, while the record is read. *)
LEMMA WriterWaits ==
    ASSUME TypeOK, Reading, Writer
    PROVE  hyd.pc # "record" /\ UNCHANGED <<hyd, mem, bg, ops, kills, chosen, blind>>
<1>1. CASE Flush BY <1>1, FlushEffect DEF ghosts
<1>2. CASE write.pc # "idle" /\ UNCHANGED <<hyd, mem, bg, ops, kills, chosen, blind>>
  BY <1>2, IdleHolds DEF Reading
<1> QED BY <1>1, <1>2, BulkWrittenEffect, BulkFailedEffect, VaultWrittenEffect, VaultFailedEffect,
           RecordWrittenEffect, RecordFailedEffect DEF Writer, ghosts

LEMMA NextReading ==
    ASSUME TypeOK, Reading, Unfilled, [Next]_vars
    PROVE  Reading' /\ Unfilled'
<1>1. CASE Writer
  BY <1>1, WriterWaits DEF Reading, Unfilled
<1>2. CASE HydrateRecord
  <2>1. hyd.pc = "record" /\ hyd'.pc = "bulk" /\ hyd'.touched = hyd.touched /\ mem'.bulk = mem.bulk
    BY <1>2, HydrateRecordEffect DEF RecordRead
  <2> QED BY <2>1 DEF Reading, Unfilled
<1>3. CASE HydrateBulk
  <2>1. hyd'.pc = "done" BY <1>3, HydrateBulkEffect DEF BulkRead
  <2> QED BY <2>1 DEF Reading, Unfilled
<1>4. ASSUME NEW F \in SUBSET (Compact \cup Bulk), Marked(F)
      PROVE  /\ hyd'.pc = hyd.pc
             /\ hyd.pc = "record" =>
                  /\ write' = IdleWrite /\ ~adopting' /\ legacy'.inline = {} /\ DOMAIN legacy'.held = {}
                  /\ dirty'.trusted \cup dirty'.bulk \subseteq hyd'.touched
             /\ hyd.pc # "done" => hyd'.touched = hyd.touched \cup F
  BY <1>4 DEF Marked, Reading
<1>5. ASSUME NEW s \in Wallets, NEW lock \in BOOLEAN, Login(s, lock) PROVE Reading' /\ Unfilled'
  <2>1. PICK F \in SUBSET (Compact \cup Bulk) : Bulk \subseteq F /\ "session" \in F /\ Marked(F)
    BY <1>5, LoginEffect
  <2>2. mem'.session \in chosen' BY <1>5, LoginEffect
  <2> QED BY <1>4, <2>1, <2>2 DEF Reading, Unfilled
<1>6. CASE Logout
  <2>1. Marked(Bulk \cup Compact) /\ "session" \in Compact /\ mem'.session \in chosen'
    BY <1>6, LogoutEffect
  <2>2. Bulk \cup Compact \in SUBSET (Compact \cup Bulk) OBVIOUS
  <2> QED BY <1>4, <2>1, <2>2 DEF Reading, Unfilled
<1>7. CASE SetLocked
  <2>1. Marked({"locked"}) /\ {"locked"} \in SUBSET (Compact \cup Bulk)
        /\ mem'.session = mem.session /\ mem'.bulk = mem.bulk /\ UNCHANGED <<bg, fate, chosen>>
    BY <1>7, SetLockedEffect DEF Compact, Trusted
  <2>2. "locked" \notin Bulk BY BulkAssumption
  <2> QED BY <1>4, <2>1, <2>2 DEF Reading, Unfilled
<1>8. CASE SetAccount
  <2>1. Marked({"account"}) /\ {"account"} \in SUBSET (Compact \cup Bulk) /\ bg
        /\ mem'.session = mem.session /\ mem'.bulk = mem.bulk /\ UNCHANGED <<bg, fate, chosen>>
    BY <1>8, SetAccountEffect DEF Compact, Trusted
  <2> QED BY <1>4, <2>1 DEF Reading, Unfilled
<1>9. ASSUME NEW b \in Bulk, SetBulk(b) PROVE Reading' /\ Unfilled'
  <2>1. Marked({b}) /\ {b} \in SUBSET (Compact \cup Bulk) /\ bg /\ UNCHANGED <<bg, chosen>>
        /\ mem'.session = mem.session /\ mem'.bulk = [mem.bulk EXCEPT ![b] = Fresh]
    BY <1>9, SetBulkEffect
  <2>2. \A c \in Bulk \ {b} : mem'.bulk[c] = mem.bulk[c] BY <2>1 DEF TypeOK, Memory
  <2> QED BY <1>4, <2>1, <2>2 DEF Reading, Unfilled
<1>10. CASE WorkerKilled
  BY <1>10, IdleHolds DEF WorkerKilled, Reading, Unfilled, NothingLegacy, NothingDirty,
     HydrationStart, Defaults
<1>11. CASE UNCHANGED vars
  BY <1>11 DEF Reading, Unfilled, vars, disk, persister, ghosts
<1> QED BY <1>1, <1>2, <1>3, <1>5, <1>6, <1>7, <1>8, <1>9, <1>10, <1>11 DEF Next, Hydration, Setter

LEMMA OverTame ==
    ASSUME NEW f, NEW g, TameEntries(f), TameEntries(g)
    PROVE  TameEntries(Over(f, g))
BY DEF TameEntries, Over

LEMMA WriterTame == ASSUME BulkInv, Writer PROVE BulkTame'
<1> USE DEF BulkInv
<1>0. /\ TypeOK /\ mem \in Memory /\ legacy \in Moves /\ dirty \in Marks /\ last \in Copies
      /\ ops' = ops /\ mem' = mem /\ hyd' = hyd
  BY WriterWaits DEF TypeOK, ghosts
<1>1. SUFFICES /\ TameOn(legacy'.held, mem.session) /\ TameRecord(record') /\ TameEntries(cache')
               /\ TameRecord(write'.view) /\ TameEntries(write'.bulk)
  BY <1>0 DEF BulkTame, TameOn, TameRecord, TameEntries, Tame
<1>2. CASE Flush
  <2>1. UNCHANGED disk /\ (UNCHANGED <<legacy, write>> \/ Begun(mem, dirty, legacy, last))
    BY <1>2, FlushEffect
  <2> QED BY <1>0, <2>1, BegunTame DEF BulkTame, disk
<1>3. CASE BulkWritten
  <2>1. /\ cache' = Over(write.bulk, cache) /\ legacy' = Drop(legacy, DOMAIN write.bulk)
        /\ record' = record
    BY <1>3, BulkWrittenEffect
  <2>2. PICK w \in Writes : /\ Carries(write, w) /\ w.view = write.view
                            /\ Staged(w, mem, legacy', dirty, last, write', dirty')
    BY <1>3, BulkWrittenEffect
  <2>3. legacy' \in Moves /\ Narrows(legacy, legacy')
    BY <2>1, DropFields DEF TypeOK
  <2>4. TameOn(legacy'.held, mem.session) BY <2>3 DEF BulkTame, Narrows, TameOn
  <2>5. TameRecord(w.view) /\ TameEntries(w.bulk) BY <2>2 DEF BulkTame, Carries
  <2>6. TameRecord(write'.view) /\ TameEntries(write'.bulk)
    BY <1>0, <2>2, <2>3, <2>4, <2>5, StagedTame DEF BulkTame
  <2> QED BY <2>1, <2>4, <2>6, OverTame DEF BulkTame
<1>4. CASE BulkFailed
  <2>1. UNCHANGED <<disk, legacy>> BY <1>4, BulkFailedEffect
  <2>2. PICK w \in Writes : /\ w.bulk = write.bulk /\ w.view = write.view
                            /\ Staged(w, mem, legacy, dirty, last, write', dirty')
    BY <1>4, BulkFailedEffect
  <2>3. TameRecord(w.view) /\ TameEntries(w.bulk) BY <2>2 DEF BulkTame
  <2>4. TameRecord(write'.view) /\ TameEntries(write'.bulk)
    BY <1>0, <2>2, <2>3, StagedTame DEF BulkTame
  <2> QED BY <2>1, <2>4 DEF BulkTame, disk
<1>5. CASE VaultWritten
  <2>1. UNCHANGED <<record, cache, legacy>> /\ Settles(write, mem, legacy, dirty, write', dirty')
    BY <1>5, VaultWrittenEffect
  <2>2. TameRecord(write'.view) /\ TameEntries(write'.bulk)
    BY <1>0, <2>1, StagedTame DEF BulkTame
  <2> QED BY <2>1, <2>2 DEF BulkTame
<1>6. CASE VaultFailed
  <2>1. UNCHANGED <<disk, legacy>> BY <1>6, VaultFailedEffect
  <2>2. PICK w \in Writes : w.bulk = write.bulk /\ Settles(w, mem, legacy, dirty, write', dirty')
    BY <1>6, VaultFailedEffect
  <2>3. Ended(w, dirty, write', dirty') \/ Compacting(w, mem, legacy, dirty, write', dirty')
    BY <2>2 DEF Settles
  <2>4. TameRecord(write'.view) /\ TameEntries(write'.bulk)
    <3>1. CASE Ended(w, dirty, write', dirty')
      BY <3>1, IdleHolds DEF Ended, TameRecord, TameEntries
    <3>2. CASE Compacting(w, mem, legacy, dirty, write', dirty')
      <4>1. write'.bulk = write.bulk /\ write'.view = CompactView(mem, legacy)
        BY <2>2, <3>2 DEF Compacting, Carries
      <4>2. \A b \in DOMAIN CompactView(mem, legacy).inline :
               Tame(CompactView(mem, legacy).inline[b], mem.session)
        BY <1>0, ViewTyped DEF BulkTame, TameOn, Memory, Moves
      <4>3. CompactView(mem, legacy).session = mem.session BY <1>0, ViewTyped
      <4> QED BY <4>1, <4>2, <4>3 DEF BulkTame, TameRecord, TameOn
    <3> QED BY <2>3, <3>1, <3>2
  <2> QED BY <2>1, <2>4 DEF BulkTame, disk
<1>7. CASE RecordWritten
  <2>1. record' = write.view /\ UNCHANGED <<cache, legacy>> /\ Ended(write, dirty, write', dirty')
    BY <1>7, RecordWrittenEffect
  <2>2. TameRecord(write'.view) /\ TameEntries(write'.bulk)
    BY <2>1, IdleHolds DEF Ended, TameRecord, TameEntries
  <2> QED BY <2>1, <2>2 DEF BulkTame
<1>8. CASE RecordFailed
  <2>1. UNCHANGED <<disk, legacy>> /\ Ended(write, dirty, write', dirty')
    BY <1>8, RecordFailedEffect
  <2>2. TameRecord(write'.view) /\ TameEntries(write'.bulk)
    BY <2>1, IdleHolds DEF Ended, TameRecord, TameEntries
  <2> QED BY <2>1, <2>2 DEF BulkTame, disk
<1> QED BY <1>2, <1>3, <1>4, <1>5, <1>6, <1>7, <1>8 DEF Writer

LEMMA HydrationTame == ASSUME BulkInv, Hydration PROVE BulkTame'
<1> USE DEF BulkInv
<1>1. CASE HydrateRecord
  <2>1. /\ hyd.pc = "record" /\ UNCHANGED <<bg, disk, write, ops, kills, fate, chosen>>
    BY <1>1, HydrateRecordEffect
  <2>2. PICK stored, known, taken, takeOver : RecordRead(stored, known, taken, takeOver)
    BY <1>1, HydrateRecordEffect
  <2>3. TameOn(mem'.bulk, mem'.session)
    <3>1. mem'.bulk = mem.bulk BY <2>2 DEF RecordRead
    <3>2. CASE "session" \in hyd.touched
      <4>1. mem'.session = mem.session BY <2>2, <3>2 DEF RecordRead
      <4> QED BY <3>1, <4>1 DEF BulkTame
    <3>3. CASE "session" \notin hyd.touched
      <4>1. \A b \in Bulk : mem.bulk[b] = NoData BY <2>1, <3>3 DEF Reading, Unfilled
      <4>2. DOMAIN mem.bulk = Bulk /\ 0 <= ops + 1
        BY BoundsAssumption DEF TypeOK, Memory
      <4> QED BY <3>1, <4>1, <4>2 DEF TameOn, Tame, NoData
    <3> QED BY <3>2, <3>3
  <2>4. TameRecord(stored) BY <2>2 DEF RecordRead, BulkTame, TameRecord
  <2>5. TameOn(legacy'.held, mem'.session)
    BY <2>1, <2>2, <2>4 DEF RecordRead, Reading, TameRecord, TameOn
  <2>6. hyd'.stored = stored BY <2>2 DEF RecordRead
  <2> QED BY <2>1, <2>3, <2>4, <2>5, <2>6
          DEF BulkTame, TameOn, TameRecord, TameEntries, Tame, disk
<1>2. CASE HydrateBulk
  <2>1. /\ hyd.pc = "bulk" /\ UNCHANGED <<disk, ops>> /\ BulkRead
        /\ \/ UNCHANGED <<dirty, due, legacy, write>>
           \/ \E d, g : /\ Resumed(d, g)
                        /\ \/ Begun(mem', d, g, last')
                           \/ legacy' = g /\ UNCHANGED write
    BY <1>2, HydrateBulkEffect
  <2>2. mem' \in Memory /\ mem'.session = mem.session /\ hyd'.stored = NoRecord BY <2>1 DEF BulkRead
  <2>3. \A b \in Usable : Tame(hyd.stored.inline[b], mem.session)
    BY DEF Usable, BulkTame, TameRecord, TameOn
  <2>4. TameOn(mem'.bulk, mem.session)
    <3>1. \A b \in Bulk : Tame(mem.bulk[b], mem.session)
      BY DEF BulkTame, TameOn, TypeOK, Memory
    <3>2. \A b \in DOMAIN cache : Tame(cache[b].val, cache[b].scope) BY DEF BulkTame, TameEntries
    <3>3. DOMAIN mem'.bulk = Bulk BY <2>2 DEF Memory
    <3> QED BY <2>1, <2>3, <3>1, <3>2, <3>3 DEF BulkRead, TameOn
  <2>5. ASSUME NEW d, NEW g, Resumed(d, g) PROVE TameOn(g.held, mem.session)
    BY <2>3, <2>5 DEF Resumed, BulkTame, TameOn
  <2>6. /\ TameOn(legacy'.held, mem.session)
        /\ TameRecord(write'.view) /\ TameEntries(write'.bulk)
    <3>1. CASE UNCHANGED <<dirty, due, legacy, write>>
      BY <3>1 DEF BulkTame
    <3>2. ASSUME NEW d, NEW g, Resumed(d, g), Begun(mem', d, g, last') PROVE <2>6!1 /\ <2>6!2
      <4>1. d \in Marks /\ g \in Moves BY <3>2 DEF Resumed
      <4> QED BY <2>2, <2>4, <2>5, <3>2, <4>1, BegunTame
    <3>3. ASSUME NEW d, NEW g, Resumed(d, g), legacy' = g, UNCHANGED write PROVE <2>6!1 /\ <2>6!2
      BY <2>5, <3>3 DEF BulkTame
    <3> QED BY <2>1, <3>1, <3>2, <3>3
  <2>7. TameRecord(hyd'.stored) BY <2>2 DEF TameRecord
  <2> QED BY <2>1, <2>2, <2>4, <2>6, <2>7
          DEF BulkTame, TameOn, TameRecord, TameEntries, Tame, disk
<1> QED BY <1>1, <1>2 DEF Hydration

LEMMA SetterTame == ASSUME BulkInv, Setter PROVE BulkTame'
<1> USE DEF BulkInv
<1>0. ops \in Nat /\ \A v : v \in Data => v.ver \in Nat
  BY BoundsAssumption DEF TypeOK, Data
<1>1. ASSUME NEW F, Marked(F),
             \A b \in Bulk : mem'.bulk[b].ver <= ops' + 1
                            /\ (mem'.bulk[b] # NoData => mem'.bulk[b].of = mem'.session),
             mem' \in Memory,
             DOMAIN legacy'.held = {} \/ mem'.session = mem.session
      PROVE  BulkTame'
  <2>1. /\ ops' = ops + 1 /\ UNCHANGED <<record, cache, write>> /\ hyd'.stored = hyd.stored
        /\ DOMAIN legacy'.held \subseteq DOMAIN legacy.held
        /\ \A b \in DOMAIN legacy'.held : legacy'.held[b] = legacy.held[b]
    BY <1>1 DEF Marked, disk
  <2>2. \A v \in Data : v.ver <= ops + 1 => v.ver <= ops' + 1 BY <1>0, <2>1
  <2>3. ASSUME NEW r \in Record \cup {NoRecord}, TameRecord(r)
        PROVE  r # NoRecord => \A b \in DOMAIN r.inline :
                  r.inline[b].ver <= ops' + 1 /\ (r.inline[b] # NoData => r.inline[b].of = r.session)
    BY <2>2, <2>3, RecordFields DEF TameRecord, TameOn, Tame
  <2>4. ASSUME NEW c \in PartialOn(Bulk, Entry), TameEntries(c)
        PROVE  \A b \in DOMAIN c :
                  c[b].val.ver <= ops' + 1 /\ (c[b].val # NoData => c[b].val.of = c[b].scope)
    <3>1. \A b \in DOMAIN c : c[b] \in Entry BY PartialOut
    <3>2. \A b \in DOMAIN c : c[b].val \in Data BY <3>1 DEF Entry
    <3> QED BY <2>2, <2>4, <3>2 DEF TameEntries, Tame
  <2>5. \A b \in DOMAIN legacy.held : legacy.held[b] \in Data
    <3>1. legacy.held \in PartialOn(Bulk, Data) BY DEF TypeOK, Moves
    <3> QED BY <3>1, PartialOut
  <2>6. TameOn(legacy.held, mem.session)'
    BY <1>1, <2>1, <2>2, <2>5 DEF BulkTame, TameOn, Tame
  <2>7. TameOn(mem.bulk, mem.session)' BY <1>1 DEF TameOn, Tame, Memory
  <2>8. TameRecord(record)' BY <2>1, <2>3 DEF BulkTame, TypeOK, TameRecord, TameOn, Tame
  <2>9. TameRecord(hyd.stored)'
    <3>1. hyd.stored \in Record \cup {NoRecord} BY DEF TypeOK, Hydrations
    <3> QED BY <2>1, <2>3, <3>1 DEF BulkTame, TameRecord, TameOn, Tame
  <2>10. TameRecord(write.view)'
    <3>1. write.view \in Record \cup {NoRecord} BY DEF TypeOK, Writes
    <3> QED BY <2>1, <2>3, <3>1 DEF BulkTame, TameRecord, TameOn, Tame
  <2>11. TameEntries(cache)' BY <2>1, <2>4 DEF BulkTame, TypeOK, TameEntries, Tame
  <2>12. TameEntries(write.bulk)'
    <3>1. write.bulk \in PartialOn(Bulk, Entry) BY DEF TypeOK, Writes
    <3> QED BY <2>1, <2>4, <3>1 DEF BulkTame, TameEntries, Tame
  <2> QED BY <2>6, <2>7, <2>8, <2>9, <2>10, <2>11, <2>12 DEF BulkTame
<1>2. DOMAIN legacy.held \subseteq Bulk
  <2>1. legacy.held \in PartialOn(Bulk, Data) BY DEF TypeOK, Moves
  <2> QED BY <2>1, PartialOut
<1>3. ASSUME NEW F, Marked(F), Bulk \subseteq F, mem' \in Memory, mem'.bulk = [b \in Bulk |-> NoData]
      PROVE  BulkTame'
  <2>1. DOMAIN legacy'.held = {} BY <1>2, <1>3 DEF Marked
  <2>2. ops' \in Nat /\ NoData.ver = 0 BY <1>0, <1>3 DEF Marked, NoData
  <2>3. \A b \in Bulk : mem'.bulk[b].ver <= ops' + 1 BY <1>3, <2>2
  <2> QED BY <1>1, <1>3, <2>1, <2>3
<1>4. \A b \in Bulk : /\ mem.bulk[b] \in Data /\ mem.bulk[b].ver <= ops + 1
                      /\ mem.bulk[b] # NoData => mem.bulk[b].of = mem.session
  BY DEF BulkTame, TameOn, Tame, TypeOK, Memory
<1>5. ASSUME NEW F, Marked(F), mem' \in Memory, mem'.session = mem.session, mem'.bulk = mem.bulk
      PROVE  BulkTame'
  <2>1. \A b \in Bulk : mem'.bulk[b].ver <= ops' + 1 BY <1>0, <1>4, <1>5 DEF Marked
  <2> QED BY <1>1, <1>4, <1>5, <2>1
<1>6. ASSUME NEW s \in Wallets, NEW lock \in BOOLEAN, Login(s, lock) PROVE BulkTame'
  BY <1>3, <1>6, LoginEffect
<1>7. CASE Logout
  BY <1>3, <1>7, LogoutEffect
<1>8. CASE SetLocked BY <1>5, <1>8, SetLockedEffect
<1>9. CASE SetAccount BY <1>5, <1>9, SetAccountEffect
<1>10. ASSUME NEW b \in Bulk, SetBulk(b) PROVE BulkTame'
  <2>1. /\ Marked({b}) /\ mem' \in Memory /\ mem'.session = mem.session
        /\ mem'.bulk = [mem.bulk EXCEPT ![b] = Fresh]
    BY <1>10, SetBulkEffect
  <2>2. Fresh.of = mem.session /\ Fresh.ver = ops + 2 BY <2>1, FreshTyped DEF Marked
  <2>3. ops' = ops + 1 BY <2>1 DEF Marked
  <2>4. ASSUME NEW c \in Bulk
        PROVE  mem'.bulk[c].ver <= ops' + 1 /\ (mem'.bulk[c] # NoData => mem'.bulk[c].of = mem'.session)
    <3> HIDE DEF Fresh
    <3>1. mem'.bulk[c] = IF c = b THEN Fresh ELSE mem.bulk[c] BY <2>1 DEF TypeOK, Memory
    <3> QED BY <1>0, <1>4, <2>1, <2>2, <2>3, <3>1
  <2> QED BY <1>1, <2>1, <2>4
<1> QED BY <1>6, <1>7, <1>8, <1>9, <1>10 DEF Setter

LEMMA NextBulk == BulkInv /\ [Next]_vars => BulkInv'
<1> SUFFICES ASSUME BulkInv, [Next]_vars PROVE BulkInv' OBVIOUS
<1>1. TypeOK' /\ Reading' /\ Unfilled' BY NextTypes, NextReading DEF BulkInv
<1>2. CASE WorkerKilled
  <2>1. UNCHANGED <<record, cache, ops>> BY <1>2 DEF WorkerKilled, disk
  <2>2. TameOn(mem.bulk, mem.session)' /\ TameOn(legacy.held, mem.session)'
    BY <1>2, <2>1, BoundsAssumption
       DEF WorkerKilled, TameOn, Tame, Defaults, NoData, NothingLegacy, BulkInv, TypeOK
  <2>3. TameRecord(hyd.stored)' /\ TameRecord(write.view)' /\ TameEntries(write.bulk)'
    BY <1>2, IdleHolds DEF WorkerKilled, TameRecord, TameEntries, HydrationStart
  <2>4. TameRecord(record)' /\ TameEntries(cache)'
    BY <2>1 DEF BulkInv, BulkTame, TameRecord, TameEntries, TameOn, Tame
  <2> QED BY <1>1, <2>2, <2>3, <2>4 DEF BulkInv, BulkTame
<1>3. CASE UNCHANGED vars
  BY <1>1, <1>3 DEF BulkInv, BulkTame, TameOn, TameRecord, TameEntries, Tame,
     vars, disk, persister, ghosts
<1> QED BY <1>1, <1>2, <1>3, WriterTame, HydrationTame, SetterTame DEF Next, BulkInv

(* No wallet's bulk data is in the store under another wallet's session,      *)
(* whatever the setters, kills and failed writes before a hydration.          *)
THEOREM BulkIsOwn == Spec => []BulkFollowsSession
<1>1. BulkInv => BulkFollowsSession
  BY DEF BulkInv, BulkTame, TameOn, Tame, TypeOK, Memory, BulkFollowsSession
<1> QED BY <1>1, InitBulk, NextBulk, PTL DEF Spec

(* While one session lasts, a hydration never puts an older value over what a *)
(* setter wrote while it was reading.                                         *)
LEMMA NextNewest ==
    ASSUME BulkInv, [Next]_vars, kills' = kills, mem'.session = mem.session,
           mem'.bulk # Emptied(mem).bulk, NEW b \in Bulk
    PROVE  mem'.bulk[b].ver >= mem.bulk[b].ver
<1> USE DEF BulkInv
<1>0. mem.bulk[b] \in Data /\ mem.bulk[b].ver \in Nat /\ mem.bulk[b].ver <= ops + 1 /\ ops \in Nat
  BY BoundsAssumption DEF BulkTame, TameOn, Tame, TypeOK, Memory, Data
<1>00. Emptied(mem).bulk = [c \in Bulk |-> NoData]
  BY DEF Emptied, TypeOK, Memory
<1>1. CASE mem'.bulk = mem.bulk BY <1>0, <1>1
<1>2. CASE Writer
  <2>1. mem' = mem BY <1>2, WriterWaits DEF BulkInv
  <2> QED BY <1>1, <2>1
<1>3. CASE HydrateRecord
  <2>1. mem'.bulk = mem.bulk BY <1>3, HydrateRecordEffect DEF RecordRead
  <2> QED BY <1>1, <2>1
<1>4. CASE HydrateBulk
  <2>1. hyd.pc = "bulk" /\ mem' \in Memory
        /\ (mem'.bulk[b] = mem.bulk[b] \/ b \notin hyd.touched)
    BY <1>4, HydrateBulkEffect DEF BulkRead
  <2>2. CASE b \notin hyd.touched
    <3>1. mem.bulk[b].ver = 0 BY <2>1, <2>2 DEF Unfilled, NoData
    <3>2. mem'.bulk[b].ver \in Nat BY <2>1, BoundsAssumption DEF Memory, Data
    <3> QED BY <3>1, <3>2
  <2> QED BY <1>0, <2>1, <2>2
<1>5. CASE \E s \in Wallets, lock \in BOOLEAN : Login(s, lock)
  BY <1>5, <1>00, LoginEffect
<1>6. CASE Logout
  BY <1>6, <1>00, LogoutEffect
<1>7. CASE SetLocked \/ SetAccount
  BY <1>1, <1>7, SetLockedEffect, SetAccountEffect
<1>8. ASSUME NEW c \in Bulk, SetBulk(c) PROVE mem'.bulk[b].ver >= mem.bulk[b].ver
  <2>1. Marked({c}) /\ mem'.bulk = [mem.bulk EXCEPT ![c] = Fresh] BY <1>8, SetBulkEffect
  <2>2. Fresh.ver = ops + 2 BY <2>1, FreshTyped DEF Marked
  <2> HIDE DEF Fresh
  <2>3. mem'.bulk[b] = IF b = c THEN Fresh ELSE mem.bulk[b] BY <2>1 DEF TypeOK, Memory
  <2> QED BY <1>0, <2>2, <2>3
<1>9. CASE WorkerKilled
  <2>1. kills' = kills + 1 /\ kills \in Nat BY <1>9, BoundsAssumption DEF WorkerKilled, TypeOK
  <2> QED BY <2>1
<1>10. CASE UNCHANGED vars
  BY <1>1, <1>10 DEF vars
<1> QED BY <1>2, <1>3, <1>4, <1>5, <1>6, <1>7, <1>8, <1>9, <1>10 DEF Next, Hydration, Setter

(* While one session lasts, a hydration that ends puts nothing older over     *)
(* what a setter wrote while it was reading.                                  *)
THEOREM NewestKept == Spec => NewestSurvives
<1>1. BulkInv /\ [Next]_vars =>
        [kills' = kills /\ mem'.session = mem.session /\ mem'.bulk # Emptied(mem).bulk
           => \A b \in Bulk : mem'.bulk[b].ver >= mem.bulk[b].ver]_vars
  BY NextNewest
<1> QED BY <1>1, InitBulk, NextBulk, PTL DEF Spec, NewestSurvives

-----------------------------------------------------------------------------
(* The durable session.  A session that waits to be taken over is queued in   *)
(* the place the writer will look for it next, so adoption never comes before *)
(* the session; what is in flight is the store's session or an earlier one    *)
(* that a setter has replaced; and whatever may reach storage as the session  *)
(* is one a setter chose, or the one that storage has, or the default of a    *)
(* start that could not read the record.                                      *)
Queued ==
    \/ write.pc = "idle" /\ "session" \in dirty.trusted
    \/ write.pc = "bulk" /\ "session" \in write.fields
    \/ write.pc = "trusted" /\ "session" \in DOMAIN write.trusted
    \/ write.pc = "compact" /\ "session" \in write.failedTrusted
Taking ==
    /\ adopting /\ "session" \notin DOMAIN vault => Queued
    /\ write.pc = "trusted" => write.adopting = adopting
    /\ write.pc \in {"bulk", "trusted"} => write.failedTrusted = {}
    /\ DOMAIN last.trusted \subseteq DOMAIN vault
InFlight ==
    /\ write.pc = "trusted" /\ "session" \in DOMAIN write.trusted =>
         write.trusted["session"] = mem.session \/ mem.session \in chosen
    /\ write.pc = "compact" => write.view.session = mem.session \/ mem.session \in chosen
Allowed == IF blind THEN {NoWallet} ELSE {}
Fit(s) == s \in chosen \cup {DurableSession} \cup Allowed
Pending ==
    \/ "session" \in dirty.trusted
    \/ write.pc = "bulk" /\ "session" \in write.fields
    \/ write.pc = "compact" /\ "session" \in write.failedTrusted
Known == "session" \in DOMAIN vault \/ adopted
SessionFits ==
    /\ Pending => Fit(mem.session)
    /\ ~Known /\ hyd.pc # "record" => Fit(mem.session)
    /\ write.pc = "trusted" /\ "session" \in DOMAIN write.trusted => Fit(write.trusted["session"])
    /\ write.pc = "compact" /\ ~Known => Fit(write.view.session)
SessionInv == BulkInv /\ Taking /\ InFlight /\ SessionFits

LEMMA InitSession == Init => SessionInv
<1> SUFFICES ASSUME Init PROVE Taking /\ InFlight /\ SessionFits
  BY InitBulk DEF SessionInv
<1>1. /\ write.pc = "idle" /\ ~adopting /\ dirty.trusted = {} /\ hyd.pc = "record"
      /\ DOMAIN last.trusted = {}
  BY IdleHolds DEF Init, NothingDirty, NothingLast, HydrationStart
<1> QED BY <1>1 DEF Taking, InFlight, SessionFits, Pending

LEMMA SameDurable ==
    ASSUME UNCHANGED <<record, vault, adopted>>
    PROVE  DurableSession' = DurableSession /\ Known' = Known
BY DEF DurableSession, Known

(* What a stage does with the session. *)
LEMMA StagedSession ==
    ASSUME NEW w \in Writes, NEW m \in Memory, NEW g \in Moves, NEW d, NEW k, NEW x, NEW e,
           Staged(w, m, g, d, k, x, e), w.failedTrusted = {}
    PROVE  /\ e.trusted = d.trusted /\ x.failedTrusted = {}
           /\ x.pc \in {"idle", "trusted", "compact"}
           /\ x.pc = "trusted" =>
                /\ x.adopting = adopting
                /\ "session" \in DOMAIN x.trusted =>
                     "session" \in w.fields /\ x.trusted["session"] = m.session
           /\ x.pc = "compact" => x.view.session = m.session
           /\ x.pc # "trusted" => ~adopting
           /\ "session" \in w.fields \ DOMAIN k.trusted /\ adopting => "session" \in DOMAIN x.trusted
<1>1. CASE Trusting(w, m, d, x, e)
  <2>1. PICK F \in SUBSET w.fields : x.trusted = [f \in F |-> m[f]] BY <1>1 DEF Trusting
  <2>2. F \in SUBSET Trusted BY DEF Writes
  <2>3. DOMAIN x.trusted = F /\ ("session" \in F => x.trusted["session"] = m.session)
    BY <2>1, <2>2, Fields
  <2>4. "session" \in w.fields \ DOMAIN k.trusted /\ adopting => "session" \in DOMAIN x.trusted
    BY <1>1, IdleHolds DEF Staged, Trusting, Settles, Ended, Compacting
  <2> QED BY <1>1, <2>3, <2>4 DEF Trusting, Carries
<1>2. CASE ~adopting /\ Ended(w, d, x, e)
  BY <1>2, IdleHolds DEF Ended
<1>3. CASE ~adopting /\ Compacting(w, m, g, d, x, e)
  BY <1>3, ViewTyped DEF Compacting, Carries
<1> QED BY <1>1, <1>2, <1>3 DEF Staged, Settles

(* A write that starts takes over what is dirty. *)
LEMMA BegunSession ==
    ASSUME SessionInv, write.pc = "idle", hyd.pc # "record", mem'.session = mem.session,
           UNCHANGED <<disk, adopting, ghosts>>,
           NEW m \in Memory, NEW d \in Marks, NEW g \in Moves, NEW k, Begun(m, d, g, k),
           m.session = mem.session, d.trusted = dirty.trusted,
           DOMAIN k.trusted \subseteq DOMAIN vault, DOMAIN last'.trusted \subseteq DOMAIN vault
    PROVE  Taking' /\ InFlight' /\ SessionFits'
<1> USE DEF SessionInv
<1>1. UNCHANGED <<record, vault, adopted, adopting, chosen, blind>> BY DEF disk, ghosts
<1>2. DurableSession' = DurableSession /\ Known' = Known BY <1>1, SameDurable
<1>3. \A s : Fit(s)' = Fit(s) BY <1>1, <1>2 DEF Fit, Allowed
<1>4. CASE BulkStarts(m, d, g)
  <2>1. /\ dirty'.trusted = {} /\ write'.pc = "bulk" /\ write'.fields = dirty.trusted
        /\ write'.failedTrusted = {}
    BY <1>4 DEF BulkStarts, NothingDirty
  <2>2. Taking' BY <1>1, <2>1 DEF Taking, Queued
  <2>3. InFlight' BY <2>1 DEF InFlight
  <2>4. SessionFits' BY <1>1, <1>2, <2>1 DEF SessionFits, Pending, Fit, Allowed
  <2> QED BY <2>2, <2>3, <2>4
<1>5. CASE LaterStarts(m, d, k)
  <2>1. PICK w \in Writes : /\ w.fields = d.trusted /\ w.failedTrusted = {}
                            /\ Staged(w, m, legacy', NothingDirty, k, write', dirty')
    BY <1>5 DEF LaterStarts
  <2>2. legacy' \in Moves BY DEF Begun
  <2>3. NothingDirty.trusted = {} BY DEF NothingDirty
  <2>4. /\ dirty'.trusted = {} /\ write'.failedTrusted = {}
        /\ write'.pc \in {"idle", "trusted", "compact"}
        /\ write'.pc = "trusted" =>
             /\ write'.adopting = adopting
             /\ "session" \in DOMAIN write'.trusted =>
                  "session" \in dirty.trusted /\ write'.trusted["session"] = mem.session
        /\ write'.pc = "compact" => write'.view.session = mem.session
        /\ write'.pc # "trusted" => ~adopting
        /\ "session" \in dirty.trusted \ DOMAIN k.trusted /\ adopting => "session" \in DOMAIN write'.trusted
    BY <2>1, <2>2, <2>3, StagedSession
  <2>5. Taking' BY <1>1, <2>4 DEF Taking, Queued
  <2>6. InFlight' BY <2>4 DEF InFlight
  <2>7. SessionFits' BY <1>1, <1>2, <2>4 DEF SessionFits, Pending, Fit, Allowed
  <2> QED BY <2>5, <2>6, <2>7
<1> QED BY <1>4, <1>5 DEF Begun

(* What follows a bulk write does with the session. *)
LEMMA BulkStageSession ==
    ASSUME SessionInv, write.pc = "bulk", hyd.pc # "record", UNCHANGED <<mem, adopting, vault, adopted, record, ghosts>>,
           last'.trusted = last.trusted, hyd' = hyd,
           NEW w \in Writes, NEW g \in Moves, w.fields = write.fields,
           w.failedTrusted = write.failedTrusted,
           Staged(w, mem, g, dirty, last, write', dirty')
    PROVE  Taking' /\ InFlight' /\ SessionFits'
<1> USE DEF SessionInv
<1>1. UNCHANGED <<chosen, blind>> BY DEF ghosts
<1>2. DurableSession' = DurableSession /\ Known' = Known BY SameDurable
<1>3. w.failedTrusted = {} BY DEF Taking
<1>4. mem \in Memory BY DEF BulkInv, TypeOK
<1>5. /\ dirty'.trusted = dirty.trusted /\ write'.failedTrusted = {}
      /\ write'.pc \in {"idle", "trusted", "compact"}
      /\ write'.pc = "trusted" =>
           /\ write'.adopting = adopting
           /\ "session" \in DOMAIN write'.trusted =>
                "session" \in write.fields /\ write'.trusted["session"] = mem.session
      /\ write'.pc = "compact" => write'.view.session = mem.session
      /\ write'.pc # "trusted" => ~adopting
      /\ "session" \in write.fields \ DOMAIN last.trusted /\ adopting => "session" \in DOMAIN write'.trusted
  BY <1>3, <1>4, StagedSession
<1>6. Taking' BY <1>5 DEF Taking, Queued
<1>7. InFlight' BY <1>5 DEF InFlight
<1>8. SessionFits' BY <1>1, <1>2, <1>5 DEF SessionFits, Pending, Fit, Allowed
<1> QED BY <1>6, <1>7, <1>8

SessionStep == Taking' /\ InFlight' /\ SessionFits'
               /\ DurableSession' \in chosen' \cup {DurableSession} \cup Allowed

LEMMA SettledSession ==
    ASSUME NEW w, NEW m \in Memory, NEW g \in Moves, NEW d, NEW x, NEW e, Settles(w, m, g, d, x, e)
    PROVE  \/ x.pc = "idle" /\ e.trusted = d.trusted \cup w.failedTrusted
           \/ /\ x.pc = "compact" /\ e.trusted = d.trusted /\ x.failedTrusted = w.failedTrusted
              /\ x.view.session = m.session
BY ViewTyped, IdleHolds DEF Settles, Ended, Compacting, Carries

LEMMA WriterSession == ASSUME SessionInv, Writer PROVE SessionStep
<1> USE DEF SessionInv
<1>0. /\ TypeOK /\ mem \in Memory /\ legacy \in Moves /\ dirty \in Marks /\ hyd.pc # "record"
      /\ UNCHANGED <<hyd, mem, chosen, blind>> /\ DOMAIN last.trusted \subseteq DOMAIN vault
  BY WriterWaits DEF BulkInv, TypeOK, ghosts, Taking
<1>00. ASSUME UNCHANGED <<record, vault, adopted>>
       PROVE  DurableSession' = DurableSession /\ Known' = Known
  BY <1>00, SameDurable
<1>1. CASE Flush
  <2>1. /\ write.pc = "idle" /\ UNCHANGED <<disk, adopting, last, ghosts>>
        /\ UNCHANGED <<dirty, legacy, write>> \/ Begun(mem, dirty, legacy, last)
    BY <1>0, <1>1, FlushEffect
  <2>2. UNCHANGED <<record, vault, adopted>> BY <2>1 DEF disk
  <2>3. CASE UNCHANGED <<dirty, legacy, write>>
    <3>1. Taking' BY <2>1, <2>2, <2>3 DEF Taking, Queued
    <3>2. InFlight' BY <1>0, <2>3 DEF InFlight
    <3>3. SessionFits' BY <1>0, <1>00, <2>2, <2>3 DEF SessionFits, Pending, Fit, Allowed
    <3> QED BY <1>00, <2>2, <3>1, <3>2, <3>3 DEF SessionStep
  <2>4. CASE Begun(mem, dirty, legacy, last)
    <3>1. DOMAIN last'.trusted \subseteq DOMAIN vault /\ mem'.session = mem.session BY <1>0, <2>1
    <3>2. Taking' /\ InFlight' /\ SessionFits'
      BY <1>0, <2>1, <2>4, <3>1, BegunSession
    <3> QED BY <1>00, <2>2, <3>2 DEF SessionStep
  <2> QED BY <2>1, <2>3, <2>4
<1>2. CASE BulkWritten
  <2>1. /\ write.pc = "bulk" /\ UNCHANGED <<mem, adopting, vault, adopted, record, ghosts, hyd>>
        /\ last'.trusted = last.trusted /\ legacy' = Drop(legacy, DOMAIN write.bulk)
        /\ \E w \in Writes : /\ Carries(write, w)
                             /\ Staged(w, mem, legacy', dirty, last, write', dirty')
    BY <1>2, <1>0, BulkWrittenEffect
  <2>2. legacy' \in Moves BY <1>0, <2>1, DropFields DEF TypeOK
  <2>3. Taking' /\ InFlight' /\ SessionFits'
    BY <1>0, <2>1, <2>2, BulkStageSession DEF Carries
  <2> QED BY <1>00, <2>1, <2>3 DEF SessionStep
<1>3. CASE BulkFailed
  <2>1. /\ write.pc = "bulk" /\ UNCHANGED <<mem, disk, adopting, ghosts, hyd>>
        /\ last'.trusted = last.trusted
        /\ \E w \in Writes :
             /\ w.fields = write.fields /\ w.failedTrusted = write.failedTrusted
             /\ Staged(w, mem, legacy, dirty, last, write', dirty')
    BY <1>0, <1>3, BulkFailedEffect
  <2>2. UNCHANGED <<record, vault, adopted>> BY <2>1 DEF disk
  <2>3. Taking' /\ InFlight' /\ SessionFits'
    BY <1>0, <2>1, <2>2, BulkStageSession
  <2> QED BY <1>00, <2>2, <2>3 DEF SessionStep
<1>4. CASE VaultWritten
  <2>1. /\ write.pc = "trusted" /\ vault' = Over(write.trusted, vault)
        /\ adopted' = (adopted \/ write.adopting) /\ adopting' = (adopting /\ ~write.adopting)
        /\ last'.trusted = Over(write.trusted, last.trusted)
        /\ UNCHANGED record /\ Settles(write, mem, legacy, dirty, write', dirty')
    BY <1>0, <1>4, VaultWrittenEffect
  <2>2. write.trusted \in VaultOf /\ vault \in VaultOf BY <1>0 DEF TypeOK, Writes
  <2>3. /\ DOMAIN vault' = DOMAIN write.trusted \cup DOMAIN vault
        /\ "session" \in DOMAIN write.trusted => vault'["session"] = write.trusted["session"]
        /\ "session" \in DOMAIN vault \ DOMAIN write.trusted => vault'["session"] = vault["session"]
        /\ DOMAIN last'.trusted = DOMAIN write.trusted \cup DOMAIN last.trusted
    BY <2>1, <2>2 DEF Over
  <2>4. write.adopting = adopting /\ write.failedTrusted = {} /\ ~adopting'
        /\ (adopting /\ "session" \notin DOMAIN vault => "session" \in DOMAIN write.trusted)
    BY <1>0, <2>1 DEF Taking, Queued, TypeOK
  <2>5. IF "session" \in DOMAIN write.trusted THEN DurableSession' = write.trusted["session"]
        ELSE DurableSession' = DurableSession
    BY <2>1, <2>3, <2>4 DEF DurableSession
  <2>6. ~Known' => ~Known /\ "session" \notin DOMAIN write.trusted BY <2>1, <2>3 DEF Known
  <2>7. /\ dirty'.trusted = dirty.trusted /\ write'.pc \in {"idle", "compact"}
        /\ write'.pc = "compact" => write'.view.session = mem.session /\ write'.failedTrusted = {}
    <3>1. \/ write'.pc = "idle" /\ dirty'.trusted = dirty.trusted \cup write.failedTrusted
          \/ /\ write'.pc = "compact" /\ dirty'.trusted = dirty.trusted
             /\ write'.failedTrusted = write.failedTrusted /\ write'.view.session = mem.session
      BY <1>0, <2>1, SettledSession
    <3> QED BY <2>4, <3>1
  <2>8. Taking' BY <1>0, <2>3, <2>4, <2>7 DEF Taking
  <2>9. InFlight' BY <1>0, <2>7 DEF InFlight
  <2>10. DurableSession' \in chosen' \cup {DurableSession} \cup Allowed
    BY <1>0, <2>1, <2>5 DEF SessionFits, Fit, Allowed
  <2>11. Pending' => Fit(mem.session)'
    BY <1>0, <2>1, <2>5, <2>7 DEF SessionFits, InFlight, Pending, Fit, Allowed
  <2>12. ASSUME ~Known' PROVE Fit(mem.session)'
    BY <1>0, <2>5, <2>6, <2>12 DEF SessionFits, Fit, Allowed
  <2>13. SessionFits' BY <1>0, <2>7, <2>11, <2>12 DEF SessionFits, Fit, Allowed
  <2> QED BY <2>8, <2>9, <2>10, <2>13 DEF SessionStep
<1>5. CASE VaultFailed
  <2>1. write.pc = "trusted" /\ UNCHANGED <<disk, adopting, last>> BY <1>0, <1>5, VaultFailedEffect
  <2>2. PICK w \in Writes : /\ w.failedTrusted = DOMAIN write.trusted
                            /\ Settles(w, mem, legacy, dirty, write', dirty')
    BY <1>0, <1>5, VaultFailedEffect
  <2>3. UNCHANGED <<record, vault, adopted>> BY <2>1 DEF disk
  <2>4. \/ write'.pc = "idle" /\ dirty'.trusted = dirty.trusted \cup DOMAIN write.trusted
        \/ /\ write'.pc = "compact" /\ dirty'.trusted = dirty.trusted
           /\ write'.failedTrusted = DOMAIN write.trusted /\ write'.view.session = mem.session
    BY <1>0, <2>2, SettledSession
  <2>5. Taking' BY <1>0, <2>1, <2>3, <2>4 DEF Taking, Queued
  <2>6. InFlight' BY <1>0, <2>4 DEF InFlight
  <2>7. Pending' => Fit(mem.session)
    BY <2>1, <2>4 DEF SessionFits, InFlight, Pending, Fit, Allowed
  <2>8. SessionFits' BY <1>0, <1>00, <2>3, <2>4, <2>7 DEF SessionFits, Fit, Allowed
  <2> QED BY <1>00, <2>3, <2>5, <2>6, <2>8 DEF SessionStep
<1>6. CASE RecordWritten
  <2>1. /\ write.pc = "compact" /\ record' = write.view /\ last'.trusted = last.trusted
        /\ UNCHANGED <<vault, adopted, adopting>> /\ Ended(write, dirty, write', dirty')
    BY <1>0, <1>6, RecordWrittenEffect
  <2>2. write'.pc = "idle" /\ dirty'.trusted = dirty.trusted \cup write.failedTrusted
    BY <2>1, IdleHolds DEF Ended
  <2>3. record' # NoRecord BY <1>0, <2>1, RecordAssumption DEF TypeOK
  <2>4. /\ Known' = Known
        /\ DurableSession' = IF Known THEN DurableSession ELSE write.view.session
    BY <2>1, <2>3 DEF DurableSession, Known
  <2>5. Taking' BY <1>0, <2>1, <2>2 DEF Taking, Queued
  <2>6. InFlight' BY <2>2 DEF InFlight
  <2>7. (Pending' => Fit(mem.session)') /\ (~Known => Fit(mem.session)')
    BY <1>0, <2>1, <2>2, <2>4 DEF SessionFits, InFlight, Pending, Fit, Allowed
  <2>8. SessionFits' BY <1>0, <2>2, <2>4, <2>7 DEF SessionFits, Fit, Allowed
  <2>9. DurableSession' \in chosen' \cup {DurableSession} \cup Allowed
    BY <1>0, <2>1, <2>4 DEF SessionFits, Fit, Allowed
  <2> QED BY <2>5, <2>6, <2>8, <2>9 DEF SessionStep
<1>7. CASE RecordFailed
  <2>1. /\ write.pc = "compact" /\ UNCHANGED <<disk, adopting, last>>
        /\ Ended(write, dirty, write', dirty')
    BY <1>0, <1>7, RecordFailedEffect
  <2>2. write'.pc = "idle" /\ dirty'.trusted = dirty.trusted \cup write.failedTrusted
    BY <2>1, IdleHolds DEF Ended
  <2>3. UNCHANGED <<record, vault, adopted>> BY <2>1 DEF disk
  <2>4. Taking' BY <1>0, <2>1, <2>2, <2>3 DEF Taking, Queued
  <2>5. InFlight' BY <2>2 DEF InFlight
  <2>6. SessionFits' BY <1>0, <1>00, <2>1, <2>2, <2>3 DEF SessionFits, Pending, Fit, Allowed
  <2> QED BY <1>00, <2>3, <2>4, <2>5, <2>6 DEF SessionStep
<1> QED BY <1>1, <1>2, <1>3, <1>4, <1>5, <1>6, <1>7 DEF Writer

LEMMA HydrationSession == ASSUME SessionInv, Hydration PROVE SessionStep
<1> USE DEF SessionInv
<1>0. TypeOK /\ mem \in Memory /\ DOMAIN last.trusted \subseteq DOMAIN vault
  BY DEF BulkInv, TypeOK, Taking
<1>1. CASE HydrateRecord
  <2>1. /\ hyd.pc = "record" /\ UNCHANGED <<bg, disk, write, ops, kills, fate, chosen>>
    BY <1>0, <1>1, HydrateRecordEffect
  <2>2. PICK stored, known, taken, takeOver : RecordRead(stored, known, taken, takeOver)
    BY <1>0, <1>1, HydrateRecordEffect
  <2>3. UNCHANGED <<record, vault, adopted, chosen, write>> BY <2>1 DEF disk
  <2>4. /\ write.pc = "idle"
        /\ "session" \in dirty.trusted => "session" \in hyd.touched
        /\ "session" \in hyd.touched => mem.session \in chosen
        /\ "session" \notin hyd.touched => mem.session = NoWallet
    BY <2>1, IdleHolds DEF BulkInv, Reading
  <2>5. /\ adopting' = takeOver /\ last'.trusted = known /\ stored = (IF blind' THEN NoRecord ELSE record)
        /\ dirty'.trusted = IF takeOver THEN Trusted ELSE dirty.trusted
        /\ \/ known = vault /\ taken = adopted /\ takeOver = ~adopted
           \/ known = <<>> /\ taken = FALSE /\ takeOver = FALSE
        /\ mem'.session =
             IF "session" \in hyd.touched THEN mem.session
             ELSE IF "session" \in DOMAIN known THEN known["session"]
             ELSE IF stored # NoRecord /\ ~taken THEN stored.session ELSE mem.session
    BY <2>2 DEF RecordRead
  <2>6. DOMAIN known \subseteq DOMAIN vault BY <2>5
  <2>7. Taking' BY <2>3, <2>4, <2>5, <2>6 DEF Taking, Queued, Trusted
  <2>8. InFlight' BY <2>3, <2>4 DEF InFlight
  <2>9. DurableSession' = DurableSession /\ Known' = Known BY <2>3, SameDurable
  <2>10. ASSUME Pending' \/ ~Known PROVE mem'.session \in chosen \cup {DurableSession} \cup Allowed'
    <3>1. CASE "session" \in hyd.touched BY <2>4, <2>5, <3>1
    <3>2. CASE "session" \notin hyd.touched
      <4>1. ~Known \/ (takeOver /\ known = vault /\ ~adopted)
        BY <2>3, <2>4, <2>5, <2>10, <3>2 DEF Pending
      <4>2. CASE takeOver /\ known = vault /\ ~adopted
        BY <2>4, <2>5, <2>10, <3>2, <4>2 DEF DurableSession, Allowed
      <4>3. CASE ~Known
        <5>1. "session" \notin DOMAIN known BY <2>6, <4>3 DEF Known
        <5>2. ~taken BY <2>5, <4>3 DEF Known
        <5> QED BY <2>4, <2>5, <2>10, <3>2, <4>3, <5>1, <5>2 DEF DurableSession, Known, Allowed
      <4> QED BY <4>1, <4>2, <4>3
    <3> QED BY <3>1, <3>2
  <2>11. SessionFits' BY <2>3, <2>4, <2>9, <2>10 DEF SessionFits, Fit, Allowed
  <2> QED BY <2>7, <2>8, <2>9, <2>11 DEF SessionStep
<1>2. CASE HydrateBulk
  <2>1. /\ hyd.pc = "bulk" /\ UNCHANGED <<disk, adopting, ghosts>> /\ BulkRead
        /\ \/ UNCHANGED <<dirty, write>>
           \/ \E d, g : /\ Resumed(d, g)
                        /\ \/ write.pc = "idle" /\ Begun(mem', d, g, last')
                           \/ dirty' = d /\ UNCHANGED write
    BY <1>0, <1>2, HydrateBulkEffect
  <2>2. mem' \in Memory /\ mem'.session = mem.session /\ last'.trusted = last.trusted
    BY <2>1 DEF BulkRead
  <2>3. UNCHANGED <<record, vault, adopted, chosen, blind>> BY <2>1 DEF disk, ghosts
  <2>4. DurableSession' = DurableSession /\ Known' = Known BY <2>3, SameDurable
  <2>5. ASSUME dirty'.trusted = dirty.trusted, UNCHANGED write
        PROVE  Taking' /\ InFlight' /\ SessionFits'
    <3>1. Taking' BY <2>1, <2>2, <2>3, <2>5 DEF Taking, Queued
    <3>2. InFlight' BY <2>2, <2>3, <2>5 DEF InFlight
    <3>3. SessionFits' BY <2>1, <2>2, <2>3, <2>4, <2>5 DEF SessionFits, Pending, Fit, Allowed
    <3> QED BY <3>1, <3>2, <3>3
  <2>6. ASSUME NEW d, NEW g, Resumed(d, g), write.pc = "idle", Begun(mem', d, g, last')
        PROVE  Taking' /\ InFlight' /\ SessionFits'
    <3>1. d \in Marks /\ g \in Moves /\ d.trusted = dirty.trusted BY <2>6 DEF Resumed
    <3>2. DOMAIN last'.trusted \subseteq DOMAIN vault /\ hyd.pc # "record" BY <1>0, <2>1, <2>2
    <3>3. SessionInv OBVIOUS
    <3> HIDE DEF SessionInv
    <3> QED BY <2>1, <2>2, <2>6, <3>1, <3>2, <3>3, BegunSession
  <2>7. Taking' /\ InFlight' /\ SessionFits'
    <3>1. CASE UNCHANGED <<dirty, write>> BY <2>5, <3>1
    <3>2. ASSUME NEW d, NEW g, Resumed(d, g), dirty' = d, UNCHANGED write
          PROVE  Taking' /\ InFlight' /\ SessionFits'
      BY <2>5, <3>2 DEF Resumed
    <3> QED BY <2>1, <2>6, <3>1, <3>2
  <2> QED BY <2>4, <2>7 DEF SessionStep
<1> QED BY <1>1, <1>2 DEF Hydration

LEMMA SetterSession == ASSUME SessionInv, Setter PROVE SessionStep
<1> USE DEF SessionInv
<1>0. TypeOK BY DEF BulkInv
<1>1. ASSUME NEW F, Marked(F), chosen \subseteq chosen',
             \/ mem'.session \in chosen'
             \/ mem'.session = mem.session /\ "session" \notin F
      PROVE  SessionStep
  <2>1. /\ UNCHANGED <<record, vault, adopted, adopting, last, write, blind>>
        /\ dirty.trusted \subseteq dirty'.trusted /\ hyd'.pc = hyd.pc
        /\ "session" \notin F => ("session" \in dirty'.trusted => "session" \in dirty.trusted)
    BY <1>1 DEF Marked, disk
  <2>2. DurableSession' = DurableSession /\ Known' = Known BY <2>1, SameDurable
  <2>3. Taking' BY <2>1 DEF Taking, Queued
  <2>4. InFlight' BY <1>1, <2>1 DEF InFlight
  <2>5. SessionFits' BY <1>1, <2>1, <2>2 DEF SessionFits, Pending, Fit, Allowed
  <2> QED BY <2>2, <2>3, <2>4, <2>5 DEF SessionStep
<1>2. ASSUME NEW s \in Wallets, NEW lock \in BOOLEAN, Login(s, lock) PROVE SessionStep
  BY <1>0, <1>1, <1>2, LoginEffect
<1>3. CASE Logout BY <1>0, <1>1, <1>3, LogoutEffect
<1>4. CASE SetLocked BY <1>0, <1>1, <1>4, SetLockedEffect
<1>5. CASE SetAccount BY <1>0, <1>1, <1>5, SetAccountEffect
<1>6. ASSUME NEW b \in Bulk, SetBulk(b) PROVE SessionStep
  <2>1. "session" \notin {b} BY BulkAssumption
  <2> QED BY <1>0, <1>1, <1>6, <2>1, SetBulkEffect
<1> QED BY <1>2, <1>3, <1>4, <1>5, <1>6 DEF Setter

LEMMA NextSession ==
    SessionInv /\ [Next]_vars =>
        SessionInv' /\ DurableSession' \in chosen' \cup {DurableSession} \cup Allowed
<1> SUFFICES ASSUME SessionInv, [Next]_vars PROVE SessionStep
  BY NextBulk DEF SessionInv, SessionStep
<1>1. CASE WorkerKilled
  <2>1. /\ UNCHANGED <<record, vault, adopted, chosen>> /\ hyd'.pc = "record"
        /\ write'.pc = "idle" /\ ~adopting' /\ dirty'.trusted = {} /\ DOMAIN last'.trusted = {}
    BY <1>1, IdleHolds DEF WorkerKilled, disk, NothingDirty, NothingLast, HydrationStart
  <2>2. Taking' /\ InFlight' /\ SessionFits'
    BY <2>1 DEF Taking, Queued, InFlight, SessionFits, Pending
  <2> QED BY <2>1, <2>2, SameDurable DEF SessionStep
<1>2. CASE UNCHANGED vars
  <2>1. UNCHANGED <<mem, hyd, record, vault, adopted, adopting, last, write, dirty, chosen, blind>>
    BY <1>2 DEF vars, disk, persister, ghosts
  <2>2. Taking' BY <2>1 DEF SessionInv, Taking, Queued
  <2>3. InFlight' BY <2>1 DEF SessionInv, InFlight
  <2>4. SessionFits' BY <2>1, SameDurable DEF SessionInv, SessionFits, Pending, Fit, Allowed
  <2> QED BY <2>1, <2>2, <2>3, <2>4, SameDurable DEF SessionStep
<1> QED BY <1>1, <1>2, WriterSession, HydrationSession, SetterSession DEF Next

(* The durable session changes only to one that a login or a logout chose, or *)
(* to the empty default while this start is one that could not read the       *)
(* record: a later start that reads it is again bound to what was chosen.     *)
THEOREM SessionStands == Spec => SessionChosen
<1>1. SessionInv /\ [Next]_vars =>
        [DurableSession' \in chosen' \cup {DurableSession} \cup IF blind THEN {NoWallet} ELSE {}]_vars
  BY NextSession DEF Allowed
<1> QED BY <1>1, InitSession, NextSession, PTL DEF Spec, SessionChosen

-----------------------------------------------------------------------------
(* The values of an old record.  While one of them is still to be kept no     *)
(* setter has run that replaces it, so there has been one session only.  In a *)
(* start that read the record the value is in the cache, or in what the worker *)
(* carries and will put into any record it writes, as it is on its way from    *)
(* one to the other.  A start that could not read it has nothing of the value: *)
(* it stays in the record of its session, or it is in the cache only.          *)
Mirror == \A b \in DOMAIN last.bulk : b \in DOMAIN cache /\ cache[b] = last.bulk[b]
Full(r, b) == b \in DOMAIN r.inline => r.inline[b].ver >= 1
Held(g, b) == b \in g.inline => b \in DOMAIN g.held /\ g.held[b].ver >= 1
Lands(b, w, d) == b \in d.bulk \/ b \in DOMAIN w.bulk \/ b \in w.failedBulk
Quiet == chosen = {} /\ ~bg /\ "session" \notin hyd.touched /\ hyd.touched \cap Bulk = {}
DiskSession ==
    /\ record # NoRecord
    /\ "session" \in DOMAIN vault => vault["session"] = record.session
    /\ adopted => "session" \in DOMAIN vault
OneSession ==
    /\ Quiet /\ DiskSession
    /\ hyd.pc # "record" => mem.session = record.session
    /\ hyd.pc = "bulk" => hyd.stored # NoRecord /\ hyd.stored.session = mem.session
Kept(b) ==
    /\ Full(record, b)
    /\ hyd.pc = "bulk" => Full(hyd.stored, b)
    /\ write.pc = "compact" => Full(write.view, b) /\ (Moved(b) \/ b \in DOMAIN write.view.inline)
    /\ Held(legacy, b)
    /\ b \in legacy.inline => legacy.scope = mem.session
    /\ Lands(b, write, dirty) => hyd.pc = "done" /\ mem.bulk[b].ver >= 1
    /\ b \in DOMAIN write.bulk => write.bulk[b].val.ver >= 1
    /\ Moved(b) \/ b \in DOMAIN record.inline
    /\ hyd.pc # "record" => Moved(b) \/ b \in legacy.inline
Carried(b) == ~blind /\ OneSession /\ Kept(b)
Apart(b) ==
    /\ b \notin legacy.inline /\ ~Lands(b, write, dirty)
    /\ hyd.pc = "bulk" => hyd.stored = NoRecord \/ b \notin DOMAIN hyd.stored.inline
    /\ write.pc = "compact" => b \notin DOMAIN write.view.inline
Left(b) ==
    /\ blind /\ hyd.pc # "record" /\ Quiet /\ DiskSession /\ Apart(b)
    /\ b \in DOMAIN record.inline /\ record.inline[b].ver >= 1
Cached(b) == Quiet /\ Moved(b) /\ b \notin DOMAIN Inline /\ Apart(b)
KeptInv ==
    /\ SessionInv /\ Mirror
    /\ \A b \in Bulk : fate[b] = "kept" => Carried(b) \/ Left(b) \/ Cached(b)

LEMMA InitKept == Init => KeptInv
<1> SUFFICES ASSUME Init PROVE KeptInv OBVIOUS
<1>1. /\ write.pc = "idle" /\ DOMAIN write.bulk = {} /\ write.failedBulk = {} /\ dirty.bulk = {}
      /\ hyd.pc = "record" /\ hyd.touched = {} /\ legacy.inline = {} /\ DOMAIN last.bulk = {}
      /\ chosen = {} /\ ~bg /\ ~blind
  BY IdleHolds DEF Init, NothingDirty, NothingLast, NothingLegacy, HydrationStart
<1>2. ASSUME NEW b \in Bulk, fate[b] = "kept" PROVE OneSession /\ Kept(b)
  <2>1. /\ b \in DOMAIN Inline
        /\ ~(adopted /\ vault["session"] # record.session)
    BY <1>2 DEF Init
  <2>2. record # NoRecord /\ b \in DOMAIN record.inline BY <2>1 DEF Inline
  <2>3. PICK s \in Wallets, t \in Wallets :
          \/ record = NoRecord
          \/ record = OldRecord(s) /\ vault = <<>> /\ adopted = FALSE
          \/ record = NewRecord(s)
          \/ record = OldRecord(s) /\ vault = KnownTo(t) /\ adopted = TRUE
    BY DEF Init
  <2>4. record # NewRecord(s) BY <2>2 DEF NewRecord
  <2>5. record.inline[b].ver >= 1 BY <2>2, <2>3, <2>4, <1>2 DEF OldRecord, Stored
  <2>6. /\ "session" \in DOMAIN vault => vault["session"] = record.session
        /\ adopted => "session" \in DOMAIN vault
    <3>1. "session" \in DOMAIN KnownTo(t) BY DEF KnownTo, Trusted
    <3>2. CASE adopted = FALSE /\ vault = <<>> BY <3>2
    <3>3. CASE vault = KnownTo(t) /\ adopted = TRUE
      <4>1. vault["session"] = record.session BY <2>1, <3>3
      <4> QED BY <3>1, <3>3, <4>1
    <3> QED BY <2>2, <2>3, <2>4, <3>2, <3>3
  <2>7. OneSession BY <1>1, <2>2, <2>6 DEF OneSession, Quiet, DiskSession
  <2>8. Kept(b) BY <1>1, <2>2, <2>5 DEF Kept, Full, Held, Lands
  <2> QED BY <2>7, <2>8
<1> QED BY <1>1, <1>2, InitSession DEF KeptInv, Mirror, Carried

(* No stage of the writer takes up a field that was not waiting, and a record *)
(* it makes carries the values that are still held.                           *)
LEMMA SettledKept ==
    ASSUME NEW b, NEW w, NEW m \in Memory, NEW g \in Moves, NEW d, NEW x, NEW e,
           Settles(w, m, g, d, x, e), Held(g, b)
    PROVE  /\ Lands(b, x, e) => Lands(b, w, d)
           /\ b \in DOMAIN x.bulk => b \in DOMAIN w.bulk /\ x.bulk[b] = w.bulk[b]
           /\ x.pc = "compact" => Full(x.view, b) /\ (b \in DOMAIN x.view.inline <=> b \in g.inline)
<1>1. CASE Ended(w, d, x, e) BY <1>1, IdleHolds DEF Ended, Lands
<1>2. CASE Compacting(w, m, g, d, x, e)
  <2>1. /\ e = d /\ x.bulk = w.bulk /\ x.failedBulk = w.failedBulk /\ x.view = CompactView(m, g)
    BY <1>2 DEF Compacting, Carries
  <2>2. Full(x.view, b) /\ (b \in DOMAIN x.view.inline <=> b \in g.inline)
    BY <2>1, ViewTyped DEF Full, Held
  <2> QED BY <2>1, <2>2 DEF Lands
<1> QED BY <1>1, <1>2 DEF Settles

LEMMA StagedKept ==
    ASSUME NEW b, NEW w, NEW m \in Memory, NEW g \in Moves, NEW d, NEW k, NEW x, NEW e,
           Staged(w, m, g, d, k, x, e), Held(g, b)
    PROVE  /\ Lands(b, x, e) => Lands(b, w, d)
           /\ b \in DOMAIN x.bulk => b \in DOMAIN w.bulk /\ x.bulk[b] = w.bulk[b]
           /\ x.pc = "compact" => Full(x.view, b) /\ (b \in DOMAIN x.view.inline <=> b \in g.inline)
<1>1. CASE Settles(w, m, g, d, x, e) BY <1>1, SettledKept
<1>2. CASE Trusting(w, m, d, x, e) BY <1>2 DEF Trusting, Carries, Lands
<1> QED BY <1>1, <1>2 DEF Staged

LEMMA BegunKept ==
    ASSUME NEW b \in Bulk, NEW m \in Memory, NEW d, NEW g, NEW k, Begun(m, d, g, k),
           Held(g, b), b \in g.inline => m.session = g.scope, DOMAIN g.held \subseteq g.inline,
           b \in d.bulk => m.bulk[b].ver >= 1, Moved(b) \/ b \in g.inline,
           b \in DOMAIN k.bulk => b \in DOMAIN cache /\ cache[b] = k.bulk[b]
    PROVE  /\ Held(legacy', b) /\ legacy'.scope = g.scope /\ legacy'.inline \subseteq g.inline
           /\ Moved(b) \/ b \in legacy'.inline
           /\ Lands(b, write', dirty') => b \in d.bulk
           /\ b \in DOMAIN write'.bulk => write'.bulk[b].val.ver >= 1
           /\ write'.pc = "compact" =>
                Full(write'.view, b) /\ (Moved(b) \/ b \in DOMAIN write'.view.inline)
<1>1. legacy' \in Moves /\ Narrows(g, legacy') BY DEF Begun
<1>2. Held(legacy', b) /\ legacy'.scope = g.scope /\ legacy'.inline \subseteq g.inline
  BY <1>1 DEF Narrows, Held
<1>3. Moved(b) \/ b \in legacy'.inline
  <2>1. SUFFICES ASSUME b \in g.inline \ legacy'.inline PROVE Moved(b) OBVIOUS
  <2>2. Current(b, m, g, k) BY <2>1 DEF Begun
  <2> QED BY <2>1, <2>2 DEF Current, Held, Moved
<1>4. CASE BulkStarts(m, d, g)
  <2>1. /\ dirty'.bulk = {} /\ write'.pc = "bulk" /\ write'.failedBulk = {}
        /\ b \in DOMAIN write'.bulk =>
             /\ b \in d.bulk
             /\ \/ write'.bulk[b].val = m.bulk[b]
                \/ b \in DOMAIN g.held /\ write'.bulk[b].val = g.held[b]
    BY <1>4 DEF BulkStarts, NothingDirty
  <2> QED BY <1>2, <1>3, <2>1 DEF Lands, Held
<1>5. CASE LaterStarts(m, d, k)
  <2>1. PICK w \in Writes : /\ DOMAIN w.bulk = {} /\ w.failedBulk = {}
                            /\ Staged(w, m, legacy', NothingDirty, k, write', dirty')
    BY <1>5 DEF LaterStarts
  <2>2. /\ Lands(b, write', dirty') => Lands(b, w, NothingDirty)
        /\ b \in DOMAIN write'.bulk => b \in DOMAIN w.bulk
        /\ write'.pc = "compact" =>
             Full(write'.view, b) /\ (b \in DOMAIN write'.view.inline <=> b \in legacy'.inline)
    BY <1>1, <1>2, <2>1, StagedKept
  <2> QED BY <1>2, <1>3, <2>1, <2>2 DEF Lands, NothingDirty
<1> QED BY <1>4, <1>5 DEF Begun

KeptStep ==
    Mirror' /\ \A b \in Bulk : fate'[b] = "kept" /\ ~blind' /\ Carried(b) => OneSession' /\ Kept(b)'

(* A step of the writer that leaves the three places alone, or moves a value  *)
(* from one to the next.                                                      *)
LEMMA CarriedKept ==
    ASSUME NEW b, Kept(b), UNCHANGED <<mem, hyd>>,
           Full(record', b), Moved(b)' \/ b \in DOMAIN record'.inline,
           Held(legacy', b), b \in legacy'.inline => legacy'.scope = mem.session,
           hyd.pc # "record" => Moved(b)' \/ b \in legacy'.inline,
           Lands(b, write', dirty') => Lands(b, write, dirty),
           b \in DOMAIN write'.bulk => write'.bulk[b].val.ver >= 1,
           write'.pc = "compact" =>
             Full(write'.view, b) /\ (Moved(b)' \/ b \in DOMAIN write'.view.inline)
    PROVE  Kept(b)'
<1>1. /\ hyd.pc = "bulk" => Full(hyd.stored, b)
      /\ Lands(b, write, dirty) => hyd.pc = "done" /\ mem.bulk[b].ver >= 1
  BY DEF Kept
<1>2. hyd'.pc = "bulk" => Full(hyd'.stored, b) BY <1>1
<1>3. Lands(b, write', dirty') => hyd'.pc = "done" /\ mem'.bulk[b].ver >= 1 BY <1>1
<1> HIDE DEF Full, Held, Lands, Moved
<1> QED BY <1>2, <1>3 DEF Kept

LEMMA WriterKept == ASSUME KeptInv, Writer PROVE KeptStep
<1> USE DEF KeptInv
<1>0. /\ TypeOK /\ mem \in Memory /\ legacy \in Moves /\ DOMAIN legacy.held \subseteq legacy.inline
      /\ dirty \in Marks /\ write \in Writes
      /\ hyd.pc = "record" => write = IdleWrite
  BY DEF SessionInv, BulkInv, TypeOK, Reading
<1>00. UNCHANGED <<mem, bg, hyd, chosen, blind>>
  BY <1>0, FlushEffect, BulkWrittenEffect, BulkFailedEffect, VaultWrittenEffect, VaultFailedEffect,
     RecordWrittenEffect, RecordFailedEffect DEF Writer, ghosts
<1>1. CASE Flush
  <2>1. /\ hyd.pc # "record" /\ write.pc = "idle" /\ UNCHANGED <<record, cache, vault, adopted, last>>
        /\ \/ UNCHANGED <<dirty, legacy, write>>
           \/ Begun(mem, dirty, legacy, last)
    BY <1>0, <1>1, FlushEffect DEF disk
  <2>2. Mirror' BY <2>1 DEF Mirror
  <2>3. ASSUME NEW b \in Bulk, Carried(b) PROVE OneSession' /\ Kept(b)'
    <3>1. OneSession /\ Kept(b) BY <2>3 DEF Carried
    <3>2. OneSession' BY <1>00, <2>1, <3>1 DEF OneSession, Quiet, DiskSession
    <3>3. CASE UNCHANGED <<dirty, legacy, write>>
      <4>1. UNCHANGED <<record, cache, legacy, write, dirty, hyd, mem>> BY <1>00, <2>1, <3>3
      <4>2. Kept(b) BY <3>1
      <4>3. Kept(b)' BY ONLY <4>1, <4>2 DEF Kept, Moved, Full, Held, Lands
      <4> QED BY <3>2, <4>3
    <3>4. CASE Begun(mem, dirty, legacy, last)
      <4>1. /\ Held(legacy, b) /\ (b \in legacy.inline => mem.session = legacy.scope)
            /\ b \in dirty.bulk => mem.bulk[b].ver >= 1
            /\ Moved(b) \/ b \in legacy.inline
            /\ Full(record, b) /\ (Moved(b) \/ b \in DOMAIN record.inline)
        BY <2>1, <3>1 DEF Kept, Lands
      <4>2. b \in DOMAIN last.bulk => b \in DOMAIN cache /\ cache[b] = last.bulk[b] BY DEF Mirror
      <4>3. /\ Held(legacy', b) /\ legacy'.scope = legacy.scope /\ legacy'.inline \subseteq legacy.inline
            /\ Moved(b) \/ b \in legacy'.inline
            /\ Lands(b, write', dirty') => b \in dirty.bulk
            /\ b \in DOMAIN write'.bulk => write'.bulk[b].val.ver >= 1
            /\ write'.pc = "compact" =>
                 Full(write'.view, b) /\ (Moved(b) \/ b \in DOMAIN write'.view.inline)
        BY <1>0, <3>4, <4>1, <4>2, BegunKept
      <4>4. Moved(b) => Moved(b)' BY <2>1 DEF Moved
      <4>5. Lands(b, write', dirty') => Lands(b, write, dirty) BY <4>3 DEF Lands
      <4>6. Full(record', b) /\ (Moved(b)' \/ b \in DOMAIN record'.inline) BY <2>1, <4>1, <4>4
      <4>7. /\ b \in legacy'.inline => legacy'.scope = mem.session
            /\ Moved(b)' \/ b \in legacy'.inline
        BY <4>1, <4>3, <4>4
      <4>8. Kept(b)' BY <1>00, <3>1, <4>3, <4>4, <4>5, <4>6, <4>7, CarriedKept
      <4> QED BY <3>2, <4>8
    <3> QED BY <2>1, <3>2, <3>3, <3>4
  <2> QED BY <1>00, <2>2, <2>3 DEF KeptStep
<1>2. CASE BulkWritten
  <2>1. /\ write.pc = "bulk" /\ cache' = Over(write.bulk, cache)
        /\ last'.bulk = Over(write.bulk, last.bulk)
        /\ legacy' = Drop(legacy, DOMAIN write.bulk)
        /\ UNCHANGED <<record, vault, adopted>>
    BY <1>0, <1>2, BulkWrittenEffect
  <2>2. PICK w \in Writes : /\ Carries(write, w)
                            /\ Staged(w, mem, legacy', dirty, last, write', dirty')
    BY <1>0, <1>2, BulkWrittenEffect
  <2>3. Mirror' BY <2>1 DEF Mirror, Over
  <2>4. /\ legacy' \in Moves /\ Narrows(legacy, legacy')
        /\ legacy'.inline = legacy.inline \ DOMAIN write.bulk
    BY <1>0, <2>1, DropFields
  <2>5. ASSUME NEW b \in Bulk, Carried(b) PROVE OneSession' /\ Kept(b)'
    <3>1. OneSession /\ Kept(b) BY <2>5 DEF Carried
    <3>2. OneSession' BY <1>00, <2>1, <3>1 DEF OneSession, Quiet, DiskSession
    <3>3. /\ Held(legacy, b) /\ (b \in legacy.inline => legacy.scope = mem.session)
          /\ b \in DOMAIN write.bulk => write.bulk[b].val.ver >= 1
          /\ Moved(b) \/ b \in legacy.inline
          /\ Full(record, b) /\ (Moved(b) \/ b \in DOMAIN record.inline)
      BY <1>0, <2>1, <3>1, IdleHolds DEF Kept
    <3>4. (Moved(b) \/ b \in DOMAIN write.bulk) => Moved(b)' BY <2>1, <3>3 DEF Moved, Over
    <3>5. /\ Held(legacy', b) /\ (b \in legacy'.inline => legacy'.scope = mem.session)
      BY <2>4, <3>3 DEF Narrows, Held
    <3>6. Moved(b)' \/ b \in legacy'.inline BY <2>4, <3>3, <3>4
    <3>7. /\ Lands(b, write', dirty') => Lands(b, w, dirty)
          /\ b \in DOMAIN write'.bulk => b \in DOMAIN w.bulk /\ write'.bulk[b] = w.bulk[b]
          /\ write'.pc = "compact" =>
               Full(write'.view, b) /\ (b \in DOMAIN write'.view.inline <=> b \in legacy'.inline)
      BY <1>0, <2>2, <2>4, <3>5, StagedKept
    <3>8. /\ Lands(b, write', dirty') => Lands(b, write, dirty)
          /\ b \in DOMAIN write'.bulk => write'.bulk[b].val.ver >= 1
      BY <2>2, <3>3, <3>7 DEF Carries, Lands
    <3>9. Full(record', b) /\ (Moved(b)' \/ b \in DOMAIN record'.inline) BY <2>1, <3>3, <3>4
    <3> QED BY <1>00, <3>1, <3>2, <3>5, <3>6, <3>7, <3>8, <3>9, CarriedKept
  <2> QED BY <1>00, <2>3, <2>5 DEF KeptStep
(* The rest leaves the cache, and what is held inline, alone. *)
<1>3. ASSUME UNCHANGED <<cache, legacy>>, last'.bulk = last.bulk, OneSession => OneSession',
             ASSUME NEW b \in Bulk, OneSession, Kept(b)
             PROVE  /\ Full(record', b) /\ (Moved(b) \/ b \in DOMAIN record'.inline)
                    /\ hyd.pc # "record"
                    /\ Lands(b, write', dirty') => Lands(b, write, dirty)
                    /\ b \in DOMAIN write'.bulk => b \in DOMAIN write.bulk /\ write'.bulk[b] = write.bulk[b]
                    /\ write'.pc = "compact" =>
                         /\ Full(write'.view, b)
                         /\ b \in DOMAIN write'.view.inline <=> b \in legacy.inline
      PROVE  KeptStep
  <2>1. Mirror' BY <1>3 DEF Mirror
  <2>2. ASSUME NEW b \in Bulk, Carried(b) PROVE OneSession' /\ Kept(b)'
    <3>1. OneSession /\ Kept(b) BY <2>2 DEF Carried
    <3>2. Moved(b)' = Moved(b) BY <1>3 DEF Moved
    <3>3. /\ Held(legacy, b) /\ (b \in legacy.inline => legacy.scope = mem.session)
          /\ b \in DOMAIN write.bulk => write.bulk[b].val.ver >= 1
          /\ hyd.pc # "record" => Moved(b) \/ b \in legacy.inline
      BY <3>1 DEF Kept
    <3>4. /\ Full(record', b) /\ (Moved(b) \/ b \in DOMAIN record'.inline)
          /\ hyd.pc # "record"
          /\ Lands(b, write', dirty') => Lands(b, write, dirty)
          /\ b \in DOMAIN write'.bulk => b \in DOMAIN write.bulk /\ write'.bulk[b] = write.bulk[b]
          /\ write'.pc = "compact" =>
               /\ Full(write'.view, b)
               /\ b \in DOMAIN write'.view.inline <=> b \in legacy.inline
      BY <1>3, <3>1
    <3>5. Kept(b)' BY <1>00, <1>3, <3>1, <3>2, <3>3, <3>4, CarriedKept
    <3> QED BY <1>3, <3>1, <3>5
  <2> QED BY <1>00, <2>1, <2>2 DEF KeptStep
<1>4. CASE BulkFailed
  <2>1. write.pc = "bulk" /\ UNCHANGED <<record, cache, vault, adopted, last, legacy>>
    BY <1>0, <1>4, BulkFailedEffect DEF disk
  <2>2. PICK w \in Writes : /\ w.bulk = write.bulk /\ w.failedBulk = DOMAIN write.bulk
                            /\ Staged(w, mem, legacy, dirty, last, write', dirty')
    BY <1>0, <1>4, BulkFailedEffect
  <2>3. OneSession => OneSession' BY <1>00, <2>1 DEF OneSession, Quiet, DiskSession
  <2>4. ASSUME NEW b \in Bulk, Kept(b)
        PROVE  /\ Full(record', b) /\ (Moved(b) \/ b \in DOMAIN record'.inline)
               /\ hyd.pc # "record"
               /\ Lands(b, write', dirty') => Lands(b, write, dirty)
               /\ b \in DOMAIN write'.bulk => b \in DOMAIN write.bulk /\ write'.bulk[b] = write.bulk[b]
               /\ write'.pc = "compact" =>
                    /\ Full(write'.view, b)
                    /\ b \in DOMAIN write'.view.inline <=> b \in legacy.inline
    <3>1. Held(legacy, b) /\ Full(record, b) /\ (Moved(b) \/ b \in DOMAIN record.inline)
      BY <2>4 DEF Kept
    <3>2. /\ Lands(b, write', dirty') => Lands(b, w, dirty)
          /\ b \in DOMAIN write'.bulk => b \in DOMAIN w.bulk /\ write'.bulk[b] = w.bulk[b]
          /\ write'.pc = "compact" =>
               Full(write'.view, b) /\ (b \in DOMAIN write'.view.inline <=> b \in legacy.inline)
      BY <1>0, <2>2, <3>1, StagedKept
    <3>3. Lands(b, w, dirty) => Lands(b, write, dirty) BY <2>2 DEF Lands
    <3>4. hyd.pc # "record" BY <1>0, <2>1, IdleHolds
    <3> QED BY <2>1, <2>2, <3>1, <3>2, <3>3, <3>4
  <2> QED BY <1>3, <2>1, <2>3, <2>4
(* The last two stages: a result of the private store, a result of the record. *)
<1>5. ASSUME UNCHANGED record, write.pc # "idle", NEW w, w.bulk = write.bulk, w.failedBulk = write.failedBulk,
             Settles(w, mem, legacy, dirty, write', dirty'), NEW b \in Bulk, Kept(b)
      PROVE  /\ Full(record', b) /\ (Moved(b) \/ b \in DOMAIN record'.inline)
             /\ hyd.pc # "record"
             /\ Lands(b, write', dirty') => Lands(b, write, dirty)
             /\ b \in DOMAIN write'.bulk => b \in DOMAIN write.bulk /\ write'.bulk[b] = write.bulk[b]
             /\ write'.pc = "compact" =>
                  /\ Full(write'.view, b)
                  /\ b \in DOMAIN write'.view.inline <=> b \in legacy.inline
  <2>1. Held(legacy, b) /\ Full(record, b) /\ (Moved(b) \/ b \in DOMAIN record.inline)
    BY <1>5 DEF Kept
  <2>2. /\ Lands(b, write', dirty') => Lands(b, w, dirty)
        /\ b \in DOMAIN write'.bulk => b \in DOMAIN w.bulk /\ write'.bulk[b] = w.bulk[b]
        /\ write'.pc = "compact" =>
             Full(write'.view, b) /\ (b \in DOMAIN write'.view.inline <=> b \in legacy.inline)
    BY <1>0, <1>5, <2>1, SettledKept
  <2>3. Lands(b, w, dirty) => Lands(b, write, dirty) BY <1>5 DEF Lands
  <2>4. hyd.pc # "record" BY <1>0, <1>5, IdleHolds
  <2> QED BY <1>5, <2>1, <2>2, <2>3, <2>4
<1>6. CASE VaultWritten
  <2>1. /\ write.pc = "trusted" /\ vault' = Over(write.trusted, vault)
        /\ adopted' = (adopted \/ write.adopting) /\ last'.bulk = last.bulk
        /\ UNCHANGED <<record, cache, legacy>>
        /\ Settles(write, mem, legacy, dirty, write', dirty')
    BY <1>0, <1>6, VaultWrittenEffect
  <2>2. OneSession => OneSession'
    <3>1. SUFFICES ASSUME OneSession PROVE OneSession' OBVIOUS
    <3>2. mem.session = record.session BY <1>0, <2>1, <3>1, IdleHolds DEF OneSession, Quiet, DiskSession
    <3>3. /\ write.trusted \in VaultOf /\ vault \in VaultOf BY <1>0 DEF TypeOK, Writes
    <3>4. /\ DOMAIN vault' = DOMAIN write.trusted \cup DOMAIN vault
          /\ "session" \in DOMAIN vault' =>
               vault'["session"] = IF "session" \in DOMAIN write.trusted THEN write.trusted["session"]
                                   ELSE vault["session"]
      BY <2>1, <3>3, OverVault
    <3>5. "session" \in DOMAIN write.trusted => write.trusted["session"] = mem.session
      BY <2>1, <3>1 DEF SessionInv, InFlight, OneSession, Quiet, DiskSession
    <3>6. adopted' => "session" \in DOMAIN vault'
      <4>1. write.adopting => "session" \in DOMAIN vault \/ "session" \in DOMAIN write.trusted
        BY <2>1 DEF SessionInv, Taking, Queued
      <4> QED BY <2>1, <3>1, <3>4, <4>1 DEF OneSession, Quiet, DiskSession
    <3> QED BY <1>00, <2>1, <3>1, <3>2, <3>4, <3>5, <3>6 DEF OneSession, Quiet, DiskSession
  <2> QED BY <1>3, <1>5, <2>1, <2>2
<1>7. CASE VaultFailed
  <2>1. write.pc = "trusted" /\ UNCHANGED <<record, cache, vault, adopted, last, legacy>>
    BY <1>0, <1>7, VaultFailedEffect DEF disk
  <2>2. PICK w \in Writes : /\ w.bulk = write.bulk /\ w.failedBulk = write.failedBulk
                            /\ Settles(w, mem, legacy, dirty, write', dirty')
    BY <1>0, <1>7, VaultFailedEffect
  <2>3. OneSession => OneSession' BY <1>00, <2>1 DEF OneSession, Quiet, DiskSession
  <2> QED BY <1>3, <1>5, <2>1, <2>2, <2>3
<1>8. CASE RecordWritten
  <2>1. /\ write.pc = "compact" /\ record' = write.view /\ last'.bulk = last.bulk
        /\ UNCHANGED <<cache, vault, adopted, legacy>> /\ Ended(write, dirty, write', dirty')
    BY <1>0, <1>8, RecordWrittenEffect
  <2>2. OneSession => OneSession'
    <3>1. SUFFICES ASSUME OneSession PROVE OneSession' OBVIOUS
    <3>2. mem.session = record.session BY <1>0, <2>1, <3>1, IdleHolds DEF OneSession, Quiet, DiskSession
    <3>3. record'.session = mem.session BY <2>1, <3>1 DEF SessionInv, InFlight, OneSession, Quiet, DiskSession
    <3>4. record' # NoRecord BY <1>0, <2>1, RecordAssumption DEF TypeOK
    <3> QED BY <1>00, <2>1, <3>1, <3>2, <3>3, <3>4 DEF OneSession, Quiet, DiskSession
  <2>3. ASSUME NEW b \in Bulk, Kept(b)
        PROVE  /\ Full(record', b) /\ (Moved(b) \/ b \in DOMAIN record'.inline)
               /\ Lands(b, write', dirty') => Lands(b, write, dirty)
    <3>1. Full(write.view, b) /\ (Moved(b) \/ b \in DOMAIN write.view.inline) BY <2>1, <2>3 DEF Kept
    <3>2. Lands(b, write', dirty') => Lands(b, write, dirty) BY <2>1, IdleHolds DEF Ended, Lands
    <3> QED BY <2>1, <3>1, <3>2
  <2>4. hyd.pc # "record" /\ DOMAIN write'.bulk = {} /\ write'.pc = "idle"
    BY <1>0, <2>1, IdleHolds DEF Ended
  <2> QED BY <1>3, <2>1, <2>2, <2>3, <2>4
<1>9. CASE RecordFailed
  <2>1. /\ write.pc = "compact" /\ UNCHANGED <<record, cache, vault, adopted, last, legacy>>
        /\ Ended(write, dirty, write', dirty')
    BY <1>0, <1>9, RecordFailedEffect DEF disk
  <2>2. OneSession => OneSession' BY <1>00, <2>1 DEF OneSession, Quiet, DiskSession
  <2>3. ASSUME NEW b \in Bulk, Kept(b)
        PROVE  /\ Full(record', b) /\ (Moved(b) \/ b \in DOMAIN record'.inline)
               /\ Lands(b, write', dirty') => Lands(b, write, dirty)
    <3>1. Full(record, b) /\ (Moved(b) \/ b \in DOMAIN record.inline) BY <2>3 DEF Kept
    <3>2. Lands(b, write', dirty') => Lands(b, write, dirty) BY <2>1, IdleHolds DEF Ended, Lands
    <3> QED BY <2>1, <3>1, <3>2
  <2>4. hyd.pc # "record" /\ DOMAIN write'.bulk = {} /\ write'.pc = "idle"
    BY <1>0, <2>1, IdleHolds DEF Ended
  <2> QED BY <1>3, <2>1, <2>2, <2>3, <2>4
<1> QED BY <1>1, <1>2, <1>4, <1>6, <1>7, <1>8, <1>9 DEF Writer

LEMMA HydrationKept == ASSUME KeptInv, Hydration PROVE KeptStep
<1> USE DEF KeptInv
<1>0. TypeOK /\ legacy \in Moves /\ DOMAIN legacy.held \subseteq legacy.inline
  BY DEF SessionInv, BulkInv, TypeOK
<1>1. CASE HydrateRecord
  <2>1. /\ hyd.pc = "record" /\ UNCHANGED <<bg, record, cache, vault, adopted, write, fate, chosen>>
    BY <1>0, <1>1, HydrateRecordEffect DEF disk
  <2>2. PICK stored, known, taken, takeOver : RecordRead(stored, known, taken, takeOver)
    BY <1>0, <1>1, HydrateRecordEffect
  <2>3. Mirror' BY <2>1, <2>2 DEF Mirror, RecordRead
  <2>4. /\ write.pc = "idle" /\ DOMAIN write.bulk = {} /\ write.failedBulk = {}
        /\ legacy.inline = {} /\ dirty.bulk \subseteq hyd.touched
    BY <2>1, IdleHolds DEF SessionInv, BulkInv, Reading
  <2>5. /\ stored = IF blind' THEN NoRecord ELSE record
        /\ \/ known = vault /\ taken = adopted
           \/ known = <<>> /\ taken = FALSE
        /\ mem'.session =
             IF "session" \in hyd.touched THEN mem.session
             ELSE IF "session" \in DOMAIN known THEN known["session"]
             ELSE IF stored # NoRecord /\ ~taken THEN stored.session ELSE mem.session
        /\ dirty'.bulk = dirty.bulk
        /\ hyd'.pc = "bulk" /\ hyd'.touched = hyd.touched /\ hyd'.stored = stored
        /\ \/ /\ legacy' = legacy
              /\ stored # NoRecord => stored.inline = <<>> \/ stored.session # mem'.session
           \/ /\ legacy'.scope = stored.session /\ stored.session = mem'.session
              /\ legacy'.inline = DOMAIN stored.inline
              /\ DOMAIN legacy'.held = DOMAIN stored.inline \ hyd.touched
              /\ \A b \in DOMAIN legacy'.held : legacy'.held[b] = stored.inline[b]
    BY <2>2 DEF RecordRead
  <2>6. ASSUME NEW b \in Bulk, Carried(b), ~blind' PROVE OneSession' /\ Kept(b)'
    <3>1. OneSession /\ Kept(b) /\ stored = record BY <2>5, <2>6 DEF Carried
    <3>2. mem'.session = record.session /\ record # NoRecord
      BY <2>5, <3>1 DEF OneSession, Quiet, DiskSession
    <3>3. OneSession' BY <2>1, <2>5, <3>1, <3>2 DEF OneSession, Quiet, DiskSession
    <3>4. /\ Full(record, b) /\ b \notin hyd.touched /\ b \notin dirty.bulk
          /\ Moved(b) \/ b \in DOMAIN record.inline
      BY <2>4, <3>1 DEF Kept, OneSession, Quiet, DiskSession
    <3>5. /\ Held(legacy', b) /\ (b \in legacy'.inline => legacy'.scope = mem'.session)
          /\ Moved(b) \/ b \in legacy'.inline
      BY <2>4, <2>5, <3>1, <3>2, <3>4 DEF Held, Full
    <3>6. Moved(b) => Moved(b)' BY <2>1 DEF Moved
    <3>7. Full(record', b) /\ Full(hyd'.stored, b) /\ (Moved(b)' \/ b \in DOMAIN record'.inline)
      BY <2>1, <2>5, <3>1, <3>4, <3>6
    <3>8. ~Lands(b, write', dirty') /\ write'.pc = "idle" /\ b \notin DOMAIN write'.bulk
      BY <2>1, <2>4, <2>5, <3>4 DEF Lands
    <3>9. Moved(b)' \/ b \in legacy'.inline BY <3>5, <3>6
    <3>10. Kept(b)'
      <4> HIDE DEF Full, Held, Lands, Moved
      <4> QED BY <3>5, <3>7, <3>8, <3>9 DEF Kept
    <3> QED BY <3>3, <3>10
  <2> QED BY <2>1, <2>3, <2>6 DEF KeptStep
<1>2. CASE HydrateBulk
  <2>1. /\ hyd.pc = "bulk" /\ UNCHANGED <<bg, record, cache, vault, adopted, fate, chosen, blind>>
        /\ BulkRead
        /\ \/ UNCHANGED <<dirty, legacy, write>> /\ Usable = {} /\ Unusable = {}
           \/ \E d, g : /\ Resumed(d, g)
                        /\ \/ write.pc = "idle" /\ Begun(mem', d, g, last')
                           \/ dirty' = d /\ legacy' = g /\ UNCHANGED write
    BY <1>0, <1>2, HydrateBulkEffect DEF disk, ghosts
  <2>2. /\ mem' \in Memory /\ mem'.session = mem.session
        /\ hyd'.pc = "done" /\ hyd'.touched = {}
        /\ \A b \in Bulk : b \in Usable \ hyd.touched => mem'.bulk[b] = hyd.stored.inline[b]
        /\ \A b \in DOMAIN last'.bulk : \/ b \in DOMAIN cache /\ last'.bulk[b] = cache[b]
                                        \/ b \in DOMAIN last.bulk /\ last'.bulk[b] = last.bulk[b]
    BY <2>1 DEF BulkRead
  <2>3. Mirror' BY <2>1, <2>2 DEF Mirror
  <2>4. ASSUME NEW b \in Bulk, Carried(b) PROVE OneSession' /\ Kept(b)'
    <3>1. OneSession /\ Kept(b) BY <2>4 DEF Carried
    <3>2. OneSession' BY <2>1, <2>2, <3>1 DEF OneSession, Quiet, DiskSession
    <3>3. /\ Full(record, b) /\ b \notin hyd.touched /\ Full(hyd.stored, b)
          /\ Moved(b) \/ b \in DOMAIN record.inline
          /\ Moved(b) \/ b \in legacy.inline
          /\ Held(legacy, b) /\ (b \in legacy.inline => legacy.scope = mem.session)
          /\ ~Lands(b, write, dirty)
          /\ write.pc = "compact" => Full(write.view, b) /\ (Moved(b) \/ b \in DOMAIN write.view.inline)
      BY <2>1, <3>1 DEF Kept, OneSession, Quiet, DiskSession
    <3>4. /\ Unusable = {}
          /\ b \in Usable => b \in DOMAIN hyd.stored.inline
      BY <2>1, <3>1 DEF Usable, Unusable, OneSession, Quiet, DiskSession
    <3>5. b \in Usable => mem'.bulk[b].ver >= 1 BY <2>2, <3>3, <3>4 DEF Full
    <3>6. Moved(b) => Moved(b)' BY <2>1 DEF Moved
    <3>7. Full(record', b) /\ (Moved(b)' \/ b \in DOMAIN record'.inline) BY <2>1, <3>3, <3>6
    <3>8. ASSUME Held(legacy', b), b \in legacy'.inline => legacy'.scope = mem.session,
                 Moved(b) \/ b \in legacy'.inline,
                 Lands(b, write', dirty') => mem'.bulk[b].ver >= 1,
                 b \in DOMAIN write'.bulk => write'.bulk[b].val.ver >= 1,
                 write'.pc = "compact" =>
                   Full(write'.view, b) /\ (Moved(b) \/ b \in DOMAIN write'.view.inline)
          PROVE  Kept(b)'
      <4>1. /\ Moved(b)' \/ b \in legacy'.inline
            /\ write'.pc = "compact" =>
                 Full(write'.view, b) /\ (Moved(b)' \/ b \in DOMAIN write'.view.inline)
        BY <3>6, <3>8
      <4> QED BY <2>2, <3>7, <3>8, <4>1 DEF Kept
    <3>9. CASE UNCHANGED <<dirty, legacy, write>>
      <4>1. Held(legacy', b) /\ ~Lands(b, write', dirty') BY <3>3, <3>9
      <4>2. write'.pc = "compact" =>
              Full(write'.view, b) /\ (Moved(b) \/ b \in DOMAIN write'.view.inline)
        BY <3>3, <3>9
      <4>3. b \notin DOMAIN write'.bulk BY <4>1 DEF Lands
      <4>4. (b \in legacy'.inline => legacy'.scope = mem.session) /\ (Moved(b) \/ b \in legacy'.inline)
        BY <3>3, <3>9
      <4>5. Kept(b)' BY <3>8, <4>1, <4>2, <4>3, <4>4
      <4> QED BY <3>2, <4>5
    <3>10. ASSUME NEW d, NEW g, Resumed(d, g)
           PROVE  /\ Held(g, b) /\ (b \in g.inline => g.scope = mem.session)
                  /\ Moved(b) \/ b \in g.inline
                  /\ b \in d.bulk => b \in Usable
                  /\ DOMAIN g.held \subseteq g.inline
      <4>1. /\ d.bulk = dirty.bulk \cup Usable /\ g.inline = legacy.inline \cup Usable
            /\ g.scope = IF Usable = {} THEN legacy.scope ELSE mem.session
            /\ DOMAIN g.held \subseteq g.inline
            /\ b \in DOMAIN g.held => \/ b \in Usable /\ g.held[b] = hyd.stored.inline[b]
                                      \/ b \in DOMAIN legacy.held /\ g.held[b] = legacy.held[b]
            /\ b \in Usable \/ b \in DOMAIN legacy.held => b \in DOMAIN g.held
        BY <3>3, <3>4, <3>10 DEF Resumed
      <4>2. Held(g, b) BY <1>0, <3>3, <3>4, <4>1 DEF Held, Full
      <4>3. b \notin dirty.bulk BY <3>3 DEF Lands
      <4> QED BY <3>3, <4>1, <4>2, <4>3
    <3>11. ASSUME NEW d, NEW g, Resumed(d, g), Begun(mem', d, g, last') PROVE Kept(b)'
      <4>1. /\ Held(g, b) /\ (b \in g.inline => mem'.session = g.scope)
            /\ Moved(b) \/ b \in g.inline
            /\ b \in d.bulk => mem'.bulk[b].ver >= 1
            /\ DOMAIN g.held \subseteq g.inline
        BY <2>2, <3>5, <3>10, <3>11
      <4>2. b \in DOMAIN last'.bulk => b \in DOMAIN cache /\ cache[b] = last'.bulk[b]
        BY <2>2 DEF Mirror
      <4>3. /\ Held(legacy', b) /\ legacy'.scope = g.scope /\ legacy'.inline \subseteq g.inline
            /\ Moved(b) \/ b \in legacy'.inline
            /\ Lands(b, write', dirty') => b \in d.bulk
            /\ b \in DOMAIN write'.bulk => write'.bulk[b].val.ver >= 1
            /\ write'.pc = "compact" =>
                 Full(write'.view, b) /\ (Moved(b) \/ b \in DOMAIN write'.view.inline)
        BY <2>2, <3>11, <4>1, <4>2, BegunKept
      <4>4. /\ b \in legacy'.inline => legacy'.scope = mem.session
            /\ Lands(b, write', dirty') => mem'.bulk[b].ver >= 1
        BY <2>2, <4>1, <4>3
      <4> QED BY <3>8, <4>3, <4>4
    <3>12. ASSUME NEW d, NEW g, Resumed(d, g), dirty' = d, legacy' = g, UNCHANGED write PROVE Kept(b)'
      <4>1. /\ Held(legacy', b) /\ (b \in legacy'.inline => legacy'.scope = mem.session)
            /\ Moved(b) \/ b \in legacy'.inline
            /\ b \in dirty'.bulk => mem'.bulk[b].ver >= 1
        BY <3>5, <3>10, <3>12
      <4>2. b \notin DOMAIN write'.bulk /\ b \notin write'.failedBulk BY <3>3, <3>12 DEF Lands
      <4>3. Lands(b, write', dirty') => mem'.bulk[b].ver >= 1 BY <4>1, <4>2 DEF Lands
      <4>4. write'.pc = "compact" =>
              Full(write'.view, b) /\ (Moved(b) \/ b \in DOMAIN write'.view.inline)
        BY <3>3, <3>12
      <4> QED BY <3>8, <4>1, <4>2, <4>3, <4>4
    <3> QED BY <2>1, <3>2, <3>9, <3>11, <3>12
  <2> QED BY <2>1, <2>3, <2>4 DEF KeptStep
<1> QED BY <1>1, <1>2 DEF Hydration

LEMMA SetterKept == ASSUME KeptInv, Setter PROVE KeptStep
<1> USE DEF KeptInv
<1>0. TypeOK BY DEF SessionInv, BulkInv
<1>1. ASSUME UNCHANGED <<cache, last>> PROVE Mirror' BY <1>1 DEF Mirror
<1>2. ASSUME NEW s \in Wallets, NEW lock \in BOOLEAN, Login(s, lock) PROVE KeptStep
  <2>1. UNCHANGED <<cache, last>> /\ \A b \in Bulk : fate'[b] = Superseding(b)
    BY <1>0, <1>2, LoginEffect DEF Marked, disk
  <2> QED BY <1>1, <2>1 DEF KeptStep, Superseding
<1>3. CASE Logout
  <2>1. UNCHANGED <<cache, last>> /\ \A b \in Bulk : fate'[b] = Superseding(b)
    BY <1>0, <1>3, LogoutEffect DEF Marked, disk
  <2> QED BY <1>1, <2>1 DEF KeptStep, Superseding
<1>4. CASE SetLocked
  <2>1. /\ Marked({"locked"}) /\ mem'.session = mem.session /\ mem'.bulk = mem.bulk
        /\ UNCHANGED <<bg, fate, chosen>>
    BY <1>0, <1>4, SetLockedEffect
  <2>2. /\ UNCHANGED <<record, cache, vault, adopted, last, write, blind>>
        /\ hyd'.pc = hyd.pc /\ hyd'.stored = hyd.stored
        /\ hyd'.touched \subseteq hyd.touched \cup {"locked"}
        /\ legacy'.inline = legacy.inline /\ legacy'.scope = legacy.scope
        /\ DOMAIN legacy'.held = DOMAIN legacy.held \ {"locked"}
        /\ \A b \in DOMAIN legacy'.held : legacy'.held[b] = legacy.held[b]
    BY <2>1 DEF Marked, disk
  <2>3. "locked" \notin Bulk /\ dirty'.bulk = dirty.bulk
    BY <2>1, BulkAssumption DEF Marked
  <2>4. ASSUME NEW b \in Bulk, Carried(b) PROVE OneSession' /\ Kept(b)'
    <3>1. OneSession /\ Kept(b) BY <2>4 DEF Carried
    <3>2. OneSession' BY <2>1, <2>2, <2>3, <3>1 DEF OneSession, Quiet, DiskSession
    <3>3. Held(legacy', b)
      <4>1. Held(legacy, b) BY <3>1 DEF Kept
      <4> QED BY <2>2, <2>3, <4>1 DEF Held
    <3>4. Moved(b) <=> Moved(b)' BY <2>2 DEF Moved
    <3>5. Lands(b, write, dirty) <=> Lands(b, write', dirty') BY <2>2, <2>3 DEF Lands
    <3>6. Kept(b)' BY <2>1, <2>2, <3>1, <3>3, <3>4, <3>5 DEF Kept
    <3> QED BY <3>2, <3>6
  <2> QED BY <1>1, <2>1, <2>2, <2>4 DEF KeptStep
(* The loaders run in a session that a login began, which superseded them all. *)
<1>5. CASE SetAccount
  <2>1. bg /\ UNCHANGED <<cache, last, fate, blind>>
    BY <1>0, <1>5, SetAccountEffect DEF Marked, disk
  <2> QED BY <1>1, <2>1 DEF KeptStep, Carried, OneSession, Quiet
<1>6. ASSUME NEW c \in Bulk, SetBulk(c) PROVE KeptStep
  <2>1. bg /\ UNCHANGED <<cache, last, blind>> /\ fate' = [fate EXCEPT ![c] = Superseding(c)]
    BY <1>0, <1>6, SetBulkEffect DEF Marked, disk
  <2> QED BY <1>1, <2>1 DEF KeptStep, Carried, OneSession, Quiet
<1> QED BY <1>2, <1>3, <1>4, <1>5, <1>6 DEF Setter

(* A value that the worker has nothing of is left alone: no stage takes it up, *)
(* and the cache keeps it.                                                     *)
LEMMA StagedApart ==
    ASSUME NEW b, NEW w, NEW m \in Memory, NEW g \in Moves, NEW d, NEW k, NEW x, NEW e,
           Staged(w, m, g, d, k, x, e) \/ Settles(w, m, g, d, x, e) \/ Ended(w, d, x, e),
           b \notin g.inline, ~Lands(b, w, d)
    PROVE  ~Lands(b, x, e) /\ (x.pc = "compact" => b \notin DOMAIN x.view.inline)
<1>1. Held(g, b) BY DEF Held
<1>2. CASE Ended(w, d, x, e) BY <1>2, IdleHolds DEF Ended, Lands
<1>3. CASE Settles(w, m, g, d, x, e) BY <1>1, <1>3, SettledKept
<1>4. CASE Staged(w, m, g, d, k, x, e) BY <1>1, <1>4, StagedKept
<1> QED BY <1>2, <1>3, <1>4

LEMMA BegunApart ==
    ASSUME NEW b, NEW m \in Memory, NEW d, NEW g, NEW k, Begun(m, d, g, k),
           b \notin g.inline, b \notin d.bulk
    PROVE  /\ b \notin legacy'.inline /\ ~Lands(b, write', dirty')
           /\ write'.pc = "compact" => b \notin DOMAIN write'.view.inline
<1>1. legacy' \in Moves /\ b \notin legacy'.inline BY DEF Begun, Narrows
<1>2. CASE BulkStarts(m, d, g) BY <1>1, <1>2 DEF BulkStarts, NothingDirty, Lands
<1>3. CASE LaterStarts(m, d, k)
  <2>1. PICK w \in Writes : /\ DOMAIN w.bulk = {} /\ w.failedBulk = {}
                            /\ Staged(w, m, legacy', NothingDirty, k, write', dirty')
    BY <1>3 DEF LaterStarts
  <2>2. ~Lands(b, w, NothingDirty) BY <2>1 DEF Lands, NothingDirty
  <2> QED BY <1>1, <2>1, <2>2, StagedApart
<1> QED BY <1>2, <1>3 DEF Begun

LEMMA WriterApart ==
    ASSUME KeptInv, Writer, NEW b \in Bulk, Apart(b)
    PROVE  Apart(b)' /\ (Moved(b) => Moved(b)')
<1>0. /\ TypeOK /\ mem \in Memory /\ legacy \in Moves /\ DOMAIN legacy.held \subseteq legacy.inline
      /\ UNCHANGED hyd
  BY WriterWaits DEF KeptInv, SessionInv, BulkInv, TypeOK
<1>1. b \notin legacy.inline /\ ~Lands(b, write, dirty) /\ b \notin dirty.bulk BY DEF Apart, Lands
<1>2. ASSUME b \notin legacy'.inline, ~Lands(b, write', dirty'),
             write'.pc = "compact" => b \notin DOMAIN write'.view.inline
      PROVE  Apart(b)'
  BY <1>0, <1>2 DEF Apart
<1>3. CASE Flush
  <2>1. UNCHANGED cache /\ (UNCHANGED <<dirty, legacy, write>> \/ Begun(mem, dirty, legacy, last))
    BY <1>0, <1>3, FlushEffect DEF disk
  <2>2. CASE UNCHANGED <<dirty, legacy, write>>
    BY <1>0, <2>1, <2>2 DEF Apart, Moved, Lands
  <2>3. CASE Begun(mem, dirty, legacy, last)
    BY <1>0, <1>1, <1>2, <2>1, <2>3, BegunApart DEF Moved
  <2> QED BY <2>1, <2>2, <2>3
<1>4. CASE BulkWritten
  <2>1. /\ cache' = Over(write.bulk, cache) /\ legacy' = Drop(legacy, DOMAIN write.bulk)
        /\ \E w \in Writes :
             Carries(write, w) /\ Staged(w, mem, legacy', dirty, last, write', dirty')
    BY <1>0, <1>4, BulkWrittenEffect
  <2>2. PICK w \in Writes :
             Carries(write, w) /\ Staged(w, mem, legacy', dirty, last, write', dirty')
    BY <2>1
  <2>3. legacy' \in Moves /\ b \notin legacy'.inline BY <1>0, <1>1, <2>1, DropFields
  <2>4. b \notin DOMAIN write.bulk /\ ~Lands(b, w, dirty) BY <1>1, <2>2 DEF Lands, Carries
  <2>5. Moved(b) => Moved(b)' BY <2>1, <2>4 DEF Moved, Over
  <2> QED BY <1>0, <1>2, <2>2, <2>3, <2>4, <2>5, StagedApart
<1>5. CASE BulkFailed
  <2>1. UNCHANGED <<cache, legacy>> BY <1>0, <1>5, BulkFailedEffect DEF disk
  <2>2. PICK w \in Writes : /\ w.bulk = write.bulk /\ w.failedBulk = DOMAIN write.bulk
                            /\ Staged(w, mem, legacy, dirty, last, write', dirty')
    BY <1>0, <1>5, BulkFailedEffect
  <2>3. ~Lands(b, w, dirty) BY <1>1, <2>2 DEF Lands
  <2> QED BY <1>0, <1>1, <1>2, <2>1, <2>2, <2>3, StagedApart DEF Moved
<1>6. CASE VaultWritten
  <2>1. UNCHANGED <<cache, legacy>> /\ Settles(write, mem, legacy, dirty, write', dirty')
    BY <1>0, <1>6, VaultWrittenEffect
  <2> QED BY <1>0, <1>1, <1>2, <2>1, StagedApart DEF Moved
<1>7. CASE VaultFailed
  <2>1. UNCHANGED <<cache, legacy>> BY <1>0, <1>7, VaultFailedEffect DEF disk
  <2>2. PICK w \in Writes : /\ w.bulk = write.bulk /\ w.failedBulk = write.failedBulk
                            /\ Settles(w, mem, legacy, dirty, write', dirty')
    BY <1>0, <1>7, VaultFailedEffect
  <2>3. ~Lands(b, w, dirty) BY <1>1, <2>2 DEF Lands
  <2> QED BY <1>0, <1>1, <1>2, <2>1, <2>2, <2>3, StagedApart DEF Moved
<1>8. CASE RecordWritten
  <2>1. UNCHANGED <<cache, legacy>> /\ Ended(write, dirty, write', dirty')
    BY <1>0, <1>8, RecordWrittenEffect
  <2> QED BY <1>0, <1>1, <1>2, <2>1, StagedApart DEF Moved
<1>9. CASE RecordFailed
  <2>1. UNCHANGED <<cache, legacy>> /\ Ended(write, dirty, write', dirty')
    BY <1>0, <1>9, RecordFailedEffect DEF disk
  <2> QED BY <1>0, <1>1, <1>2, <2>1, StagedApart DEF Moved
<1> QED BY <1>3, <1>4, <1>5, <1>6, <1>7, <1>8, <1>9 DEF Writer

LEMMA HydrateBulkApart ==
    ASSUME KeptInv, HydrateBulk, NEW b \in Bulk, Apart(b)
    PROVE  Apart(b)'
<1>0. TypeOK BY DEF KeptInv, SessionInv, BulkInv
<1>1. /\ hyd.pc = "bulk" /\ hyd'.pc = "done" /\ mem' \in Memory
      /\ \/ UNCHANGED <<dirty, legacy, write>>
         \/ \E d, g : /\ Resumed(d, g)
                      /\ \/ write.pc = "idle" /\ Begun(mem', d, g, last')
                         \/ dirty' = d /\ legacy' = g /\ UNCHANGED write
  BY <1>0, HydrateBulkEffect DEF BulkRead
<1>2. b \notin Usable BY <1>1 DEF Apart, Usable
<1>3. /\ b \notin legacy.inline /\ b \notin dirty.bulk
      /\ b \notin DOMAIN write.bulk /\ b \notin write.failedBulk
      /\ write.pc = "compact" => b \notin DOMAIN write.view.inline
  BY DEF Apart, Lands
<1>4. CASE UNCHANGED <<dirty, legacy, write>> BY <1>1, <1>3, <1>4 DEF Apart, Lands
<1>5. ASSUME NEW d, NEW g, Resumed(d, g),
             \/ Begun(mem', d, g, last')
             \/ dirty' = d /\ legacy' = g /\ UNCHANGED write
      PROVE  Apart(b)'
  <2>1. b \notin d.bulk /\ b \notin g.inline BY <1>2, <1>3, <1>5 DEF Resumed
  <2>2. CASE Begun(mem', d, g, last') BY <1>1, <2>1, <2>2, BegunApart DEF Apart
  <2>3. CASE dirty' = d /\ legacy' = g /\ UNCHANGED write BY <1>1, <1>3, <2>1, <2>3 DEF Apart, Lands
  <2> QED BY <1>5, <2>2, <2>3
<1> QED BY <1>1, <1>4, <1>5

(* What of the value is apart stays so, as long as no setter supersedes it.    *)
LeftStep(b) == Left(b)' \/ Cached(b)' \/ Carried(b)'

LEMMA WriterLeft ==
    ASSUME KeptInv, Writer, NEW b \in Bulk, fate'[b] = "kept", Left(b) \/ Cached(b)
    PROVE  LeftStep(b)
<1>0. /\ TypeOK /\ Taking /\ UNCHANGED <<hyd, mem, bg, chosen, blind>>
  BY WriterWaits DEF KeptInv, SessionInv, BulkInv
<1>1. Apart(b)' /\ (Moved(b) => Moved(b)') /\ Quiet'
  BY <1>0, WriterApart DEF Left, Cached, Quiet
<1>2. CASE UNCHANGED <<record, vault, adopted>>
  BY <1>0, <1>1, <1>2 DEF LeftStep, Left, Cached, DiskSession, Inline
<1>3. CASE VaultWritten
  <2>1. /\ write.pc = "trusted" /\ vault' = Over(write.trusted, vault)
        /\ adopted' = (adopted \/ write.adopting) /\ UNCHANGED record
        /\ blind /\ b \in DOMAIN Inline /\ "session" \in DOMAIN vault'
             => vault'["session"] = record.session
    BY <1>0, <1>3, VaultWrittenEffect
  <2>2. CASE Cached(b) BY <1>1, <2>1, <2>2 DEF LeftStep, Cached, Inline
  <2>3. CASE Left(b)
    <3>1. "session" \in DOMAIN vault' => vault'["session"] = record.session
      BY <2>1, <2>3 DEF Left, Inline, DiskSession
    <3>2. DOMAIN vault' = DOMAIN write.trusted \cup DOMAIN vault BY <2>1 DEF Over
    <3>3. write.adopting => "session" \in DOMAIN vault \/ "session" \in DOMAIN write.trusted
      BY <1>0, <2>1 DEF Taking, Queued
    <3>4. adopted' => "session" \in DOMAIN vault' BY <2>1, <2>3, <3>2, <3>3 DEF Left, DiskSession
    <3> QED BY <1>0, <1>1, <2>1, <2>3, <3>1, <3>4 DEF LeftStep, Left, DiskSession
  <2> QED BY <2>2, <2>3
<1>4. CASE RecordWritten
  <2>1. /\ write.pc = "compact" /\ record' = write.view
        /\ blind => Moved(b)
    BY <1>0, <1>4, RecordWrittenEffect
  <2>2. b \notin DOMAIN write.view.inline BY <2>1 DEF Left, Cached, Apart
  <2>3. Moved(b) BY <2>1 DEF Left, Cached
  <2>4. b \notin DOMAIN Inline' BY <2>1, <2>2 DEF Inline
  <2> QED BY <1>1, <2>3, <2>4 DEF LeftStep, Cached
<1> QED BY <1>0, <1>2, <1>3, <1>4, FlushEffect, BulkWrittenEffect, BulkFailedEffect, VaultFailedEffect,
           RecordFailedEffect DEF Writer, disk

LEMMA HydrationLeft ==
    ASSUME KeptInv, Hydration, NEW b \in Bulk, fate[b] = "kept"
    PROVE  LeftStep(b) \/ (Carried(b) /\ ~blind')
<1>0. TypeOK BY DEF KeptInv, SessionInv, BulkInv
<1>1. CASE HydrateRecord
  <2>1. /\ hyd.pc = "record" /\ UNCHANGED <<bg, record, cache, vault, adopted, write, fate, chosen>>
    BY <1>0, <1>1, HydrateRecordEffect DEF disk
  <2>2. PICK stored, known, taken, takeOver : RecordRead(stored, known, taken, takeOver)
    BY <1>0, <1>1, HydrateRecordEffect
  <2>3. /\ write.pc = "idle" /\ DOMAIN write.bulk = {} /\ write.failedBulk = {}
        /\ legacy.inline = {} /\ dirty.bulk \subseteq hyd.touched
    BY <2>1, IdleHolds DEF KeptInv, SessionInv, BulkInv, Reading
  <2>4. /\ stored = IF blind' THEN NoRecord ELSE record
        /\ blind' \in BOOLEAN /\ dirty'.bulk = dirty.bulk
        /\ hyd'.pc = "bulk" /\ hyd'.touched = hyd.touched /\ hyd'.stored = stored
        /\ legacy' = legacy \/ (stored # NoRecord /\ legacy'.inline = DOMAIN stored.inline)
    BY <2>2 DEF RecordRead
  <2>5. Carried(b) \/ Cached(b) BY <2>1 DEF KeptInv, Left
  <2>6. ASSUME Quiet, stored = NoRecord \/ b \notin DOMAIN stored.inline PROVE Apart(b)' /\ Quiet'
    <3>1. b \notin dirty.bulk BY <2>3, <2>6 DEF Quiet
    <3>2. Quiet' BY <2>1, <2>4, <2>6 DEF Quiet
    <3>3. b \notin legacy'.inline BY <2>3, <2>4, <2>6
    <3>4. ~Lands(b, write', dirty') BY <2>1, <2>3, <2>4, <3>1 DEF Lands
    <3> QED BY <2>1, <2>3, <2>4, <2>6, <3>2, <3>3, <3>4 DEF Apart
  <2>7. CASE Cached(b)
    <3>1. stored = NoRecord \/ b \notin DOMAIN stored.inline BY <2>4, <2>7 DEF Cached, Inline
    <3>2. Apart(b)' /\ Quiet' BY <2>6, <2>7, <3>1 DEF Cached
    <3> QED BY <2>1, <2>7, <3>2 DEF LeftStep, Cached, Moved, Inline
  <2>8. CASE Carried(b) /\ blind'
    <3>1. /\ Quiet /\ DiskSession /\ Full(record, b) /\ (Moved(b) \/ b \in DOMAIN record.inline)
      BY <2>8 DEF Carried, OneSession, Kept
    <3>2. Apart(b)' /\ Quiet' BY <2>4, <2>6, <2>8, <3>1
    <3>3. DiskSession' BY <2>1, <3>1 DEF DiskSession
    <3>4. CASE b \in DOMAIN record.inline
      <4>1. Left(b)' BY <2>1, <2>4, <2>8, <3>1, <3>2, <3>3, <3>4 DEF Left, Full
      <4> QED BY <4>1 DEF LeftStep
    <3>5. CASE b \notin DOMAIN record.inline
      <4>1. Cached(b)' BY <2>1, <3>1, <3>2, <3>5 DEF Cached, Moved, Inline
      <4> QED BY <4>1 DEF LeftStep
    <3> QED BY <3>4, <3>5
  <2> QED BY <2>4, <2>5, <2>7, <2>8
<1>2. CASE HydrateBulk
  <2>1. /\ hyd.pc = "bulk" /\ UNCHANGED <<bg, record, cache, vault, adopted, fate, chosen, blind>>
        /\ hyd'.pc = "done" /\ hyd'.touched = {}
    BY <1>0, <1>2, HydrateBulkEffect DEF disk, ghosts, BulkRead
  <2>2. Carried(b) \/ Left(b) \/ Cached(b) BY DEF KeptInv
  <2>3. CASE Carried(b) BY <2>1, <2>3 DEF Carried
  <2>4. CASE Left(b) \/ Cached(b)
    <3>1. Apart(b)' /\ Quiet' BY <1>2, <2>1, <2>4, HydrateBulkApart DEF Left, Cached, Quiet
    <3> QED BY <2>1, <2>4, <3>1 DEF LeftStep, Left, Cached, DiskSession, Moved, Inline
  <2> QED BY <2>2, <2>3, <2>4
<1> QED BY <1>1, <1>2 DEF Hydration

LEMMA SetterLeft ==
    ASSUME KeptInv, Setter, NEW b \in Bulk, fate'[b] = "kept", Left(b) \/ Cached(b)
    PROVE  LeftStep(b)
<1>0. TypeOK /\ Quiet BY DEF KeptInv, SessionInv, BulkInv, Left, Cached
<1>1. ~(\E s \in Wallets, lock \in BOOLEAN : Login(s, lock)) /\ ~Logout
  BY <1>0, LoginEffect, LogoutEffect DEF Superseding
<1>2. ~SetAccount /\ ~(\E c \in Bulk : SetBulk(c))
  BY <1>0, SetAccountEffect, SetBulkEffect DEF Quiet
<1>3. SetLocked BY <1>1, <1>2 DEF Setter
<1>4. Marked({"locked"}) /\ UNCHANGED <<bg, fate, chosen>> BY <1>0, <1>3, SetLockedEffect
<1>5. /\ UNCHANGED <<record, cache, vault, adopted, write, blind>>
      /\ hyd'.pc = hyd.pc /\ hyd'.stored = hyd.stored
      /\ hyd'.touched \subseteq hyd.touched \cup {"locked"}
      /\ legacy'.inline = legacy.inline
  BY <1>4 DEF Marked, disk
<1>6. "locked" \notin Bulk /\ dirty'.bulk = dirty.bulk BY <1>4, BulkAssumption DEF Marked
<1>7. Quiet' BY <1>0, <1>4, <1>5, <1>6 DEF Quiet
<1>8. Apart(b)' BY <1>5, <1>6 DEF Left, Cached, Apart, Lands
<1> QED BY <1>5, <1>7, <1>8 DEF LeftStep, Left, Cached, DiskSession, Moved, Inline

LEMMA NextKept == KeptInv /\ [Next]_vars => KeptInv'
<1> SUFFICES ASSUME KeptInv, [Next]_vars
             PROVE  Mirror' /\ \A b \in Bulk : fate'[b] = "kept" => LeftStep(b)
  BY NextSession DEF KeptInv, LeftStep
<1>1. CASE WorkerKilled
  <2>1. /\ UNCHANGED <<record, cache, vault, adopted, fate, chosen>> /\ ~bg' /\ ~blind'
        /\ hyd'.pc = "record" /\ hyd'.touched = {} /\ write'.pc = "idle"
        /\ DOMAIN write'.bulk = {} /\ write'.failedBulk = {} /\ dirty'.bulk = {}
        /\ legacy'.inline = {} /\ DOMAIN last'.bulk = {}
    BY <1>1, IdleHolds
    DEF WorkerKilled, disk, NothingDirty, NothingLast, NothingLegacy, HydrationStart
  <2>2. Mirror' BY <2>1 DEF Mirror
  <2>3. ASSUME NEW b \in Bulk, fate'[b] = "kept" PROVE LeftStep(b)
    <3>1. Carried(b) \/ Left(b) \/ Cached(b) BY <2>1, <2>3 DEF KeptInv
    <3>2. chosen = {} BY <3>1 DEF Carried, OneSession, Left, Cached, Quiet
    <3>3. Quiet' /\ Held(legacy', b) /\ ~Lands(b, write', dirty') BY <2>1, <3>2 DEF Quiet, Held, Lands
    <3>4. CASE Cached(b) BY <2>1, <3>3, <3>4 DEF LeftStep, Cached, Apart, Moved, Inline
    <3>5. CASE Carried(b) \/ Left(b)
      <4>1. DiskSession /\ Full(record, b) /\ (Moved(b) \/ b \in DOMAIN record.inline)
        BY <3>5 DEF Carried, OneSession, Kept, Left, Full
      <4>2. OneSession' BY <2>1, <3>3, <4>1 DEF OneSession, DiskSession
      <4>3. Full(record', b) /\ (Moved(b)' \/ b \in DOMAIN record'.inline)
        BY <2>1, <4>1 DEF Moved
      <4>4. Kept(b)'
        <5> HIDE DEF Full, Held, Lands, Moved
        <5> QED BY <2>1, <3>3, <4>3 DEF Kept
      <4> QED BY <2>1, <4>2, <4>4 DEF LeftStep, Carried
    <3> QED BY <3>1, <3>4, <3>5
  <2> QED BY <2>2, <2>3
<1>2. CASE UNCHANGED vars
  <2>1. UNCHANGED <<mem, bg, hyd, record, cache, vault, adopted, last, legacy, write, dirty, fate, chosen, blind>>
    BY <1>2 DEF vars, disk, persister, ghosts
  <2>2. Mirror' BY <2>1 DEF KeptInv, Mirror
  <2>3. ASSUME NEW b \in Bulk, fate'[b] = "kept" PROVE LeftStep(b)
    <3>1. Carried(b) \/ Left(b) \/ Cached(b) BY <2>1, <2>3 DEF KeptInv
    <3>2. CASE Carried(b)
      <4>1. OneSession' BY <2>1, <3>2 DEF Carried, OneSession, Quiet, DiskSession
      <4>2. Kept(b) BY <3>2 DEF Carried
      <4>3. Kept(b)' BY ONLY <2>1, <4>2 DEF Kept, Moved, Full, Held, Lands
      <4> QED BY <2>1, <3>2, <4>1, <4>3 DEF LeftStep, Carried
    <3>3. CASE Left(b) \/ Cached(b)
      BY <2>1, <3>3 DEF LeftStep, Left, Cached, Quiet, DiskSession, Apart, Lands, Moved, Inline
    <3> QED BY <3>1, <3>2, <3>3
  <2> QED BY <2>2, <2>3
<1>3. CASE Writer
  <2>1. KeptStep /\ UNCHANGED blind /\ TypeOK
    BY <1>3, WriterKept, WriterWaits DEF KeptInv, SessionInv, BulkInv
  <2>2. \A b \in Bulk : fate'[b] = "kept" => fate[b] = "kept"
    BY <1>3, <2>1, FlushEffect, BulkWrittenEffect, BulkFailedEffect, VaultWrittenEffect,
       VaultFailedEffect, RecordWrittenEffect, RecordFailedEffect DEF Writer, ghosts
  <2>3. ASSUME NEW b \in Bulk, fate'[b] = "kept" PROVE LeftStep(b)
    <3>1. Carried(b) \/ Left(b) \/ Cached(b) BY <2>2, <2>3 DEF KeptInv
    <3>2. CASE Carried(b)
      <4>1. ~blind' BY <2>1, <3>2 DEF Carried
      <4>2. Carried(b)' BY <2>1, <2>3, <3>2, <4>1 DEF KeptStep, Carried
      <4> QED BY <4>2 DEF LeftStep
    <3>3. CASE Left(b) \/ Cached(b) BY <1>3, <2>3, <3>3, WriterLeft
    <3> QED BY <3>1, <3>2, <3>3
  <2> QED BY <2>1, <2>3 DEF KeptStep
<1>4. CASE Hydration
  <2>1. KeptStep /\ TypeOK BY <1>4, HydrationKept DEF KeptInv, SessionInv, BulkInv
  <2>2. UNCHANGED fate BY <1>4, <2>1, HydrateRecordEffect, HydrateBulkEffect DEF Hydration, ghosts
  <2>3. ASSUME NEW b \in Bulk, fate'[b] = "kept" PROVE LeftStep(b)
    <3>1. LeftStep(b) \/ (Carried(b) /\ ~blind') BY <1>4, <2>2, <2>3, HydrationLeft
    <3>2. CASE Carried(b) /\ ~blind'
      <4>1. Carried(b)' BY <2>1, <2>3, <3>2 DEF KeptStep, Carried
      <4> QED BY <4>1 DEF LeftStep
    <3> QED BY <3>1, <3>2
  <2> QED BY <2>1, <2>3 DEF KeptStep
<1>5. CASE Setter
  <2>1. KeptStep /\ TypeOK BY <1>5, SetterKept DEF KeptInv, SessionInv, BulkInv
  <2>2. /\ \A b \in Bulk : fate'[b] = "kept" => fate[b] = "kept"
        /\ UNCHANGED blind
    BY <1>5, <2>1, LoginEffect, LogoutEffect, SetLockedEffect, SetAccountEffect, SetBulkEffect
    DEF Setter, Marked, Superseding, TypeOK
  <2>3. ASSUME NEW b \in Bulk, fate'[b] = "kept" PROVE LeftStep(b)
    <3>1. Carried(b) \/ Left(b) \/ Cached(b) BY <2>2, <2>3 DEF KeptInv
    <3>2. CASE Carried(b)
      <4>1. ~blind' BY <2>2, <3>2 DEF Carried
      <4>2. Carried(b)' BY <2>1, <2>3, <3>2, <4>1 DEF KeptStep, Carried
      <4> QED BY <4>2 DEF LeftStep
    <3>3. CASE Left(b) \/ Cached(b) BY <1>5, <2>3, <3>3, SetterLeft
    <3> QED BY <3>1, <3>2, <3>3
  <2> QED BY <2>1, <2>3 DEF KeptStep
<1> QED BY <1>1, <1>2, <1>3, <1>4, <1>5 DEF Next

(* An old record's bulk value is in storage until a setter writes its field,  *)
(* as each login and logout does, or a start that could not read the record   *)
(* writes over it, over failed writes and kills at any point of the move.     *)
THEOREM LegacySafe == Spec => []LegacyKept
<1>1. KeptInv => LegacyKept
  <2> SUFFICES ASSUME KeptInv, NEW b \in Bulk, fate[b] = "kept" PROVE OnDisk(b)
    BY DEF LegacyKept
  <2>1. Carried(b) \/ Left(b) \/ Cached(b) BY DEF KeptInv
  <2>2. CASE Carried(b)
    <3>1. Full(record, b) /\ (Moved(b) \/ b \in DOMAIN record.inline) /\ record # NoRecord
      BY <2>2 DEF Carried, OneSession, DiskSession, Kept
    <3> QED BY <3>1 DEF OnDisk, Inline, Full
  <2>3. CASE Left(b) \/ Cached(b) BY <2>3 DEF Left, Cached, DiskSession, OnDisk, Inline
  <2> QED BY <2>1, <2>2, <2>3
<1> QED BY <1>1, InitKept, NextKept, PTL DEF Spec
=============================================================================
