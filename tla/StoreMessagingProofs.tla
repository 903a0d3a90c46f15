------------------------- MODULE StoreMessagingProofs -------------------------
(* For any number of writes, faults, openings and lists read back: the state  *)
(* is well typed, neither the port nor chrome.storage brings the page an      *)
(* unread or an older wallet list, and the record takes none.                 *)
EXTENDS StoreMessaging, TLAPS

(* The wallet lists a queue carries lie between lo and hi, in order. *)
Within(q, lo, hi) ==
    /\ \A i \in 1..Len(q) : "wallets" \in DOMAIN q[i]
         => q[i]["wallets"] >= lo /\ q[i]["wallets"] <= hi
    /\ \A i, j \in 1..Len(q) :
         "wallets" \in DOMAIN q[i] /\ "wallets" \in DOMAIN q[j] /\ i < j
           => q[i]["wallets"] <= q[j]["wallets"]

(* What a message has to carry to be no step back from the one before. *)
Low == IF "wallets" \in delivered THEN heard ELSE 1

(* What is held anywhere was read from gero-db at some time; and a worker   *)
(* that has read the list holds one at least as new as any it has sent or   *)
(* written.                                                                 *)
Bounded(w) ==
    /\ stored # NoRecord => stored["wallets"] <= w
    /\ heard <= w
    /\ Within(toPage, Low, w)
BehindDb  == mem["wallets"] <= db["wallets"] /\ Bounded(db["wallets"])
BehindMem == mem["wallets"] # Unread => Bounded(mem["wallets"])

(* Only a hydrated worker writes the record. *)
Hydrated ==
    /\ db["wallets"] # Unread
    /\ "wallets" \in loaded => mem["wallets"] # Unread
    /\ timer => "wallets" \in loaded

(* A page shows what the port brought last, or what it read back itself. *)
Shown ==
    /\ Unread \notin fetched
    /\ own => view["wallets"] # Unread
    /\ "wallets" \in delivered => heard # Unread /\ (own \/ view["wallets"] = heard)

Inv == Hydrated /\ BehindDb /\ BehindMem /\ Shown /\ WalletsKnown

-----------------------------------------------------------------------------
(* An empty queue steps nothing back. *)
LEMMA WithinEmpty == ASSUME NEW lo, NEW hi PROVE Within(<<>>, lo, hi)
  BY DEF Within

(* What is left of a queue that was cut. *)
LEMMA WithinPrefix ==
  ASSUME NEW q \in Seq(Update), NEW lo \in Nat, NEW hi \in Nat, NEW k \in 0..Len(q), Within(q, lo, hi)
  PROVE  Within(SubSeq(q, 1, k), lo, hi) /\ SubSeq(q, 1, k) \in Seq(Update)
  <1>1. SubSeq(q, 1, k) \in Seq(Update)
    OBVIOUS
  <1>2. Len(SubSeq(q, 1, k)) = k /\ \A i \in 1..k : SubSeq(q, 1, k)[i] = q[i] /\ i \in 1..Len(q)
    OBVIOUS
  <1>3. QED
    BY <1>1, <1>2 DEF Within

(* The wallet list of a message is a version. *)
LEMMA CarriedType ==
  ASSUME NEW u \in Update
  PROVE  /\ DOMAIN u \subseteq Fields
         /\ \A f \in DOMAIN u : u[f] \in Version /\ u[f] \in Nat
  <1>1. PICK S \in SUBSET Fields : u \in [S -> Version]
    BY DEF Update
  <1>2. Version \subseteq Nat
    BY BoundsAssumption DEF Version
  <1>3. QED
    BY <1>1, <1>2

(* The queue after its head has been taken: the rest is no older than it. *)
LEMMA WithinTail ==
  ASSUME NEW q \in Seq(Update), NEW lo \in Nat, NEW hi \in Nat, q # <<>>, Within(q, lo, hi)
  PROVE  /\ Tail(q) \in Seq(Update)
         /\ Head(q) \in Update
         /\ "wallets" \in DOMAIN Head(q)
              => /\ Head(q)["wallets"] >= lo /\ Head(q)["wallets"] <= hi
                 /\ Within(Tail(q), Head(q)["wallets"], hi)
         /\ Within(Tail(q), lo, hi)
  <1>1. Tail(q) \in Seq(Update) /\ Head(q) \in Update /\ Head(q) = q[1] /\ 1 \in 1..Len(q)
    OBVIOUS
  <1>2. Len(Tail(q)) = Len(q) - 1 /\ \A i \in 1..(Len(q) - 1) : Tail(q)[i] = q[i + 1] /\ i + 1 \in 1..Len(q) /\ 1 < i + 1
    OBVIOUS
  <1>3. \A i, j \in 1..(Len(q) - 1) : i < j => i + 1 < j + 1
    OBVIOUS
  <1>4. Within(Tail(q), lo, hi)
    BY <1>2, <1>3 DEF Within
  <1>5. ASSUME "wallets" \in DOMAIN Head(q)
        PROVE  /\ Head(q)["wallets"] >= lo /\ Head(q)["wallets"] <= hi
               /\ Within(Tail(q), Head(q)["wallets"], hi)
    <2>1. \A i \in 1..(Len(q) - 1) : "wallets" \in DOMAIN Tail(q)[i] => q[1]["wallets"] <= Tail(q)[i]["wallets"]
      BY <1>1, <1>2, <1>5 DEF Within
    <2>2. \A i \in 1..(Len(q) - 1) : "wallets" \in DOMAIN Tail(q)[i] => Tail(q)[i]["wallets"] \in Nat
      BY <1>1, <1>2, CarriedType
    <2>3. q[1]["wallets"] \in Nat
      BY <1>1, <1>5, CarriedType
    <2>4. Head(q)["wallets"] >= lo /\ Head(q)["wallets"] <= hi
      BY <1>1, <1>5 DEF Within
    <2>5. \A i \in 1..(Len(q) - 1) : "wallets" \in DOMAIN Tail(q)[i] => Tail(q)[i]["wallets"] >= q[1]["wallets"]
      BY <2>1, <2>2, <2>3
    <2>6. QED
      BY <1>1, <1>2, <1>4, <2>4, <2>5 DEF Within
  <1>6. QED
    BY <1>1, <1>4, <1>5

(* A message at the end of the queue, as new as what it holds. *)
LEMMA WithinAppend ==
  ASSUME NEW q \in Seq(Update), NEW lo \in Nat, NEW hi \in Nat, NEW u \in Update,
         Within(q, lo, hi),
         "wallets" \in DOMAIN u => u["wallets"] = hi, lo <= hi
  PROVE  Within(q \o <<u>>, lo, hi) /\ q \o <<u>> \in Seq(Update)
  <1> DEFINE n == Len(q)
  <1> DEFINE p == q \o <<u>>
  <1>0. n \in Nat
    OBVIOUS
  <1>1. p \in Seq(Update) /\ Len(p) = n + 1 /\ p[n + 1] = u /\ \A i \in 1..n : p[i] = q[i]
    OBVIOUS
  <1>2. \A i \in 1..(n + 1) : i \in 1..n \/ i = n + 1
    BY <1>0
  <1>3. \A i \in 1..n : "wallets" \in DOMAIN q[i] => q[i]["wallets"] <= hi /\ q[i]["wallets"] >= lo
    BY DEF Within
  <1>4. \A i \in 1..(n + 1) : "wallets" \in DOMAIN p[i] => p[i]["wallets"] >= lo /\ p[i]["wallets"] <= hi
    BY <1>1, <1>2, <1>3
  <1>5. ASSUME NEW i \in 1..(n + 1), NEW j \in 1..(n + 1),
               "wallets" \in DOMAIN p[i], "wallets" \in DOMAIN p[j], i < j
        PROVE  p[i]["wallets"] <= p[j]["wallets"]
    <2>1. i \in 1..n
      BY <1>5, <1>0
    <2>2. CASE j \in 1..n
      BY <2>1, <2>2, <1>1, <1>5 DEF Within
    <2>3. CASE j = n + 1
      BY <2>1, <2>3, <1>1, <1>3, <1>5
    <2>4. QED
      BY <1>2, <2>2, <2>3
  <1>6. QED
    BY <1>1, <1>4, <1>5 DEF Within

(* A message without a list changes nothing. *)
LEMMA WithinOther ==
  ASSUME NEW q \in Seq(Update), NEW lo \in Nat, NEW hi \in Nat, NEW u \in Update,
         Within(q, lo, hi), "wallets" \notin DOMAIN u
  PROVE  Within(q \o <<u>>, lo, hi)
  <1> DEFINE n == Len(q)
  <1> DEFINE p == q \o <<u>>
  <1>1. n \in Nat /\ Len(p) = n + 1 /\ p[n + 1] = u /\ \A i \in 1..n : p[i] = q[i]
    OBVIOUS
  <1>2. \A i \in 1..(n + 1) : "wallets" \in DOMAIN p[i] => i \in 1..n
    BY <1>1
  <1>3. QED
    BY <1>1, <1>2 DEF Within

(* A higher bound. *)
LEMMA WithinRaise ==
  ASSUME NEW q \in Seq(Update), NEW lo \in Nat, NEW hi \in Nat, NEW top \in Nat, hi <= top, Within(q, lo, hi)
  PROVE  Within(q, lo, top)
  <1>1. \A i \in 1..Len(q) : "wallets" \in DOMAIN q[i] => q[i]["wallets"] \in Nat
    BY CarriedType
  <1>2. QED
    BY <1>1 DEF Within

-----------------------------------------------------------------------------
LEMMA VersionNat == Version \subseteq Nat /\ 1 \in Version /\ Unread \in Version
  BY BoundsAssumption DEF Version, Unread

(* A field of the store replaced by a version. *)
LEMMA FieldType == "wallets" \in Fields /\ "config" \in Fields
  BY DEF Fields

LEMMA ReplaceType ==
  ASSUME NEW s \in [Fields -> Version], NEW f \in Fields, NEW v \in Version
  PROVE  /\ [s EXCEPT ![f] = v] \in [Fields -> Version]
         /\ [s EXCEPT ![f] = v][f] = v
         /\ \A g \in Fields : g # f => [s EXCEPT ![f] = v][g] = s[g]
  OBVIOUS

LEMMA BroadcastType ==
  ASSUME NEW s \in [Fields -> Version], NEW f \in Fields
  PROVE  /\ [g \in {f} |-> s[f]] \in Update
         /\ DOMAIN [g \in {f} |-> s[f]] = {f}
         /\ [g \in {f} |-> s[f]][f] = s[f]
         /\ s \in Update /\ DOMAIN s = Fields
  <1>1. [g \in {f} |-> s[f]] \in [{f} -> Version] /\ {f} \in SUBSET Fields
    OBVIOUS
  <1>2. Fields \in SUBSET Fields
    OBVIOUS
  <1>3. QED
    BY <1>1, <1>2 DEF Update

(* Queues made of updates are queues of updates. *)
LEMMA PostedType ==
  ASSUME TypeOK, NEW us \in Seq(Update)
  PROVE  Posted(us) \in Seq(Update)
  BY DEF Posted, TypeOK

LEMMA CutType ==
  ASSUME TypeOK, CutLink
  PROVE  link' \in Links /\ toPage' \in Seq(Update) /\ asked' \in BOOLEAN
  <1>1. PICK k \in 0..Len(toPage) : toPage' = SubSeq(toPage, 1, k)
    BY DEF CutLink
  <1>2. SubSeq(toPage, 1, k) \in Seq(Update)
    BY DEF TypeOK
  <1>3. QED
    BY <1>1, <1>2 DEF CutLink, TypeOK, Links

LEMMA ScheduleType ==
  ASSUME NEW tried \in 0..MaxAttempts, ScheduleReconnect(tried), retrying \in BOOLEAN
  PROVE  attempts' \in 0..MaxAttempts /\ retrying' \in BOOLEAN
  <1>1. CASE tried >= MaxAttempts
    BY <1>1 DEF ScheduleReconnect
  <1>2. CASE ~(tried >= MaxAttempts)
    <2>1. tried + 1 \in 0..MaxAttempts
      BY <1>2, BoundsAssumption
    <2>2. QED
      BY <1>2, <2>1 DEF ScheduleReconnect
  <1>3. QED
    BY <1>1, <1>2

LEMMA FaultType ==
  ASSUME faults \in 0..MaxFaults, Fault PROVE faults' \in 0..MaxFaults
  BY BoundsAssumption DEF Fault

(* Every step keeps the types: what is posted, shown and recorded is made  *)
(* of versions.                                                            *)
LEMMA TypeStep == ASSUME TypeOK, [Next]_vars PROVE TypeOK'
  <1> USE VersionNat
  <1>1. CASE UNCHANGED vars
    BY <1>1 DEF TypeOK, vars, workerVars, linkVars, shownVars, retryVars
  <1>2. ASSUME NEW f \in Fields, DbWrite(f) PROVE TypeOK'
    <2>1. db[f] + 1 \in Version
      BY <1>2, BoundsAssumption DEF DbWrite, TypeOK, Version
    <2>2. QED
      BY <1>2, <2>1 DEF DbWrite, TypeOK, workerVars, linkVars, shownVars, retryVars
  <1>3. CASE Start
    BY <1>3 DEF Start, TypeOK, linkVars, shownVars, retryVars
  <1>4. CASE Killed
    <2>1. Defaults \in [Fields -> Version]
      BY DEF Defaults
    <2>2. QED
      BY <1>4, <2>1, CutType, FaultType DEF Killed, TypeOK, shownVars, retryVars
  <1>5. CASE SetWallets
    <2>1. mem' \in [Fields -> Version] /\ loaded' \subseteq Fields
      BY <1>5, FieldType, ReplaceType DEF SetWallets, TypeOK
    <2>2. Broadcast(mem', "wallets") \in Seq(Update) /\ Snapshot(mem') \in Seq(Update) /\ <<>> \in Seq(Update)
      BY <2>1, FieldType, BroadcastType DEF Broadcast, Snapshot
    <2>3. toPage' \in Seq(Update)
      <3> DEFINE sent == Broadcast(mem', "wallets") \o IF waiting THEN Snapshot(mem') ELSE <<>>
      <3>1. sent \in Seq(Update)
        BY <2>2
      <3>2. toPage' = Posted(sent)
        BY <1>5 DEF SetWallets
      <3> HIDE DEF sent
      <3>3. QED
        BY <3>1, <3>2, PostedType
    <2>4. stored' \in [Fields -> Version] \cup {NoRecord} /\ timer' \in BOOLEAN
      BY <1>5, <2>1 DEF SetWallets, Persist, TypeOK
    <2>5. QED
      BY <1>5, <2>1, <2>3, <2>4 DEF SetWallets, TypeOK, shownVars, retryVars
  <1>6. CASE SetConfig
    <2>1. mem' \in [Fields -> Version] /\ loaded' \subseteq Fields
      BY <1>6, FieldType, ReplaceType DEF SetConfig, TypeOK
    <2>2. Broadcast(mem', "config") \in Seq(Update)
      BY <2>1, FieldType, BroadcastType DEF Broadcast
    <2>3. toPage' \in Seq(Update)
      BY <1>6, <2>2, PostedType DEF SetConfig, TypeOK
    <2>4. stored' \in [Fields -> Version] \cup {NoRecord} /\ timer' \in BOOLEAN
      BY <1>6, <2>1 DEF SetConfig, Persist, TypeOK
    <2>5. QED
      BY <1>6, <2>1, <2>3, <2>4 DEF SetConfig, TypeOK, shownVars, retryVars
  <1>7. CASE FetchWallets \/ AssignWallets
    <2>1. db["wallets"] \in Version /\ fetched' \subseteq Version
      BY <1>7, FieldType DEF FetchWallets, AssignWallets, TypeOK
    <2>2. view' \in [Fields -> Version]
      BY <1>7, FieldType, ReplaceType DEF FetchWallets, AssignWallets, TypeOK
    <2>3. QED
      BY <1>7, <2>1, <2>2 DEF FetchWallets, AssignWallets, TypeOK, workerVars, linkVars, retryVars
  <1>8. CASE WriteLater
    BY <1>8 DEF WriteLater, TypeOK, linkVars, shownVars, retryVars
  <1>9. CASE Accept
    BY <1>9 DEF Accept, TypeOK, Links, workerVars, shownVars, retryVars
  <1>10. CASE HandleSubscribe
    <2>1. Snapshot(mem) \in Seq(Update)
      <3>1. mem \in Update
        BY FieldType, BroadcastType DEF TypeOK
      <3>2. QED
        BY <3>1 DEF Snapshot
    <2>2. toPage' \in Seq(Update) /\ waiting' \in BOOLEAN
      BY <1>10, <2>1, PostedType DEF HandleSubscribe, TypeOK
    <2>3. QED
      BY <1>10, <2>2 DEF HandleSubscribe, TypeOK, shownVars, retryVars
  <1>11. CASE Open
    <2>2. <<>> \in Seq(Update) /\ 0 \in 0..MaxAttempts
      BY BoundsAssumption
    <2>3. CASE ConnectOk /\ retrying' = FALSE
      <3>1. opens' \in 0..MaxOpens /\ link' \in Links /\ attempts' \in 0..MaxAttempts
        BY <1>11, <2>2, <2>3, BoundsAssumption DEF Open, ConnectOk, TypeOK, Links
      <3>2. QED
        BY <1>11, <2>2, <2>3, <3>1 DEF Open, ConnectOk, TypeOK, workerVars
    <2>4. CASE ConnectThrows /\ ScheduleReconnect(0) /\ subscribing' = TRUE
      <3>1. attempts' \in 0..MaxAttempts /\ retrying' \in BOOLEAN
        BY <2>2, <2>4, ScheduleType DEF TypeOK
      <3>2. opens' \in 0..MaxOpens
        BY <1>11, BoundsAssumption DEF Open, TypeOK
      <3>3. QED
        BY <1>11, <2>4, <3>1, <3>2, FaultType DEF Open, ConnectThrows, TypeOK, workerVars, linkVars
    <2>5. QED
      BY <1>11, <2>3, <2>4 DEF Open
  <1>12. CASE Close
    <2>1. Defaults \in [Fields -> Version] /\ <<>> \in Seq(Update) /\ 0 \in 0..MaxAttempts
      BY BoundsAssumption DEF Defaults
    <2>2. QED
      BY <1>12, <2>1 DEF Close, TypeOK, Links
  <1>13. CASE ReadStored
    <2>1. view' \in [Fields -> Version]
      BY <1>13 DEF ReadStored, TypeOK
    <2>2. QED
      BY <1>13, <2>1 DEF ReadStored, TypeOK, workerVars, linkVars, retryVars
  <1>14. CASE SendSubscribe
    <2>1. <<>> \in Seq(Update)
      OBVIOUS
    <2>2. CASE link = "lost" /\ link' = "off" /\ toPage' = <<>> /\ UNCHANGED asked /\ ScheduleReconnect(attempts)
      BY <1>14, <2>1, <2>2, ScheduleType DEF SendSubscribe, TypeOK, Links, workerVars, shownVars
    <2>3. QED
      BY <1>14, <2>2 DEF SendSubscribe, TypeOK, workerVars, shownVars, linkVars
  <1>15. CASE Deliver
    <2>1. Head(toPage) \in Update /\ Tail(toPage) \in Seq(Update)
      BY <1>15 DEF Deliver, TypeOK
    <2>2. DOMAIN Head(toPage) \subseteq Fields /\ \A f \in DOMAIN Head(toPage) : Head(toPage)[f] \in Version
      BY <2>1, CarriedType
    <2>3. view' \in [Fields -> Version] /\ delivered' \subseteq Fields /\ toPage' \in Seq(Update) /\ heard' \in Version
      BY <1>15, <2>1, <2>2 DEF Deliver, TypeOK
    <2>4. QED
      BY <1>15, <2>3 DEF Deliver, TypeOK, workerVars, retryVars
  <1>16. CASE OnDisconnect
    BY <1>16, ScheduleType DEF OnDisconnect, TypeOK, Links, workerVars, shownVars
  <1>17. CASE Reconnect
    <2>1. <<>> \in Seq(Update) /\ 0 \in 0..MaxAttempts
      BY BoundsAssumption
    <2>2. CASE link # "off"
      BY <1>17, <2>2 DEF Reconnect, TypeOK, workerVars, shownVars, linkVars
    <2>3. CASE link = "off" /\ ConnectOk /\ retrying' = FALSE
      BY <1>17, <2>1, <2>3 DEF Reconnect, ConnectOk, TypeOK, Links, workerVars, shownVars
    <2>4. CASE link = "off" /\ ConnectThrows /\ ScheduleReconnect(attempts) /\ UNCHANGED subscribing
      BY <1>17, <2>4, ScheduleType, FaultType DEF Reconnect, ConnectThrows, TypeOK, workerVars, shownVars, linkVars
    <2>5. QED
      BY <1>17, <2>2, <2>3, <2>4 DEF Reconnect
  <1>18. CASE PortLost
    BY <1>18, CutType, FaultType DEF PortLost, TypeOK, shownVars, retryVars
  <1> QED
    BY <1>1, <1>2, <1>3, <1>4, <1>5, <1>6, <1>7, <1>8, <1>9, <1>10, <1>11, <1>12, <1>13, <1>14, <1>15,
       <1>16, <1>17, <1>18 DEF Next, WorkerStep, PageStep

LEMMA TypeInit == Init => TypeOK
  <1>1. Defaults \in [Fields -> Version] /\ [f \in Fields |-> 1] \in [Fields -> Version]
    BY VersionNat DEF Defaults
  <1>2. <<>> \in Seq(Update)
    OBVIOUS
  <1>3. 0 \in 0..MaxAttempts /\ 0 \in 0..MaxFaults /\ 0 \in 0..MaxOpens /\ "off" \in Links
    BY BoundsAssumption DEF Links
  <1>4. QED
    BY <1>1, <1>2, <1>3, VersionNat DEF Init, TypeOK

(* The state is well typed: what a page or the record holds of a table is a *)
(* version of it, whatever was lost, cut or replaced by a restart.          *)
THEOREM TypeCorrect == Spec => []TypeOK
  <1> QED
    BY TypeInit, TypeStep, PTL DEF Spec

-----------------------------------------------------------------------------
(* A lower bound that is lower still. *)
LEMMA WithinLower ==
  ASSUME NEW q \in Seq(Update), NEW lo \in Nat, NEW low \in Nat, NEW hi \in Nat, low <= lo, Within(q, lo, hi)
  PROVE  Within(q, low, hi)
  <1>1. \A i \in 1..Len(q) : "wallets" \in DOMAIN q[i] => q[i]["wallets"] \in Nat
    BY CarriedType
  <1>2. QED
    BY <1>1 DEF Within

(* One message posted, or none if the worker has no port. *)
LEMMA PostOne ==
  ASSUME TypeOK, NEW lo \in Nat, NEW hi \in Nat, NEW u \in Update, Within(toPage, lo, hi),
         "wallets" \in DOMAIN u => u["wallets"] = hi, lo <= hi
  PROVE  Within(Posted(<<u>>), lo, hi)
  <1>1. Within(toPage \o <<u>>, lo, hi)
    BY WithinAppend DEF TypeOK
  <1>2. QED
    BY <1>1 DEF Posted

(* A broadcast and the snapshots that waited for it. *)
LEMMA PostTwo ==
  ASSUME TypeOK, NEW lo \in Nat, NEW hi \in Nat, NEW u \in Update, NEW s \in Update, Within(toPage, lo, hi),
         "wallets" \in DOMAIN u => u["wallets"] = hi, "wallets" \in DOMAIN s => s["wallets"] = hi, lo <= hi
  PROVE  Within(Posted(<<u>> \o <<s>>), lo, hi)
  <1>1. Within(toPage \o <<u>>, lo, hi) /\ toPage \o <<u>> \in Seq(Update)
    BY WithinAppend DEF TypeOK
  <1>2. Within((toPage \o <<u>>) \o <<s>>, lo, hi)
    BY <1>1, WithinAppend
  <1>3. (toPage \o <<u>>) \o <<s>> = toPage \o (<<u>> \o <<s>>)
    BY DEF TypeOK
  <1>4. QED
    BY <1>2, <1>3 DEF Posted

(* The numbers the invariant compares. *)
LEMMA Numbers ==
  ASSUME TypeOK
  PROVE  /\ db["wallets"] \in Nat /\ mem["wallets"] \in Nat
         /\ view["wallets"] \in Nat /\ heard \in Nat
         /\ stored # NoRecord => stored["wallets"] \in Nat
         /\ Low \in Nat
         /\ toPage \in Seq(Update)
  BY FieldType, VersionNat DEF TypeOK, Low

LEMMA LowBound ==
  ASSUME TypeOK, Inv
  PROVE  /\ 1 <= Low /\ Low <= db["wallets"]
         /\ mem["wallets"] # Unread => Low <= mem["wallets"]
  BY Numbers DEF Inv, Hydrated, BehindDb, BehindMem, Bounded, Shown, Low, Unread

(* Steps that leave the copies alone and at most cut the queue. *)
LEMMA CutStep ==
  ASSUME TypeOK, Inv, UNCHANGED <<db, stored, mem, loaded, view, delivered, fetched, heard, own>>,
         timer' => timer,
         \A hi \in Nat : Within(toPage, Low, hi) => Within(toPage', Low, hi)
  PROVE  Inv'
  <1>1. Low' = Low
    BY DEF Low
  <1>2. \A hi \in Nat : Bounded(hi) => Bounded(hi)'
    BY <1>1 DEF Bounded
  <1>3. BehindDb' /\ BehindMem'
    BY <1>2, Numbers DEF Inv, BehindDb, BehindMem
  <1>4. QED
    BY <1>3 DEF Inv, Hydrated, Shown, WalletsKnown

LEMMA CutLinkCuts ==
  ASSUME TypeOK, CutLink, NEW lo \in Nat, NEW hi \in Nat, Within(toPage, lo, hi)
  PROVE  Within(toPage', lo, hi)
  <1>1. PICK k \in 0..Len(toPage) : toPage' = SubSeq(toPage, 1, k)
    BY DEF CutLink
  <1>2. QED
    BY <1>1, WithinPrefix DEF TypeOK

(* The wallets query. *)
LEMMA WalletsStep ==
  ASSUME TypeOK, TypeOK', Inv, UNCHANGED <<db, view, delivered, fetched, heard, own>>,
         mem'["wallets"] = db["wallets"],
         stored' = stored \/ stored' = mem',
         timer' => "wallets" \in loaded',
         Within(toPage', Low, db["wallets"])
  PROVE  Inv'
  <1>1. Low' = Low
    BY DEF Low
  <1>2. Bounded(db["wallets"])'
    BY <1>1, Numbers DEF Inv, BehindDb, Bounded
  <1>3. BehindDb' /\ BehindMem'
    BY <1>2, Numbers DEF BehindDb, BehindMem
  <1>4. QED
    BY <1>3 DEF Inv, Hydrated, Shown, WalletsKnown

(* Steps of a worker that keeps its list: what it writes or posts is that.  *)
LEMMA KeepStep ==
  ASSUME TypeOK, TypeOK', Inv, UNCHANGED <<db, view, delivered, fetched, heard, own>>,
         mem'["wallets"] = mem["wallets"],
         stored' = stored \/ (stored' = mem' /\ "wallets" \in loaded),
         loaded \subseteq loaded', loaded' \subseteq loaded \cup {"config"},
         timer' => timer,
         toPage' # toPage => \/ "wallets" \in loaded /\ Within(toPage', Low, mem["wallets"])
                            \/ \A hi \in Nat : Within(toPage, Low, hi) => Within(toPage', Low, hi)
  PROVE  Inv'
  <1>1. Low' = Low
    BY DEF Low
  <1>2. mem["wallets"] <= db["wallets"]
    BY DEF Inv, BehindDb
  <1>3. "wallets" \in loaded => mem["wallets"] # Unread
    BY DEF Inv, Hydrated
  <1>7. Hydrated' /\ Shown' /\ WalletsKnown'
    BY <1>3, FieldType DEF Inv, Hydrated, Shown, WalletsKnown
  <1>4. CASE toPage' # toPage /\ "wallets" \in loaded /\ Within(toPage', Low, mem["wallets"])
    <2>1. Within(toPage', Low, db["wallets"])
      BY <1>4, <1>2, Numbers, WithinRaise DEF TypeOK
    <2>2. Bounded(db["wallets"])' /\ Bounded(mem["wallets"])'
      BY <1>1, <1>2, <1>3, <1>4, <2>1, Numbers DEF Inv, BehindDb, BehindMem, Bounded
    <2>3. BehindDb' /\ BehindMem'
      BY <2>2, <1>2 DEF BehindDb, BehindMem
    <2>4. QED
      BY <2>3, <1>7 DEF Inv
  <1>5. CASE toPage' = toPage \/ \A hi \in Nat : Within(toPage, Low, hi) => Within(toPage', Low, hi)
    <2>1. ASSUME NEW hi \in Nat, Bounded(hi), stored' = stored \/ mem["wallets"] <= hi PROVE Bounded(hi)'
      BY <1>1, <1>5, <2>1, Numbers DEF Bounded
    <2>2. Bounded(db["wallets"])' /\ (mem["wallets"] # Unread => Bounded(mem["wallets"])')
      BY <1>2, <2>1, Numbers DEF Inv, BehindDb, BehindMem
    <2>3. BehindDb' /\ BehindMem'
      BY <2>2, <1>2 DEF BehindDb, BehindMem
    <2>4. QED
      BY <2>3, <1>7 DEF Inv
  <1>6. QED
    BY <1>4, <1>5

(* A page that is closed. *)
LEMMA FreshPage ==
  ASSUME TypeOK, TypeOK', Inv, UNCHANGED <<db, stored, mem, loaded, timer>>,
         view' = Defaults, delivered' = {}, fetched' = {}, heard' = Unread, ~own', toPage' = <<>>
  PROVE  Inv'
  <1>1. Low' = 1 /\ heard' = 0
    BY DEF Low, Unread
  <1>2. ASSUME NEW hi \in Nat, Bounded(hi) PROVE Bounded(hi)'
    <2>1. Within(toPage, 1, hi)
      BY <1>2, Numbers, LowBound, WithinLower DEF Bounded
    <2>2. Within(toPage', 1, hi)
      BY <2>1, WithinEmpty
    <2>3. QED
      BY <1>1, <1>2, <2>2 DEF Bounded
  <1>3. BehindDb' /\ BehindMem'
    BY <1>2, Numbers DEF Inv, BehindDb, BehindMem
  <1>4. QED
    BY <1>3 DEF Inv, Hydrated, Shown, WalletsKnown

(* One step per action, by the lemmas above where they settle it. *)
LEMMA InvStep == ASSUME TypeOK, TypeOK', Inv, [Next]_vars PROVE Inv'
  <1> USE DEF workerVars, linkVars, shownVars, retryVars
  <1>1. CASE UNCHANGED vars
    BY <1>1, CutStep DEF vars
  <1>2. ASSUME NEW f \in Fields, DbWrite(f) PROVE Inv'
    <2>1. db'["wallets"] \in Nat /\ db["wallets"] <= db'["wallets"]
      <3>1. db \in [Fields -> Version] /\ db' = [db EXCEPT ![f] = @ + 1]
        BY <1>2 DEF DbWrite, TypeOK
      <3>2. db["wallets"] \in Nat /\ db'["wallets"] \in {db["wallets"], db["wallets"] + 1}
        BY <3>1, FieldType, VersionNat
      <3>3. QED
        BY <3>2
    <2>2. Low' = Low /\ UNCHANGED <<stored, view, toPage, mem, loaded, timer, delivered, fetched, heard, own>>
      BY <1>2 DEF DbWrite, Low
    <2>3. Within(toPage, Low, db'["wallets"])
      BY <2>1, Numbers, WithinRaise DEF Inv, BehindDb, Bounded
    <2>4. Bounded(db["wallets"])'
      BY <2>1, <2>2, <2>3, Numbers DEF Inv, BehindDb, Bounded
    <2>5. BehindDb'
      BY <2>1, <2>2, <2>4, Numbers DEF Inv, BehindDb
    <2>6. BehindMem'
      BY <2>2 DEF Inv, BehindMem, Bounded
    <2>7. Hydrated' /\ Shown' /\ WalletsKnown'
      BY <2>1, <2>2, Numbers DEF Inv, Hydrated, Shown, WalletsKnown, Unread
    <2>8. QED
      BY <2>5, <2>6, <2>7 DEF Inv
  <1>3. CASE Start \/ Accept \/ OnDisconnect
    BY <1>3, CutStep DEF Start, Accept, OnDisconnect
  <1>4. CASE Killed
    <2>1. UNCHANGED <<db, stored, view, delivered, fetched, heard, own>> /\ mem'["wallets"] = Unread /\ loaded' = {} /\ ~timer' /\ CutLink
      BY <1>4, FieldType DEF Killed, Defaults
    <2>2. Low' = Low /\ Within(toPage', Low, db["wallets"])
      BY <2>1, CutLinkCuts, Numbers DEF Inv, BehindDb, Bounded, Low
    <2>3. BehindDb' /\ BehindMem'
      BY <2>1, <2>2, Numbers DEF Inv, BehindDb, BehindMem, Bounded, Unread
    <2>4. QED
      BY <2>1, <2>3 DEF Inv, Hydrated, Shown, WalletsKnown
  <1>5. CASE SetWallets
    <2>1. mem' \in Update /\ mem'["wallets"] = db["wallets"] /\ Within(toPage, Low, db["wallets"]) /\ Low <= db["wallets"]
      <3>1. mem' \in Update
        BY FieldType, BroadcastType DEF TypeOK
      <3>2. QED
        BY <3>1, <1>5, FieldType, ReplaceType, LowBound DEF SetWallets, TypeOK, Inv, BehindDb, Bounded
    <2> DEFINE u == [g \in {"wallets"} |-> mem'["wallets"]]
    <2>2. u \in Update /\ u["wallets"] = db["wallets"]
      <3>1. mem' \in [Fields -> Version]
        BY DEF TypeOK
      <3>2. QED
        BY <2>1, <3>1, FieldType, BroadcastType
    <2>3. CASE waiting
      <3>1. Within(Posted(<<u>> \o <<mem'>>), Low, db["wallets"])
        BY <2>1, <2>2, Numbers, PostTwo
      <3>2. QED
        BY <1>5, <2>1, <2>3, <3>1, WalletsStep DEF SetWallets, Persist, Broadcast, Snapshot
    <2>4. CASE ~waiting
      <3>1. Within(Posted(<<u>>), Low, db["wallets"])
        BY <2>1, <2>2, Numbers, PostOne
      <3>2. <<u>> \o <<>> = <<u>>
        BY <2>2
      <3>3. Within(toPage', Low, db["wallets"])
        BY <1>5, <2>4, <3>1, <3>2 DEF SetWallets, Broadcast
      <3>4. QED
        BY <1>5, <2>1, <3>3, WalletsStep DEF SetWallets, Persist
    <2>5. QED
      BY <2>3, <2>4
  <1>6. CASE SetConfig
    <2>1. mem'["wallets"] = mem["wallets"]
      BY <1>6, FieldType, ReplaceType DEF SetConfig, TypeOK
    <2> DEFINE u == [g \in {"config"} |-> mem'["config"]]
    <2>2. u \in Update /\ "wallets" \notin DOMAIN u
      <3>1. mem' \in [Fields -> Version]
        BY DEF TypeOK
      <3>2. u \in Update
        BY <3>1, FieldType, BroadcastType
      <3>3. QED
        BY <3>2
    <2>3. ASSUME NEW hi \in Nat, Within(toPage, Low, hi), toPage' # toPage PROVE Within(toPage', Low, hi)
      <3>1. toPage' = toPage \o <<u>>
        BY <1>6, <2>3 DEF SetConfig, Posted, Broadcast
      <3>2. QED
        BY <2>2, <2>3, <3>1, Numbers, WithinOther
    <2>4. stored' = stored \/ (stored' = mem' /\ "wallets" \in loaded)
      BY <1>6 DEF SetConfig, Persist
    <2>5. timer' => timer
      BY <1>6 DEF SetConfig, Persist
    <2>6. UNCHANGED <<db, view, delivered, fetched, heard, own>> /\ loaded' = loaded \cup {"config"}
      BY <1>6 DEF SetConfig
    <2>7. QED
      BY <2>1, <2>3, <2>4, <2>5, <2>6, KeepStep
  <1>7. CASE FetchWallets \/ AssignWallets
    <2>1. UNCHANGED <<db, stored, mem, loaded, timer, toPage, delivered, heard>> /\ Low' = Low
      BY <1>7 DEF FetchWallets, AssignWallets, Low
    <2>2. BehindDb' /\ BehindMem'
      BY <2>1 DEF Inv, BehindDb, BehindMem, Bounded
    <2>3. CASE FetchWallets
      BY <2>1, <2>2, <2>3 DEF FetchWallets, Inv, Hydrated, Shown, WalletsKnown
    <2>4. CASE AssignWallets
      <3>1. PICK v \in fetched : view' = [view EXCEPT !["wallets"] = v] /\ fetched' = fetched \ {v}
        BY <2>4 DEF AssignWallets
      <3>2. view'["wallets"] = v /\ v # Unread /\ own'
        BY <2>4, <3>1, FieldType, ReplaceType DEF AssignWallets, Inv, Shown, TypeOK
      <3>3. QED
        BY <2>1, <2>2, <3>1, <3>2 DEF Inv, Hydrated, Shown, WalletsKnown
    <2>5. QED
      BY <1>7, <2>3, <2>4
  <1>8. CASE WriteLater
    BY <1>8, KeepStep DEF WriteLater, Inv, Hydrated
  <1>9. CASE HandleSubscribe
    <2>1. CASE "wallets" \in loaded
      <3>1. mem["wallets"] # Unread
        BY <2>1 DEF Inv, Hydrated
      <3>2. Within(toPage, Low, mem["wallets"]) /\ Low <= mem["wallets"] /\ mem \in Update
        BY <3>1, LowBound, FieldType, BroadcastType DEF Inv, BehindMem, Bounded, TypeOK
      <3>3. Within(Posted(<<mem>>), Low, mem["wallets"])
        BY <3>2, Numbers, PostOne
      <3>4. QED
        BY <1>9, <2>1, <3>3, KeepStep DEF HandleSubscribe, Snapshot
    <2>2. CASE "wallets" \notin loaded
      BY <1>9, <2>2, CutStep DEF HandleSubscribe
    <2>3. QED
      BY <2>1, <2>2
  <1>10. CASE Open
    BY <1>10, CutStep, WithinEmpty DEF Open, ConnectOk, ConnectThrows
  <1>11. CASE Close
    BY <1>11, FreshPage DEF Close
  <1>12. CASE ReadStored
    <2>1. UNCHANGED <<db, stored, mem, loaded, timer, toPage, delivered, fetched, heard>> /\ Low' = Low
      BY <1>12, FieldType DEF ReadStored, Low
    <2>2. \/ view'["wallets"] = view["wallets"] /\ own' = own
          \/ "wallets" \notin delivered /\ ~own'
      BY <1>12, FieldType DEF ReadStored, TypeOK
    <2>3. BehindDb' /\ BehindMem'
      BY <2>1 DEF Inv, BehindDb, BehindMem, Bounded
    <2>4. QED
      BY <2>1, <2>2, <2>3 DEF Inv, Hydrated, Shown, WalletsKnown
  <1>13. CASE SendSubscribe
    BY <1>13, CutStep, WithinEmpty DEF SendSubscribe
  <1>14. CASE Deliver
    <2> DEFINE u == Head(toPage)
    <2>0. UNCHANGED <<db, stored, mem, loaded, timer, fetched>> /\ toPage # <<>> /\ toPage' = Tail(toPage)
      BY <1>14 DEF Deliver
    <2>1. CASE "wallets" \in DOMAIN u
      <3>1. view'["wallets"] = u["wallets"] /\ heard' = u["wallets"] /\ ~own' /\ "wallets" \in delivered'
        BY <1>14, <2>1, FieldType DEF Deliver
      <3>2. Low' = u["wallets"]
        BY <3>1 DEF Low
      <3>3. ASSUME NEW hi \in Nat, Bounded(hi) PROVE u["wallets"] >= Low /\ u["wallets"] <= hi /\ Within(toPage', Low', hi)
        BY <2>0, <2>1, <3>2, <3>3, WithinTail, Numbers DEF Bounded
      <3>4. ASSUME NEW hi \in Nat, Bounded(hi) PROVE Bounded(hi)'
        BY <2>0, <3>1, <3>3, <3>4 DEF Bounded
      <3>5. BehindDb' /\ BehindMem'
        BY <2>0, <3>4, Numbers DEF Inv, BehindDb, BehindMem
      <3>6. u["wallets"] # Unread
        <4>1. u["wallets"] >= Low
          BY <3>3, Numbers DEF Inv, BehindDb
        <4>2. QED
          BY <4>1, LowBound, Numbers DEF Unread
      <3>7. QED
        BY <2>0, <3>1, <3>5, <3>6 DEF Inv, Hydrated, Shown, WalletsKnown
    <2>2. CASE "wallets" \notin DOMAIN u
      <3>1. /\ view'["wallets"] = view["wallets"] /\ ("wallets" \in delivered' <=> "wallets" \in delivered)
            /\ heard' = heard /\ own' = own
        BY <1>14, <2>2, FieldType DEF Deliver, TypeOK
      <3>2. Low' = Low
        BY <3>1 DEF Low
      <3>3. ASSUME NEW hi \in Nat, Bounded(hi) PROVE Bounded(hi)'
        BY <2>0, <3>1, <3>2, <3>3, WithinTail, Numbers DEF Bounded
      <3>4. BehindDb' /\ BehindMem'
        BY <2>0, <3>3, Numbers DEF Inv, BehindDb, BehindMem
      <3>5. QED
        BY <2>0, <3>1, <3>4 DEF Inv, Hydrated, Shown, WalletsKnown
    <2>3. QED
      BY <2>1, <2>2
  <1>15. CASE Reconnect
    BY <1>15, CutStep, WithinEmpty DEF Reconnect, ConnectOk, ConnectThrows
  <1>16. CASE PortLost
    BY <1>16, CutStep, CutLinkCuts, Numbers DEF PortLost
  <1> QED
    BY <1>1, <1>2, <1>3, <1>4, <1>5, <1>6, <1>7, <1>8, <1>9, <1>10, <1>11, <1>12, <1>13, <1>14, <1>15,
       <1>16 DEF Next, WorkerStep, PageStep

LEMMA InvInit == Init => Inv
  <1>1. SUFFICES ASSUME Init PROVE Inv
    OBVIOUS
  <1>2. db["wallets"] = 1 /\ mem["wallets"] = 0 /\ heard = 0 /\ ~own /\ fetched = {} /\ delivered = {} /\ loaded = {} /\ ~timer
    BY <1>1, FieldType DEF Init, Defaults, Unread
  <1>3. Within(toPage, Low, db["wallets"]) /\ (stored # NoRecord => stored["wallets"] = 1)
    BY <1>1, <1>2, WithinEmpty DEF Init
  <1>4. QED
    BY <1>2, <1>3 DEF Inv, Hydrated, BehindDb, BehindMem, Bounded, Shown, WalletsKnown, Unread

LEMMA Invariant == Spec => [](TypeOK /\ Inv)
  <1>1. Init => TypeOK /\ Inv
    BY TypeInit, InvInit
  <1>2. TypeOK /\ Inv /\ [Next]_vars => (TypeOK /\ Inv)'
    BY TypeStep, InvStep
  <1>3. QED
    BY <1>1, <1>2, PTL DEF Spec

(* No page shows, and no record keeps, the default list for a read one.     *)
THEOREM ListKnown == Spec => []WalletsKnown
  <1>1. Inv => WalletsKnown
    BY DEF Inv
  <1>2. QED
    BY <1>1, Invariant, PTL

-----------------------------------------------------------------------------
ViewKept == open /\ open' /\ "wallets" \in delivered => own' \/ view'["wallets"] >= heard

LEMMA ViewStep == ASSUME TypeOK, TypeOK', Inv, [Next]_vars PROVE ViewKept
  <1>1. CASE Deliver
    <2> DEFINE u == Head(toPage)
    <2>1. CASE "wallets" \in DOMAIN u /\ "wallets" \in delivered
      <3>1. view'["wallets"] = u["wallets"] /\ toPage # <<>>
        BY <1>1, <2>1, FieldType DEF Deliver
      <3>2. u["wallets"] >= Low /\ Low = heard
        BY <2>1, <3>1, WithinTail, Numbers DEF Inv, BehindDb, Bounded, Low
      <3>3. QED
        BY <3>1, <3>2 DEF ViewKept
    <2>2. CASE "wallets" \notin DOMAIN u
      <3>1. view'["wallets"] = view["wallets"] /\ own' = own
        BY <1>1, <2>2, FieldType DEF Deliver, TypeOK
      <3>2. QED
        BY <3>1, Numbers DEF ViewKept, Inv, Shown
    <2>3. QED
      BY <2>1, <2>2 DEF ViewKept
  <1>2. CASE ReadStored
    <2>1. "wallets" \in delivered => view'["wallets"] = view["wallets"] /\ own' = own
      BY <1>2, FieldType DEF ReadStored, TypeOK
    <2>2. QED
      BY <2>1, Numbers DEF ViewKept, Inv, Shown
  <1>3. CASE Open \/ Close
    BY <1>3 DEF Open, Close, ViewKept
  <1>4. CASE UNCHANGED <<view, own>>
    BY <1>4, Numbers DEF ViewKept, Inv, Shown
  <1>5. CASE AssignWallets
    BY <1>5 DEF AssignWallets, ViewKept
  <1>6. UNCHANGED <<view, own>> \/ Deliver \/ ReadStored \/ Open \/ Close \/ AssignWallets
    BY DEF Next, WorkerStep, PageStep, vars, workerVars, linkVars, shownVars, retryVars, DbWrite, Start, Killed,
       SetWallets, SetConfig, FetchWallets, WriteLater, Accept, HandleSubscribe, SendSubscribe, OnDisconnect,
       Reconnect, PortLost
  <1>7. QED
    BY <1>1, <1>2, <1>3, <1>4, <1>5, <1>6

(* The page's list is never older than one the port has brought it, not by  *)
(* a late read of the record, a message of a port before, or a worker that  *)
(* starts again: only a list it read back itself may be.                    *)
THEOREM PageKept == Spec => NeverOlder
  <1>1. TypeOK /\ TypeOK' /\ Inv /\ [Next]_vars => ViewKept
    BY ViewStep
  <1>2. TypeOK /\ TypeOK' /\ Inv /\ [Next]_vars
          => [open /\ open' /\ "wallets" \in delivered => own' \/ view'["wallets"] >= heard]_vars
    BY <1>1 DEF ViewKept
  <1>3. QED
    BY <1>2, Invariant, PTL DEF Spec, NeverOlder

RecordKeeps == stored # NoRecord => stored'["wallets"] >= stored["wallets"]

LEMMA RecordStep == ASSUME TypeOK, TypeOK', Inv, [Next]_vars PROVE RecordKeeps
  <1>1. CASE UNCHANGED stored
    BY <1>1, Numbers DEF RecordKeeps
  <1>2. CASE stored' = mem' /\ mem'["wallets"] = db["wallets"]
    BY <1>2, Numbers DEF RecordKeeps, Inv, BehindDb, Bounded
  <1>3. CASE stored' = mem' /\ mem'["wallets"] = mem["wallets"] /\ "wallets" \in loaded
    BY <1>3, Numbers DEF RecordKeeps, Inv, Hydrated, BehindMem, Bounded
  <1>4. SetWallets => mem'["wallets"] = db["wallets"]
    <2>1. mem \in [Fields -> Version] /\ db["wallets"] \in Version
      BY FieldType DEF TypeOK
    <2>2. [mem EXCEPT !["wallets"] = db["wallets"]]["wallets"] = db["wallets"]
      BY <2>1, FieldType, ReplaceType
    <2>3. QED
      BY <2>2 DEF SetWallets
  <1>5. SetConfig => mem'["wallets"] = mem["wallets"]
    BY FieldType, ReplaceType DEF SetConfig, TypeOK
  <1>6. SetWallets \/ SetConfig \/ WriteLater \/ UNCHANGED stored
    BY DEF Next, WorkerStep, PageStep, vars, DbWrite, Start, Killed, Accept, HandleSubscribe, SendSubscribe,
       OnDisconnect, Reconnect, PortLost, Open, Close, ReadStored, Deliver, FetchWallets, AssignWallets
  <1>7. CASE SetWallets
    BY <1>7, <1>4, <1>1, <1>2 DEF SetWallets, Persist
  <1>8. CASE SetConfig
    BY <1>8, <1>5, <1>1, <1>3 DEF SetConfig, Persist
  <1>9. CASE WriteLater
    BY <1>9, <1>3 DEF WriteLater, Inv, Hydrated
  <1>10. QED
    BY <1>1, <1>6, <1>7, <1>8, <1>9

(* The record's list never goes back: a worker that has just started writes *)
(* nothing over it before it has read as much.                              *)
THEOREM RecordKept == Spec => RecordNeverOlder
  <1>1. TypeOK /\ TypeOK' /\ Inv /\ [Next]_vars => RecordKeeps
    BY RecordStep
  <1>2. TypeOK /\ TypeOK' /\ Inv /\ [Next]_vars
          => [stored # NoRecord => stored'["wallets"] >= stored["wallets"]]_vars
    BY <1>1 DEF RecordKeeps
  <1>3. QED
    BY <1>2, Invariant, PTL DEF Spec, RecordNeverOlder
=============================================================================
