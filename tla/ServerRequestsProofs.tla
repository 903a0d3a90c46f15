-------------------------- MODULE ServerRequestsProofs -------------------------
(***************************************************************************)
(* The two components whose request to a server may be applied although its *)
(* answer is lost: the registration for notifications (NotifyLinks), then    *)
(* the submission of a transaction (SubmitRouter).                           *)
(*                                                                         *)
(* The first part's invariant (SwitchInv) is about what an operation still    *)
(* means to do.  A step that needs the switch was planned while it was on,    *)
(* and none comes after a step that may turn it off; so an operation that     *)
(* meets the switch off with such a step left was overtaken (late).  It holds *)
(* for any number of operations at a time.                                   *)
(***************************************************************************)
EXTENDS NotifyLinks, SubmitRouter, TLAPS

(* The steps taken with the switch on, and those after which it may be off. *)
NeedsOn(s) ==
    \/ s.do \in {"subscribe", "newSub", "check", "compare"}
    \/ s.do = "putDevice" /\ s.how # "off"
Switches(s) == s.do \in {"switchBack", "switchOff", "lastOne"}

-----------------------------------------------------------------------------
(* Sequences.                                                              *)
LEMMA InSequence == ASSUME NEW S, NEW s \in Seq(S), NEW x PROVE x \in ToSet(s) <=> \E i \in 1..Len(s) : s[i] = x
  BY DEF ToSet

LEMMA Spliced ==
  ASSUME NEW S, NEW m \in Seq(S), NEW td \in Seq(S), td # <<>>
  PROVE  LET r == m \o Tail(td) IN
         /\ r \in Seq(S) /\ Len(r) = Len(m) + Len(td) - 1
         /\ \A i \in 1..Len(m) : r[i] = m[i]
         /\ \A i \in 1..Len(r) : i > Len(m) => i - Len(m) + 1 \in 2..Len(td) /\ r[i] = td[i - Len(m) + 1]
<1> DEFINE rest == Tail(td)
           r == m \o rest
<1>1. Len(m) \in Nat /\ Len(td) \in Nat \ {0} /\ rest \in Seq(S) /\ Len(rest) = Len(td) - 1
      /\ \A i \in 1..Len(rest) : rest[i] = td[i + 1]
  <2>1. rest \in Seq(S) /\ Len(rest) = Len(td) - 1 /\ Len(td) \in Nat /\ Len(m) \in Nat
    OBVIOUS
  <2>2. \A i \in 1..Len(rest) : rest[i] = td[i + 1]
    BY <2>1
  <2>3. Len(td) # 0
    OBVIOUS
  <2> QED
    BY <2>1, <2>2, <2>3
<1> HIDE DEF rest
<1>2. /\ r \in Seq(S) /\ Len(r) = Len(m) + Len(rest)
      /\ \A i \in 1..Len(m) : r[i] = m[i]
      /\ \A i \in 1..Len(r) : i > Len(m) => r[i] = rest[i - Len(m)]
  <2>1. m \in Seq(S) /\ rest \in Seq(S)
    BY <1>1
  <2>2. r \in Seq(S)
    BY <2>1
  <2>3. Len(r) = Len(m) + Len(rest)
    BY <2>1
  <2>4. \A i \in 1..Len(m) : r[i] = m[i]
    BY <2>1
  <2>5. ASSUME NEW i \in 1..Len(r), i > Len(m) PROVE r[i] = rest[i - Len(m)]
    BY <2>1, <2>3, <2>5
  <2> QED
    BY <2>2, <2>3, <2>4, <2>5
<1>3. ASSUME NEW i \in 1..Len(r), i > Len(m)
      PROVE  i - Len(m) + 1 \in 2..Len(td) /\ r[i] = td[i - Len(m) + 1]
  <2>1. i - Len(m) \in 1..Len(rest)
    BY <1>1, <1>2, <1>3
  <2>2. i - Len(m) + 1 \in 2..Len(td)
    BY <1>1, <2>1
  <2>3. r[i] = rest[i - Len(m)] /\ rest[i - Len(m)] = td[i - Len(m) + 1]
    BY <1>1, <1>2, <1>3, <2>1
  <2> QED
    BY <2>2, <2>3
<1>4. Len(r) = Len(m) + Len(td) - 1
  BY <1>1, <1>2
<1> QED
  BY <1>2, <1>3, <1>4 DEF rest

LEMMA Firsts ==
  ASSUME NEW S, NEW s \in Seq(S), s # <<>>
  PROVE  /\ Head(s) \in S /\ Tail(s) \in Seq(S) /\ Head(s) = s[1]
         /\ ToSet(s) = {Head(s)} \cup ToSet(Tail(s))
<1>1. Len(s) \in Nat \ {0} /\ Tail(s) \in Seq(S) /\ Len(Tail(s)) = Len(s) - 1 /\ Head(s) = s[1]
      /\ \A i \in 1..Len(Tail(s)) : Tail(s)[i] = s[i + 1]
  OBVIOUS
<1>2. \A x : x \in ToSet(s) <=> \E i \in 1..Len(s) : s[i] = x
  BY InSequence
<1>3. \A x : x \in ToSet(Tail(s)) <=> \E i \in 1..Len(Tail(s)) : Tail(s)[i] = x
  BY <1>1, InSequence
<1>4. ASSUME NEW x, x \in ToSet(s) PROVE x \in {Head(s)} \cup ToSet(Tail(s))
  <2>1. PICK i \in 1..Len(s) : s[i] = x
    BY <1>2, <1>4
  <2>2. CASE i = 1
    BY <2>1, <2>2, <1>1
  <2>3. CASE i # 1
    <3>1. i - 1 \in 1..Len(Tail(s)) /\ Tail(s)[i - 1] = x
      BY <2>1, <2>3, <1>1
    <3> QED
      BY <3>1, <1>3
  <2> QED
    BY <2>2, <2>3
<1>5. ASSUME NEW x, x \in {Head(s)} \cup ToSet(Tail(s)) PROVE x \in ToSet(s)
  <2>1. CASE x = Head(s)
    BY <2>1, <1>1, <1>2
  <2>2. CASE x \in ToSet(Tail(s))
    <3>1. PICK i \in 1..Len(Tail(s)) : Tail(s)[i] = x
      BY <2>2, <1>3
    <3>2. i + 1 \in 1..Len(s) /\ s[i + 1] = x
      BY <3>1, <1>1
    <3> QED
      BY <3>2, <1>2
  <2> QED
    BY <2>1, <2>2, <1>5
<1> QED
  BY <1>1, <1>4, <1>5

LEMMA Appended ==
  ASSUME NEW S, NEW s \in Seq(S), NEW x \in S
  PROVE  Append(s, x) \in Seq(S) /\ ToSet(s) \cup {x} \subseteq ToSet(Append(s, x))
<1>1. Append(s, x) \in Seq(S) /\ Len(Append(s, x)) = Len(s) + 1 /\ Append(s, x)[Len(s) + 1] = x
      /\ \A i \in 1..Len(s) : Append(s, x)[i] = s[i]
  OBVIOUS
<1>2. \A y : y \in ToSet(s) <=> \E i \in 1..Len(s) : s[i] = y
  BY InSequence
<1>3. \A y : y \in ToSet(Append(s, x)) <=> \E i \in 1..Len(Append(s, x)) : Append(s, x)[i] = y
  BY <1>1, InSequence
<1>4. ASSUME NEW y \in ToSet(s) PROVE y \in ToSet(Append(s, x))
  <2>1. PICK i \in 1..Len(s) : s[i] = y
    BY <1>2
  <2>2. i \in 1..Len(Append(s, x)) /\ Append(s, x)[i] = y
    BY <2>1, <1>1
  <2> QED
    BY <2>2, <1>3
<1>5. x \in ToSet(Append(s, x))
  BY <1>1, <1>3
<1> QED
  BY <1>1, <1>4, <1>5

-----------------------------------------------------------------------------
(* The steps and what they are made of.                                    *)
LEMMA Fields ==
  ASSUME NEW s \in Steps
  PROVE  /\ s.do \in {"register", "subscribe"} => s.replace \in BOOLEAN
         /\ s.do \in {"subscribe", "newSub", "link"} => s.attempt \in {0, 1}
         /\ s.do = "newSub" => s.previous \in 0..MaxEndpoint
         /\ s.do \in {"putDevice", "saveDevice"} => s.e \in 0..MaxEndpoint
         /\ s.do = "putDevice" => s.how \in {"register", "resend", "off"}
         /\ s.do = "delete" => s.items \in Seq(Item)
         /\ s.do = "enqueue" => s.item \in Item
         /\ s.do \in {"forget", "choose", "lastOne", "uninstall", "link", "save", "prefs"} => s.w \in Wallet
         /\ s.do \in {"link", "save", "prefs"} => s.n \in 1..MaxTag
         /\ s.do = "save" => s.registered \in BOOLEAN
         /\ s.do \in {"check", "compare"} => s.endpoint \in 0..MaxEndpoint
         /\ s.do \in {"compare", "reconcile"} => s.links \subseteq Tag
         /\ s.do = "compare" => s.status \in {"none", "active"}
         /\ s.do = "reconcile" => s.status \in {"keep", "none", "active"}
         /\ s.do = "get" => s.lenient \in BOOLEAN /\ s.sets \in BOOLEAN
         /\ s.do = "each" => s.queue \subseteq Tag /\ s.unlink \subseteq Tag /\ s.link \subseteq Tag
  BY DEF Steps

LEMMA Plain ==
  /\ [do |-> "flush"] \in Steps /\ [do |-> "drained"] \in Steps /\ [do |-> "config"] \in Steps
  /\ [do |-> "unsubscribe"] \in Steps /\ [do |-> "switchBack"] \in Steps /\ [do |-> "switchOff"] \in Steps
  /\ Flush \in Steps /\ Unsubscribe \in Steps
  BY DEF Steps, Flush, Unsubscribe
LEMMA Wanting ==
  ASSUME NEW w \in Wallet
  PROVE  /\ Forget(w) \in Steps /\ [do |-> "choose", w |-> w] \in Steps
         /\ [do |-> "lastOne", w |-> w] \in Steps /\ [do |-> "uninstall", w |-> w] \in Steps
  BY DEF Steps, Forget
LEMMA RegisterStep == Register(FALSE) \in Steps /\ Register(TRUE) \in Steps
  BY DEF Steps, Register
LEMMA SubscribeSteps == ASSUME NEW r \in BOOLEAN, NEW k \in {0, 1} PROVE SubscribeStep(r, k) \in Steps
  BY DEF Steps, SubscribeStep
LEMMA NewSubStep ==
  ASSUME NEW e \in 0..MaxEndpoint, NEW k \in {0, 1}
  PROVE  [do |-> "newSub", previous |-> e, attempt |-> k] \in Steps
  BY DEF Steps
LEMMA PutStep ==
  ASSUME NEW e \in 0..MaxEndpoint, NEW k \in {0, 1}, NEW how \in {"register", "resend", "off"}
  PROVE  PutDevice(e, k, how) \in Steps
  BY DEF Steps, PutDevice
LEMMA SaveDeviceStep == ASSUME NEW e \in 0..MaxEndpoint PROVE [do |-> "saveDevice", e |-> e] \in Steps
  BY DEF Steps
LEMMA DeleteStep == ASSUME NEW items \in Seq(Item) PROVE [do |-> "delete", items |-> items] \in Steps
  BY DEF Steps
LEMMA EnqueueStep == ASSUME NEW item \in Item PROVE Enqueue(item) \in Steps
  BY DEF Steps, Enqueue
LEMMA LinkStep == ASSUME NEW w \in Wallet, NEW n \in 1..MaxTag, NEW k \in {0, 1} PROVE Link(w, n, k) \in Steps
  BY DEF Steps, Link
LEMMA SaveStep == ASSUME NEW w \in Wallet, NEW n \in 1..MaxTag, NEW r \in BOOLEAN PROVE Save(w, n, r) \in Steps
  BY DEF Steps, Save
LEMMA PrefsStep == ASSUME NEW w \in Wallet, NEW n \in 1..MaxTag PROVE [do |-> "prefs", w |-> w, n |-> n] \in Steps
  BY DEF Steps
LEMMA CheckStep == ASSUME NEW e \in 0..MaxEndpoint PROVE [do |-> "check", endpoint |-> e] \in Steps
  BY DEF Steps
LEMMA CompareStep ==
  ASSUME NEW e \in 0..MaxEndpoint, NEW ls \in SUBSET Tag, NEW st \in {"none", "active"}
  PROVE  [do |-> "compare", endpoint |-> e, links |-> ls, status |-> st] \in Steps
  BY DEF Steps
LEMMA ReconcileSteps ==
  ASSUME NEW ls \in SUBSET Tag, NEW st \in {"keep", "none", "active"}
  PROVE  Reconcile(ls, st) \in Steps
  BY DEF Steps, Reconcile
LEMMA GetStep == Get(TRUE, FALSE) \in Steps /\ Get(FALSE, FALSE) \in Steps /\ Get(FALSE, TRUE) \in Steps
  BY DEF Steps, Get
LEMMA EachStep ==
  ASSUME NEW q \in SUBSET Tag, NEW u \in SUBSET Tag, NEW l \in SUBSET Tag
  PROVE  [do |-> "each", queue |-> q, unlink |-> u, link |-> l] \in Steps
  BY DEF Steps
LEMMA Tuples ==
  /\ <<>> \in Seq(Steps) /\ \A a \in Steps : <<a>> \in Seq(Steps)
  /\ \A a, b \in Steps : <<a, b>> \in Seq(Steps)
  /\ \A a, b, c \in Steps : <<a, b, c>> \in Seq(Steps)
  /\ \A a, b, c, d \in Steps : <<a, b, c, d>> \in Seq(Steps)
  OBVIOUS
LEMMA Joined == ASSUME NEW m \in Seq(Steps), NEW n \in Seq(Steps) PROVE m \o n \in Seq(Steps)
  OBVIOUS

-----------------------------------------------------------------------------
(* Types.  The list of an operation is made of steps, whichever way it goes. *)
World ==
    /\ installed \subseteq Wallet
    /\ on \in BOOLEAN /\ endpoint \in 0..MaxEndpoint /\ unsupported \in BOOLEAN
    /\ status \in {"none", "active", "invalid", "needs_attention"}
    /\ tag \in [Wallet -> 0..MaxTag] /\ registered \subseteq {w \in Wallet : tag[w] # 0}
    /\ queue \in Seq(Item)
    /\ sub \in 0..MaxEndpoint
    /\ known \in BOOLEAN /\ target \in 0..MaxEndpoint
    /\ links \subseteq Tag /\ dead \subseteq Endpoints
    /\ used \in [Wallet -> 0..MaxTag]
    /\ ui \in 0..MaxUi /\ faults \in 0..MaxFault
    /\ dropped \subseteq Item
    /\ known \/ (target = 0 /\ links = {} /\ dead = {})
Typed == ops \in [Thread -> [kind : Kinds, undo : BOOLEAN, todo : Seq(Steps)]]

LEMMA Bounds == MaxEndpoint \in Nat /\ MaxTag \in Nat /\ MaxUi \in Nat /\ MaxFault \in Nat /\ 0 \in 0..MaxEndpoint
  BY BoundsAssumption
LEMMA Both == TypeOK <=> World /\ Typed /\ late \subseteq Thread
  BY DEF TypeOK, World, Typed
LEMMA BothPrimed == TypeOK' <=> World' /\ Typed' /\ late' \subseteq Thread
  BY DEF TypeOK, World, Typed

LEMMA HereType ==
  ASSUME Typed, NEW t \in Thread, NEW name, At(t, name)
  PROVE  /\ ops[t].todo \in Seq(Steps) /\ ops[t].todo # <<>>
         /\ Here(t) \in Steps /\ Here(t).do = name /\ Here(t) = ops[t].todo[1]
         /\ Tail(ops[t].todo) \in Seq(Steps)
<1>1. ops[t].todo \in Seq(Steps) /\ ops[t].todo # <<>>
  BY DEF Typed, At
<1> QED
  BY <1>1, Firsts DEF At, Here

LEMMA ToDoType ==
  ASSUME Typed, NEW t \in Thread, NEW s \in Seq(Steps), ToDo(t, s)
  PROVE  Typed' /\ ops'[t].todo = s
  BY DEF Typed, ToDo

LEMMA ThenType ==
  ASSUME Typed, NEW t \in Thread, NEW name, At(t, name), NEW m \in Seq(Steps), Then(t, m)
  PROVE  Typed' /\ ops'[t].todo = m \o Tail(ops[t].todo)
<1>1. ops[t].todo \in Seq(Steps) /\ ops[t].todo # <<>>
  BY HereType
<1>2. m \o Tail(ops[t].todo) \in Seq(Steps)
  BY <1>1, Spliced
<1> QED
  BY <1>2, ToDoType DEF Then

LEMMA ThrowType == ASSUME Typed, NEW t \in Thread, Throw(t) PROVE Typed' /\ ops'[t].todo = <<>>
<1>1. <<>> \in Seq(Steps)
  OBVIOUS
<1>2. ToDo(t, <<>>)
  BY DEF Throw
<1> QED
  BY <1>1, <1>2, ToDoType

LEMMA StopType ==
  ASSUME Typed, NEW t \in Thread, NEW r, Stop(t, r)
  PROVE  Typed' /\ ops'[t].todo \in {<<>>, <<[do |-> "switchBack"]>>}
<1> DEFINE s == IF ops[t].undo /\ r # "deferred" THEN <<[do |-> "switchBack"]>> ELSE <<>>
<1>1. s \in Seq(Steps) /\ s \in {<<>>, <<[do |-> "switchBack"]>>}
  BY Plain
<1>2. ToDo(t, s)
  BY DEF Stop
<1> HIDE DEF s
<1> QED
  BY <1>1, <1>2, ToDoType

LEMMA DeferredType ==
  ASSUME Typed, NEW t \in Thread, Deferred(t)
  PROVE  Typed' /\ ops'[t].todo \in {<<>>, <<Flush>>}
<1> DEFINE s == IF Flush \in ToSet(Tail(ops[t].todo)) THEN <<Flush>> ELSE <<>>
<1>1. s \in Seq(Steps) /\ s \in {<<>>, <<Flush>>}
  BY Plain
<1>2. ToDo(t, s)
  BY DEF Deferred
<1> HIDE DEF s
<1> QED
  BY <1>1, <1>2, ToDoType

LEMMA EachType ==
  ASSUME NEW q \in SUBSET Tag, NEW u \in SUBSET Tag, NEW l \in SUBSET Tag
  PROVE  Each(q, u, l) \in Seq(Steps)
  BY EachStep DEF Each

LEMMA StartType ==
  ASSUME Typed, NEW t \in Thread, NEW kind \in Kinds, NEW undo \in BOOLEAN, NEW todo \in Seq(Steps),
         Start(t, kind, undo, todo)
  PROVE  Typed' /\ ops'[t].todo = todo
  BY DEF Typed, Start

LEMMA UnlinkType == ASSUME NEW l \in Tag PROVE Unlink(l) \in Seq(Steps)
<1>1. l \in Item /\ l[1] \in Wallet
  BY DEF Tag, Item
<1>2. Enqueue(l) \in Steps /\ Forget(l[1]) \in Steps
  BY <1>1, EnqueueStep, Wanting
<1> QED
  BY <1>2 DEF Unlink

LEMMA EntryType ==
  ASSUME TypeOK, NEW w \in Wallet, tag[w] # 0
  PROVE  tag[w] \in 1..MaxTag /\ <<w, tag[w]>> \in Tag
<1>1. tag[w] \in 0..MaxTag
  BY DEF TypeOK
<1> QED
  BY <1>1, BoundsAssumption DEF Tag

LEMMA FaultType == ASSUME World, Fault PROVE faults' \in 0..MaxFault
  BY Bounds DEF World, Fault
LEMMA RefusedType == ASSUME World, Refused PROVE faults' \in 0..MaxFault /\ unsupported' \in BOOLEAN
  BY FaultType DEF World, Refused

LEMMA StartsType == ASSUME TypeOK, NEW t \in Thread, Starts(t) \/ Reassert(t) PROVE World' /\ Typed'
<1> USE DEF Kinds
<1>0. Typed /\ World /\ on \in BOOLEAN
  BY Both DEF World
<1>u. ui < MaxUi /\ ui' = ui + 1 => ui' \in 0..MaxUi
  BY <1>0, BoundsAssumption DEF World
<1>1. CASE SetOn(t)
  <2>1. <<Register(FALSE), Get(TRUE, FALSE), Flush>> \in Seq(Steps)
    BY RegisterStep, GetStep, Plain, Tuples
  <2>2. Typed'
    BY <1>0, <1>1, <2>1, StartType DEF SetOn
  <2>w. World'
    BY <1>0, <1>u, <1>1 DEF World, SetOn, wallets, server, User
  <2> QED
    BY <2>2, <2>w
<1>2. CASE SetOff(t)
  <2>1. <<PutDevice(0, 1, "off"), Unsubscribe>> \in Seq(Steps)
    BY PutStep, Plain, BoundsAssumption
  <2>2. Typed'
    BY <1>0, <1>2, <2>1, StartType DEF SetOff
  <2>3. on' \in BOOLEAN /\ status' = "none" /\ endpoint' \in 0..MaxEndpoint /\ ui' \in 0..MaxUi
    BY <1>2, <1>u, Bounds DEF SetOff, SwitchOff, User
  <2>w. World'
    BY <1>0, <1>2, <2>3 DEF World, SetOff, wallets, server
  <2> QED
    BY <2>2, <2>w
<1>3. ASSUME NEW w \in Wallet, EnableWallet(t, w) PROVE World' /\ Typed'
  <2> DEFINE todo == (IF status # "active" THEN <<Register(FALSE)>> ELSE <<>>) \o <<[do |-> "choose", w |-> w]>>
  <2>0. <<Register(FALSE)>> \in Seq(Steps) /\ <<[do |-> "choose", w |-> w]>> \in Seq(Steps)
    BY RegisterStep, Wanting, Tuples
  <2>1. todo \in Seq(Steps)
    BY <2>0, Tuples, Joined
  <2>2. Start(t, "enable", ~on, todo)
    BY <1>3 DEF EnableWallet
  <2> HIDE DEF todo
  <2>3. Typed'
    BY <1>0, <2>1, <2>2, StartType
  <2>w. World'
    BY <1>0, <1>u, <1>3 DEF World, EnableWallet, wallets, server, User
  <2> QED
    BY <2>3, <2>w
<1>4. ASSUME NEW w \in Wallet, DisableWallet(t, w) PROVE World' /\ Typed'
  <2> DEFINE todo == Unlink(<<w, tag[w]>>) \o <<Flush>>
  <2>1. todo \in Seq(Steps)
    BY <1>4, EntryType, UnlinkType, Plain DEF DisableWallet
  <2>2. Start(t, "disable", FALSE, todo)
    BY <1>4 DEF DisableWallet
  <2> HIDE DEF todo
  <2>3. Typed'
    BY <1>0, <2>1, <2>2, StartType
  <2>w. World'
    BY <1>0, <1>u, <1>4 DEF World, DisableWallet, device, wallets, server, User
  <2> QED
    BY <2>3, <2>w
<1>5. ASSUME NEW w \in Wallet, WalletRemoved(t, w) PROVE World' /\ Typed'
  <2> DEFINE rest == <<[do |-> "lastOne", w |-> w], Flush, [do |-> "uninstall", w |-> w]>>
  <2>1. rest \in Seq(Steps)
    BY Wanting, Plain, Tuples
  <2>2. tag[w] # 0 => Unlink(<<w, tag[w]>>) \o rest \in Seq(Steps)
    BY <2>1, EntryType, UnlinkType, Joined
  <2>3. \/ tag[w] # 0 /\ Start(t, "remove", FALSE, Unlink(<<w, tag[w]>>) \o rest)
        \/ Start(t, "remove", FALSE, rest)
    BY <1>5 DEF WalletRemoved
  <2> HIDE DEF rest
  <2>4. Typed'
    BY <1>0, <2>1, <2>2, <2>3, StartType
  <2>5. faults' \in 0..MaxFault
    BY <1>0, <1>5, FaultType DEF WalletRemoved, World
  <2>w. World'
    BY <1>0, <1>u, <1>5, <2>5 DEF World, WalletRemoved, device, wallets, server, User
  <2> QED
    BY <2>4, <2>w
<1>6. ASSUME NEW w \in Wallet, SetPrefs(t, w) PROVE World' /\ Typed'
  <2>1. tag[w] # 0
    BY <1>6 DEF SetPrefs, TypeOK
  <2>2. <<[do |-> "prefs", w |-> w, n |-> tag[w]]>> \in Seq(Steps)
    <3>1. [do |-> "prefs", w |-> w, n |-> tag[w]] \in Steps
      BY <2>1, EntryType, PrefsStep
    <3> QED
      BY <3>1, Tuples
  <2>3. Typed'
    BY <1>0, <1>6, <2>2, StartType DEF SetPrefs
  <2>w. World'
    BY <1>0, <1>u, <1>6 DEF World, SetPrefs, device, wallets, server, User
  <2> QED
    BY <2>3, <2>w
<1>7. ASSUME NEW w \in Wallet, CredentialsChanged(t, w) PROVE World' /\ Typed'
  <2>1. tag[w] # 0
    BY <1>7 DEF CredentialsChanged, TypeOK
  <2>2. <<Link(w, tag[w], 0)>> \in Seq(Steps)
    <3>1. Link(w, tag[w], 0) \in Steps
      BY <2>1, EntryType, LinkStep
    <3> QED
      BY <3>1, Tuples
  <2>3. Typed'
    BY <1>0, <1>7, <2>2, StartType DEF CredentialsChanged
  <2>w. World'
    BY <1>0, <1>u, <1>7 DEF World, CredentialsChanged, device, wallets, server, User
  <2> QED
    BY <2>3, <2>w
<1>8. CASE Reassert(t)
  <2>1. ReassertPlan \in Seq(Steps)
    BY CheckStep, Plain DEF ReassertPlan, Check, TypeOK
  <2>2. Typed'
    BY <1>0, <1>8, <2>1, StartType DEF Reassert
  <2>w. World'
    BY <1>0, <1>u, <1>8 DEF World, Reassert, device, wallets, server, User
  <2> QED
    BY <2>2, <2>w
<1> QED
  BY <1>1, <1>2, <1>3, <1>4, <1>5, <1>6, <1>7, <1>8 DEF Starts

(* registerDevice, up to its PUT. *)
LEMMA RegisterTypes ==
  ASSUME World, Typed, NEW t \in Thread,
         \/ RegisterDevice(t) \/ Drained(t) \/ UsableConfig(t) \/ Subscribe(t) \/ FreshSubscription(t)
  PROVE  World' /\ Typed'
<1>1. CASE RegisterDevice(t)
  <2>1. At(t, "register") /\ Here(t) \in Steps /\ Here(t).replace \in {TRUE, FALSE}
    BY <1>1, HereType, Fields DEF RegisterDevice
  <2>2. SubscribeStep(Here(t).replace, 0) \in Steps
    BY <2>1, SubscribeSteps
  <2>3. <<Flush, [do |-> "drained"], [do |-> "config"], SubscribeStep(Here(t).replace, 0)>> \in Seq(Steps)
    BY <2>2, Plain, Tuples
  <2>4. Typed'
    BY <1>1, <2>1, <2>3, ThenType, StopType DEF RegisterDevice
  <2>5. World'
    BY <1>1 DEF World, RegisterDevice, device, wallets, server
  <2> QED
    BY <2>4, <2>5
<1>2. CASE Drained(t)
  <2>1. Typed'
    BY <1>2, ThenType, StopType, Tuples DEF Drained
  <2>2. World'
    BY <1>2, FaultType DEF World, Drained, device, wallets, server
  <2> QED
    BY <2>1, <2>2
<1>3. CASE UsableConfig(t)
  <2>1. Typed'
    BY <1>3, ThenType, StopType, ThrowType, Tuples DEF UsableConfig
  <2>2. World'
    BY <1>3, FaultType DEF World, UsableConfig, wallets, server
  <2> QED
    BY <2>1, <2>2
<1>4. CASE Subscribe(t)
  <2>1. At(t, "subscribe") /\ Here(t) \in Steps /\ Here(t).attempt \in {0, 1} /\ sub \in 0..MaxEndpoint
    BY <1>4, HereType, Fields DEF Subscribe, World
  <2>2. PutDevice(sub, 0, "register") \in Steps
    BY <2>1, PutStep
  <2>3. [do |-> "newSub", previous |-> sub, attempt |-> Here(t).attempt] \in Steps
    BY <2>1, NewSubStep
  <2>4. Typed'
    BY <1>4, <2>1, <2>2, <2>3, ThenType, Tuples DEF Subscribe
  <2>5. World'
    BY <1>4, Bounds DEF World, Subscribe, device, wallets, server
  <2> QED
    BY <2>4, <2>5
<1>5. CASE FreshSubscription(t)
  <2>1. /\ At(t, "newSub") /\ Here(t) \in Steps /\ Here(t).attempt \in {0, 1}
        /\ Here(t).previous \in 0..MaxEndpoint
    BY <1>5, HereType, Fields DEF FreshSubscription
  <2>2. sub' \in 0..MaxEndpoint
    <3>1. Unused(Here(t).previous) \subseteq 0..MaxEndpoint
      BY DEF Unused, Endpoints
    <3>2. Unused(Here(t).previous) # {} => (CHOOSE e \in Unused(Here(t).previous) : TRUE) \in 0..MaxEndpoint
      BY <3>1
    <3> QED
      BY <1>5, <2>1, <3>2, Bounds DEF FreshSubscription
  <2>3. PutDevice(sub', Here(t).attempt, "register") \in Steps
    BY <2>1, <2>2, PutStep
  <2>4. <<PutDevice(sub', Here(t).attempt, "register")>> \in Seq(Steps)
    BY <2>3, Tuples
  <2>5. Typed'
    BY <1>5, <2>1, <2>4, ThenType, StopType, ThrowType DEF FreshSubscription
  <2>6. World'
    BY <1>5, <2>2, FaultType DEF World, FreshSubscription, device, wallets, server
  <2> QED
    BY <2>5, <2>6
<1> QED
  BY <1>1, <1>2, <1>3, <1>4, <1>5

LEMMA PutDeviceTypes ==
  ASSUME World, Typed, NEW t \in Thread, PutDeviceStep(t)
  PROVE  World' /\ Typed'
<1> DEFINE s == Here(t)
<1>1. /\ At(t, "putDevice") /\ s \in Steps /\ s.e \in 0..MaxEndpoint
  BY HereType, Fields DEF PutDeviceStep
<1>2. <<[do |-> "saveDevice", e |-> s.e]>> \o (IF s.how = "resend" THEN <<Reconcile(links, "active")>> ELSE <<>>)
      \in Seq(Steps)
  <2>1. [do |-> "saveDevice", e |-> s.e] \in Steps /\ Reconcile(links, "active") \in Steps
    BY <1>1, SaveDeviceStep, ReconcileSteps DEF World
  <2> QED
    BY <2>1, Tuples, Joined
<1>3. <<[do |-> "newSub", previous |-> s.e, attempt |-> 1]>> \in Seq(Steps)
  BY <1>1, NewSubStep, Tuples
<1>4. <<[do |-> "config"], SubscribeStep(TRUE, 1)>> \in Seq(Steps)
  <2>1. SubscribeStep(TRUE, 1) \in Steps
    BY DEF SubscribeStep, Steps
  <2> QED
    BY <2>1, Plain, Tuples
<1> DEFINE m == <<[do |-> "saveDevice", e |-> s.e]>>
                  \o (IF s.how = "resend" THEN <<Reconcile(links, "active")>> ELSE <<>>)
           n == <<[do |-> "newSub", previous |-> s.e, attempt |-> 1]>>
           c == <<[do |-> "config"], SubscribeStep(TRUE, 1)>>
<1>5. ASSUME NEW r, PutFailed(t, r) PROVE Typed'
  BY <1>1, <1>5, ThenType, StopType, Tuples DEF PutFailed
<1>6. Typed'
  <2>1. Then(t, m) \/ Then(t, n) \/ Then(t, c) \/ (\E r : PutFailed(t, r)) \/ Stop(t, "endpoint_not_allowed")
    BY DEF PutDeviceStep
  <2> HIDE DEF m, n, c
  <2> QED
    BY <1>1, <1>2, <1>3, <1>4, <1>5, <2>1, ThenType, StopType DEF m, n, c
<1>7. World'
  <2>1. faults' \in 0..MaxFault /\ on' \in BOOLEAN /\ sub' \in 0..MaxEndpoint /\ unsupported' \in BOOLEAN
    BY <1>1, FaultType, RefusedType, Bounds DEF World, PutDeviceStep
  <2>2. /\ known' \in BOOLEAN /\ target' \in 0..MaxEndpoint
    BY <1>1 DEF World, PutDeviceStep
  <2>4. known' \/ (target' = 0 /\ links' = {} /\ dead' = {})
    <3>1. CASE known' = TRUE
      BY <3>1
    <3>2. CASE UNCHANGED <<known, target, links, dead>>
      BY <3>2 DEF World
    <3> QED
      BY <3>1, <3>2 DEF PutDeviceStep
  <2>3. UNCHANGED <<installed, endpoint, status, wallets, queue, links, dead, ui, dropped>>
    BY DEF PutDeviceStep
  <2> QED
    BY <2>1, <2>2, <2>3, <2>4 DEF World, wallets
<1> QED
  BY <1>6, <1>7

LEMMA LocalType == ASSUME World PROVE Local \subseteq Item
<1>1. \A w \in Wallet : tag[w] # 0 => tag[w] \in 1..MaxTag
  BY Bounds DEF World
<1> QED
  BY <1>1 DEF Local, Item, Tag

(* The queue of DELETEs, and the entries that go. *)
LEMMA QueueTypes ==
  ASSUME World, Typed, NEW t \in Thread,
         \/ SaveDevice(t) \/ SwitchBack(t) \/ FlushPendingDeletes(t) \/ Delete(t) \/ SetQueue(t)
         \/ EnqueueDelete(t) \/ ForgetWallet(t)
  PROVE  World' /\ Typed'
<1>1. CASE SaveDevice(t)
  <2>1. At(t, "saveDevice") /\ Here(t).e \in 0..MaxEndpoint
    BY <1>1, HereType, Fields DEF SaveDevice
  <2>2. Typed'
    BY <1>1, <2>1, ThenType, Tuples DEF SaveDevice
  <2>3. World'
    BY <1>1, <2>1 DEF World, SaveDevice, wallets, server
  <2> QED
    BY <2>2, <2>3
<1>2. CASE SwitchBack(t)
  <2>1. Typed'
    BY <1>2, ThenType, Tuples DEF SwitchBack
  <2>2. World'
    BY <1>2 DEF World, SwitchBack, wallets, server
  <2> QED
    BY <2>1, <2>2
<1>3. CASE FlushPendingDeletes(t)
  <2>1. [do |-> "delete", items |-> queue] \in Steps
    BY DeleteStep DEF World
  <2>2. Typed'
    BY <1>3, <2>1, ThenType, Tuples DEF FlushPendingDeletes
  <2>3. World'
    BY <1>3, FaultType DEF World, FlushPendingDeletes, device, wallets, server
  <2> QED
    BY <2>2, <2>3
<1>4. CASE Delete(t)
  <2>1. At(t, "delete") /\ Here(t).items \in Seq(Item) /\ Here(t).items # <<>>
    BY <1>4, HereType, Fields DEF Delete
  <2>2. Head(Here(t).items) \in Item /\ Tail(Here(t).items) \in Seq(Item)
    BY <2>1, Firsts
  <2>3. [do |-> "delete", items |-> Tail(Here(t).items)] \in Steps
    BY <2>2, DeleteStep
  <2>4. Typed'
    BY <1>4, <2>1, <2>3, ThenType, Tuples DEF Delete
  <2>5. queue' \in Seq(Item) /\ faults' \in 0..MaxFault /\ dropped' \subseteq Item /\ unsupported' \in BOOLEAN
    BY <1>4, <2>1, <2>2, FaultType, RefusedType DEF World, Delete
  <2>6. /\ known' \in BOOLEAN /\ target' \in 0..MaxEndpoint /\ links' \subseteq Tag /\ dead' \subseteq Endpoints
        /\ known' \/ (target' = 0 /\ links' = {} /\ dead' = {})
    <3>1. CASE Deleted(Head(Here(t).items))
      <4>1. CASE Head(Here(t).items) = TheDevice
        BY <3>1, <4>1, Bounds DEF Deleted, NoDevice
      <4>2. CASE Head(Here(t).items) # TheDevice
        BY <3>1, <4>2 DEF Deleted, World
      <4> QED
        BY <4>1, <4>2
    <3>2. CASE UNCHANGED server
      BY <3>2 DEF World, server
    <3> QED
      BY <1>4, <3>1, <3>2 DEF Delete
  <2>7. UNCHANGED <<installed, on, endpoint, status, wallets, sub, ui>>
    BY <1>4 DEF Delete
  <2>8. World'
    BY <2>5, <2>6, <2>7 DEF World, wallets
  <2> QED
    BY <2>4, <2>8
<1>5. CASE SetQueue(t)
  <2>1. Typed'
    BY <1>5, ThenType, Tuples DEF SetQueue
  <2>2. queue' \in Seq(Item) /\ faults' \in 0..MaxFault
    <3>1. <<>> \in Seq(Item)
      OBVIOUS
    <3> QED
      BY <1>5, <3>1, FaultType DEF World, SetQueue
  <2>3. World'
    BY <1>5, <2>2 DEF World, SetQueue, device, wallets, server
  <2> QED
    BY <2>1, <2>3
<1>6. CASE EnqueueDelete(t)
  <2>1. At(t, "enqueue") /\ Here(t).item \in Item
    BY <1>6, HereType, Fields DEF EnqueueDelete
  <2>2. Typed'
    BY <1>6, ThenType, Tuples DEF EnqueueDelete
  <2>5. ToSet(queue) \subseteq Item
    <3>1. queue \in Seq(Item)
      BY DEF World
    <3> QED
      BY <3>1, InSequence
  <2>6. <<Here(t).item>> \in Seq(Item)
    BY <2>1
  <2>7. queue \in Seq(Item) /\ Append(queue, Here(t).item) \in Seq(Item)
    BY <2>1, Appended DEF World
  <2>8. queue' \in {queue, Append(queue, Here(t).item), <<Here(t).item>>}
    BY <1>6 DEF EnqueueDelete
  <2>3. queue' \in Seq(Item) /\ faults' \in 0..MaxFault /\ dropped' \subseteq Item
    <3>1. queue' \in Seq(Item)
      BY <2>6, <2>7, <2>8
    <3>2. faults' \in 0..MaxFault /\ dropped' \subseteq Item
      BY <1>6, <2>1, <2>5, FaultType DEF EnqueueDelete, World
    <3> QED
      BY <3>1, <3>2
  <2>4. World'
    BY <1>6, <2>3 DEF World, EnqueueDelete, device, wallets, server
  <2> QED
    BY <2>2, <2>4
<1>7. CASE ForgetWallet(t)
  <2>1. At(t, "forget") /\ Here(t).w \in Wallet
    BY <1>7, HereType, Fields DEF ForgetWallet
  <2>2. Typed'
    BY <1>7, ThenType, Tuples DEF ForgetWallet
  <2>3. /\ tag' \in [Wallet -> 0..MaxTag] /\ registered' \subseteq {w \in Wallet : tag'[w] # 0}
        /\ faults' \in 0..MaxFault /\ dropped' \subseteq Item
    <3>1. 0 \in 0..MaxTag /\ faults' \in 0..MaxFault
      BY <1>7, Bounds, FaultType DEF World, ForgetWallet
    <3>2. CASE tag' = [tag EXCEPT ![Here(t).w] = 0] /\ registered' = registered \ {Here(t).w} /\ UNCHANGED dropped
      BY <2>1, <3>1, <3>2 DEF World
    <3>3. CASE UNCHANGED <<tag, registered, dropped>>
      BY <3>1, <3>3 DEF World
    <3>4. CASE /\ tag' = [v \in Wallet |-> 0] /\ registered' = {}
               /\ dropped' = dropped \union (Local \ {<<Here(t).w, tag[Here(t).w]>>})
      BY <3>1, <3>4, LocalType DEF World
    <3> QED
      BY <1>7, <3>2, <3>3, <3>4, <3>1 DEF ForgetWallet
  <2>4. World'
    BY <1>7, <2>3 DEF World, ForgetWallet, device, server
  <2> QED
    BY <2>2, <2>4
<1> QED
  BY <1>1, <1>2, <1>3, <1>4, <1>5, <1>6, <1>7

LEMMA RecoverType ==
  ASSUME World, Recover
  PROVE  known' = TRUE /\ target' \in 0..MaxEndpoint
  BY Bounds DEF World, Recover, HookTarget

LEMMA EntryWritten ==
  ASSUME World, NEW w \in Wallet, NEW n \in 1..MaxTag, NEW r, SetEntry(w, n, r)
  PROVE  /\ tag' \in [Wallet -> 0..MaxTag] /\ registered' \subseteq {v \in Wallet : tag'[v] # 0}
         /\ faults' \in 0..MaxFault /\ dropped' \subseteq Item
<1>0. n \in 0..MaxTag /\ n # 0 /\ <<w, n>> \in Item /\ 0 \in 0..MaxTag
  BY Bounds DEF Tag, Item
<1>1. CASE /\ tag' = [tag EXCEPT ![w] = n] /\ registered' \subseteq registered \cup {w}
           /\ UNCHANGED <<faults, dropped>>
  BY <1>0, <1>1 DEF World
<1>2. CASE Fault /\ dropped' = dropped \union {<<w, n>>} /\ UNCHANGED <<tag, registered>>
  BY <1>0, <1>2, FaultType DEF World
<1>3. CASE /\ Fault /\ tag' = [v \in Wallet |-> IF v = w THEN n ELSE 0] /\ registered' \subseteq {w}
           /\ dropped' = dropped \union (Local \ {<<w, n>>})
  <2>1. tag' \in [Wallet -> 0..MaxTag] /\ registered' \subseteq {v \in Wallet : tag'[v] # 0}
    BY <1>0, <1>3
  <2>2. faults' \in 0..MaxFault /\ dropped' \subseteq Item
    BY <1>3, FaultType, LocalType DEF World
  <2> QED
    BY <2>1, <2>2
<1> QED
  BY <1>1, <1>2, <1>3 DEF SetEntry

(* A wallet's entry, its link and its preferences. *)
LEMMA LinkTypes ==
  ASSUME World, Typed, NEW t \in Thread, ChooseTag(t) \/ PutWalletLink(t) \/ SetWallet(t) \/ Prefs(t)
  PROVE  World' /\ Typed'
<1>0. \A w \in Wallet : tag[w] \in 0..MaxTag /\ used[w] \in 0..MaxTag
                        /\ (tag[w] # 0 => tag[w] \in 1..MaxTag)
                        /\ (used[w] < MaxTag => used[w] + 1 \in 1..MaxTag /\ used[w] + 1 \in 0..MaxTag)
  BY Bounds DEF World
<1>1. CASE ChooseTag(t)
  <2>1. At(t, "choose") /\ Here(t).w \in Wallet
    BY <1>1, HereType, Fields DEF ChooseTag
  <2> DEFINE w == Here(t).w
             n == used[w] + 1
  <2>2. CASE tag[w] # 0 /\ Then(t, <<Link(w, tag[w], 0)>>) /\ UNCHANGED <<wallets, faults, dropped>>
    <3>1. Link(w, tag[w], 0) \in Steps
      BY <1>0, <2>1, <2>2, LinkStep
    <3>2. Typed'
      BY <2>1, <2>2, <3>1, ThenType, Tuples
    <3>3. World'
      BY <1>1, <2>2 DEF World, ChooseTag, device, wallets, server
    <3> QED
      BY <3>2, <3>3
  <2>3. CASE n <= MaxTag /\ used' = [used EXCEPT ![w] = n] /\ Then(t, <<Link(w, n, 0)>>)
    <3>0. n \in 1..MaxTag /\ n \in 0..MaxTag /\ n # 0
      BY <1>0, <2>1, <2>3, Bounds DEF World
    <3>1. Link(w, n, 0) \in Steps
      BY <2>1, <3>0, LinkStep
    <3> HIDE DEF n
    <3>2. Typed'
      BY <2>1, <2>3, <3>1, ThenType, Tuples
    <3>3. used' \in [Wallet -> 0..MaxTag]
      BY <2>1, <2>3, <3>0 DEF World
    <3>4. /\ tag' \in [Wallet -> 0..MaxTag] /\ registered' \subseteq {v \in Wallet : tag'[v] # 0}
          /\ faults' \in 0..MaxFault /\ dropped' \subseteq Item
      <4>1. CASE SetEntry(w, n, FALSE)
        BY <2>1, <3>0, <4>1, EntryWritten
      <4>2. CASE /\ tag[w] # 0 /\ Fault /\ tag' = [tag EXCEPT ![w] = n] /\ registered' = registered \ {w}
                 /\ dropped' = dropped \union {<<w, tag[w]>>}
        <5>1. <<w, tag[w]>> \in Item
          BY <1>0, <2>1, <4>2 DEF Item, Tag
        <5> QED
          BY <2>1, <3>0, <4>2, <5>1, FaultType DEF World
      <4>3. \/ SetEntry(w, n, FALSE)
            \/ /\ tag[w] # 0 /\ Fault /\ tag' = [tag EXCEPT ![w] = n] /\ registered' = registered \ {w}
               /\ dropped' = dropped \union {<<w, tag[w]>>}
            \/ UNCHANGED <<wallets, faults, dropped>>
        BY <1>1 DEF ChooseTag, n
      <4> QED
        BY <4>1, <4>2, <4>3 DEF World, wallets
    <3>5. World'
      BY <1>1, <3>3, <3>4 DEF World, ChooseTag, device, server
    <3> QED
      BY <3>2, <3>5
  <2>4. CASE Throw(t) /\ UNCHANGED <<wallets, faults, dropped>>
    <3>1. Typed'
      BY <2>1, <2>4, ThrowType
    <3>2. World'
      BY <1>1, <2>4 DEF World, ChooseTag, device, wallets, server
    <3> QED
      BY <3>1, <3>2
  <2> QED
    BY <1>1, <2>2, <2>3, <2>4 DEF ChooseTag
<1>2. CASE PutWalletLink(t)
  <2> DEFINE s == Here(t)
  <2>1. At(t, "link") /\ s.w \in Wallet /\ s.n \in 1..MaxTag /\ <<s.w, s.n>> \in Tag
    BY <1>2, HereType, Fields DEF PutWalletLink, Tag
  <2>2. Save(s.w, s.n, TRUE) \in Steps
    BY <2>1 DEF Steps, Save
  <2>3. /\ faults' \in 0..MaxFault /\ known' \in BOOLEAN /\ target' \in 0..MaxEndpoint /\ links' \subseteq Tag
        /\ unsupported' \in BOOLEAN
    BY <1>2, <2>1, FaultType, RefusedType, RecoverType DEF World, PutWalletLink
  <2>4. known' \/ (target' = 0 /\ links' = {} /\ dead' = {})
    <3>1. CASE Recover
      BY <3>1, RecoverType
    <3>2. CASE UNCHANGED <<known, target, links, dead>>
      BY <3>2 DEF World
    <3> QED
      BY <1>2, <3>1, <3>2 DEF PutWalletLink
  <2>5. CASE Then(t, <<Save(s.w, s.n, TRUE)>>) /\ UNCHANGED wallets
    <3>1. Typed'
      BY <2>1, <2>2, <2>5, ThenType, Tuples
    <3>2. World'
      BY <1>2, <2>3, <2>4, <2>5 DEF World, PutWalletLink, wallets
    <3> QED
      BY <3>1, <3>2
  <2>6. CASE (Then(t, <<>>) \/ Deferred(t)) /\ UNCHANGED wallets
    <3>1. Typed'
      BY <2>1, <2>6, ThenType, DeferredType, Tuples
    <3>2. World'
      BY <1>2, <2>3, <2>4, <2>6 DEF World, PutWalletLink, wallets
    <3> QED
      BY <3>1, <3>2
  <2>7. CASE /\ used[s.w] < MaxTag
             /\ used' = [used EXCEPT ![s.w] = @ + 1]
             /\ tag' = [tag EXCEPT ![s.w] = used[s.w] + 1]
             /\ Then(t, <<Link(s.w, used[s.w] + 1, 1)>>)
             /\ UNCHANGED registered
    <3>1. Link(s.w, used[s.w] + 1, 1) \in Steps
      BY <1>0, <2>1, <2>7, LinkStep
    <3>2. Typed'
      BY <2>1, <2>7, <3>1, ThenType, Tuples
    <3>3. tag' \in [Wallet -> 0..MaxTag] /\ used' \in [Wallet -> 0..MaxTag]
          /\ registered' \subseteq {w \in Wallet : tag'[w] # 0}
      BY <1>0, <2>1, <2>7, Bounds DEF World
    <3>4. World'
      BY <1>2, <2>3, <2>4, <3>3 DEF World, PutWalletLink
    <3> QED
      BY <3>2, <3>4
  <2> QED
    BY <1>2, <2>5, <2>6, <2>7 DEF PutWalletLink
<1>3. CASE SetWallet(t)
  <2>1. At(t, "save") /\ Here(t).w \in Wallet /\ Here(t).n \in 1..MaxTag
    BY <1>3, HereType, Fields DEF SetWallet
  <2>2. Typed'
    BY <1>3, <2>1, ThenType, Tuples DEF SetWallet
  <2>3. /\ tag' \in [Wallet -> 0..MaxTag] /\ registered' \subseteq {v \in Wallet : tag'[v] # 0}
        /\ faults' \in 0..MaxFault /\ dropped' \subseteq Item
    BY <1>3, <2>1, EntryWritten DEF SetWallet
  <2>4. World'
    BY <1>3, <2>3 DEF World, SetWallet, device, server
  <2> QED
    BY <2>2, <2>4
<1>4. CASE Prefs(t)
  <2> DEFINE s == Here(t)
             there == <<s.w, s.n>> \in links
  <2>1. At(t, "prefs") /\ s.w \in Wallet /\ s.n \in 1..MaxTag
    BY <1>4, HereType, Fields DEF Prefs
  <2>2. Save(s.w, s.n, there) \in Steps
    <3>1. there \in BOOLEAN
      OBVIOUS
    <3> HIDE DEF there
    <3> QED
      BY <2>1, <3>1, SaveStep
  <2>3. <<Save(s.w, s.n, there)>> \in Seq(Steps)
    BY <2>2, Tuples
  <2>4. Typed'
    BY <1>4, <2>1, <2>3, ThenType, Tuples DEF Prefs
  <2>5. faults' \in 0..MaxFault /\ known' \in BOOLEAN /\ target' \in 0..MaxEndpoint /\ unsupported' \in BOOLEAN
    BY <1>4, FaultType, RefusedType, RecoverType DEF World, Prefs
  <2>6. known' \/ (target' = 0 /\ links' = {} /\ dead' = {})
    <3>1. CASE Recover
      BY <3>1, RecoverType
    <3>2. CASE UNCHANGED <<known, target, links, dead>>
      BY <3>2 DEF World
    <3> QED
      BY <1>4, <3>1, <3>2 DEF Prefs
  <2>7. World'
    BY <1>4, <2>5, <2>6 DEF World, Prefs, wallets
  <2> QED
    BY <2>4, <2>7
<1> QED
  BY <1>1, <1>2, <1>3, <1>4

(* The switch goes off, the wallet goes. *)
LEMMA SwitchTypes ==
  ASSUME World, Typed, NEW t \in Thread,
         LastOne(t) \/ SwitchOffStep(t) \/ UnsubscribeStep(t) \/ Uninstall(t)
  PROVE  World' /\ Typed'
<1>1. CASE LastOne(t)
  <2>1. TheDevice \in Item
    BY DEF Item
  <2>2. <<Enqueue(TheDevice), [do |-> "switchOff"], Unsubscribe>> \in Seq(Steps)
    BY <2>1, EnqueueStep, Plain, Tuples
  <2>3. Typed'
    BY <1>1, <2>2, ThenType, Tuples DEF LastOne
  <2>4. World'
    BY <1>1, FaultType DEF World, LastOne, device, wallets, server
  <2> QED
    BY <2>3, <2>4
<1>2. CASE SwitchOffStep(t)
  <2>1. Typed'
    BY <1>2, ThenType, Tuples DEF SwitchOffStep
  <2>2. on' \in BOOLEAN /\ status' = "none" /\ endpoint' \in 0..MaxEndpoint
    BY <1>2, Bounds DEF SwitchOffStep, SwitchOff
  <2>3. World'
    BY <1>2, <2>2 DEF World, SwitchOffStep, wallets, server
  <2> QED
    BY <2>1, <2>3
<1>3. CASE UnsubscribeStep(t)
  <2>1. Typed'
    BY <1>3, ThenType, Tuples DEF UnsubscribeStep
  <2>2. World'
    BY <1>3, FaultType, Bounds DEF World, UnsubscribeStep, device, wallets, server
  <2> QED
    BY <2>1, <2>2
<1>4. CASE Uninstall(t)
  <2>1. Typed'
    BY <1>4, ThenType, Tuples DEF Uninstall
  <2>2. World'
    BY <1>4 DEF World, Uninstall, device, wallets, server
  <2> QED
    BY <2>1, <2>2
<1> QED
  BY <1>1, <1>2, <1>3, <1>4

(* GET /device and what it leads to. *)
LEMMA CheckTypes ==
  ASSUME World, Typed, NEW t \in Thread,
         CheckDevice(t) \/ Renew(t) \/ Resend(t) \/ Keep(t) \/ GetDevice(t)
  PROVE  World' /\ Typed'
<1>1. CASE CheckDevice(t)
  <2>1. At(t, "check") /\ Here(t).endpoint \in 0..MaxEndpoint
    BY <1>1, HereType, Fields DEF CheckDevice
  <2>2. <<Register(FALSE), Reconcile({}, "keep"), Flush>> \in Seq(Steps)
    BY RegisterStep, ReconcileSteps, Plain, Tuples
  <2>3. <<Register(TRUE), Get(FALSE, FALSE), Flush>> \in Seq(Steps)
    BY RegisterStep, GetStep, Plain, Tuples
  <2> DEFINE st == IF target = 0 THEN "none" ELSE "active"
             c  == [do |-> "compare", endpoint |-> Here(t).endpoint, links |-> links, status |-> st]
  <2>4. st \in {"none", "active"}
    OBVIOUS
  <2>5. c \in Steps
    BY <2>1, <2>4, CompareStep DEF World
  <2>6. <<[do |-> "config"], c>> \in Seq(Steps)
    BY <2>5, Plain, Tuples
  <2>7. Typed'
    BY <1>1, <2>1, <2>2, <2>3, <2>6, ThenType, ThrowType DEF CheckDevice
  <2>8. World'
    BY <1>1, FaultType, RefusedType DEF World, CheckDevice, wallets, server
  <2> QED
    BY <2>7, <2>8
<1>2. CASE Renew(t)
  <2>1. <<Register(sub # 0), Get(FALSE, TRUE), Flush>> \in Seq(Steps)
    <3>1. Register(sub # 0) \in Steps
      BY RegisterStep
    <3> QED
      BY <3>1, GetStep, Plain, Tuples
  <2>2. Typed'
    BY <1>2, <2>1, ThenType DEF Renew
  <2>3. World'
    BY <1>2, FaultType DEF World, Renew, device, wallets, server
  <2> QED
    BY <2>2, <2>3
<1>3. CASE Resend(t)
  <2>1. <<PutDevice(sub, 1, "resend"), Flush>> \in Seq(Steps)
    BY PutStep, Plain, Tuples DEF World
  <2>2. Typed'
    BY <1>3, <2>1, ThenType DEF Resend, Unchanged
  <2>3. World'
    BY <1>3 DEF World, Resend, device, wallets, server
  <2> QED
    BY <2>2, <2>3
<1>4. CASE Keep(t)
  <2>1. Here(t).links \subseteq Tag /\ Here(t).status \in {"keep", "none", "active"}
    BY <1>4, HereType, Fields DEF Keep, Unchanged
  <2>2. <<Reconcile(Here(t).links, Here(t).status), Flush>> \in Seq(Steps)
    BY <2>1, ReconcileSteps, Plain, Tuples
  <2>3. Typed'
    BY <1>4, <2>2, ThenType DEF Keep, Unchanged
  <2>4. World'
    BY <1>4 DEF World, Keep, device, wallets, server
  <2> QED
    BY <2>3, <2>4
<1>5. CASE GetDevice(t)
  <2> DEFINE st == IF ~Here(t).sets THEN "keep" ELSE IF target = 0 THEN "none" ELSE "active"
  <2>1. st \in {"keep", "none", "active"}
    OBVIOUS
  <2>2. <<Reconcile(links, st)>> \in Seq(Steps) /\ <<Reconcile({}, "keep")>> \in Seq(Steps)
    BY <2>1, ReconcileSteps, Tuples DEF World
  <2>3. Typed'
    BY <1>5, <2>2, ThenType, ThrowType DEF GetDevice
  <2>4. World'
    BY <1>5, FaultType, RefusedType DEF World, GetDevice, wallets, server
  <2> QED
    BY <2>3, <2>4
<1> QED
  BY <1>1, <1>2, <1>3, <1>4, <1>5

(* What a comparison finds, as sets of tags. *)
LEMMA PlanType ==
  ASSUME World, NEW W, W \subseteq registered
  PROVE  {<<w, tag[w]>> : w \in W} \subseteq Tag
<1>1. ASSUME NEW w \in W PROVE <<w, tag[w]>> \in Tag
  <2>1. w \in Wallet /\ tag[w] # 0 /\ tag[w] \in 0..MaxTag
    BY DEF World
  <2> QED
    BY <2>1, Bounds DEF Tag
<1> QED
  BY <1>1

LEMMA ReconcileTypes ==
  ASSUME World, Typed, NEW t \in Thread, ReconcileStep(t) \/ ForEach(t)
  PROVE  World' /\ Typed'
<1>1. CASE ReconcileStep(t)
  <2> DEFINE s == Here(t)
             gone == {l \in s.links : l \notin Local \/ l[1] \notin installed}
             Tags(W) == {<<w, tag[w]>> : w \in W}
  <2>1. At(t, "reconcile") /\ s.links \subseteq Tag /\ s.status \in {"keep", "none", "active"}
    BY <1>1, HereType, Fields DEF ReconcileStep
  <2>2. ASSUME NEW grown \in {{}} \cup {{w} : w \in registered \cap installed}
        PROVE  Each(gone \ Local, gone \cap Local, {})
                 \o Each({}, Tags(registered \ installed), Tags(ToPut(s.links, grown))) \in Seq(Steps)
    <3>1. ToPut(s.links, grown) \subseteq registered
      BY <2>2 DEF ToPut
    <3>2. Tags(registered \ installed) \subseteq Tag /\ Tags(ToPut(s.links, grown)) \subseteq Tag
      BY <3>1, PlanType
    <3>3. gone \ Local \in SUBSET Tag /\ gone \cap Local \in SUBSET Tag /\ {} \in SUBSET Tag
      BY <2>1
    <3>4. Each(gone \ Local, gone \cap Local, {}) \in Seq(Steps)
      BY <3>3, EachType
    <3>5. Each({}, Tags(registered \ installed), Tags(ToPut(s.links, grown))) \in Seq(Steps)
      BY <3>2, <3>3, EachType
    <3> QED
      BY <3>4, <3>5, Joined
  <2>3. Each(s.links, {}, {}) \in Seq(Steps)
    BY <2>1, EachType
  <2>4. \/ Then(t, Each(s.links, {}, {}))
        \/ \E grown \in {{}} \cup {{w} : w \in registered \cap installed} :
              Then(t, Each(gone \ Local, gone \cap Local, {})
                      \o Each({}, Tags(registered \ installed), Tags(ToPut(s.links, grown))))
    BY <1>1 DEF ReconcileStep
  <2>5. Typed'
    BY <2>1, <2>2, <2>3, <2>4, ThenType
  <2>6. World'
    BY <1>1, <2>1, FaultType DEF World, ReconcileStep, wallets, server
  <2> QED
    BY <2>5, <2>6
<1>2. CASE ForEach(t)
  <2> DEFINE s == Here(t)
  <2>1. At(t, "each") /\ s.queue \subseteq Tag /\ s.unlink \subseteq Tag /\ s.link \subseteq Tag
    BY <1>2, HereType, Fields DEF ForEach
  <2>2. ASSUME NEW l \in s.queue PROVE <<Enqueue(l)>> \o Each(s.queue \ {l}, s.unlink, s.link) \in Seq(Steps)
    <3>1. Enqueue(l) \in Steps
      BY <2>1, EnqueueStep DEF Item
    <3>2. Each(s.queue \ {l}, s.unlink, s.link) \in Seq(Steps)
      BY <2>1, EachType
    <3> QED
      BY <3>1, <3>2, Tuples, Joined
  <2>3. ASSUME NEW l \in s.unlink PROVE Unlink(l) \o Each(s.queue, s.unlink \ {l}, s.link) \in Seq(Steps)
    <3>1. Unlink(l) \in Seq(Steps)
      BY <2>1, UnlinkType
    <3>2. Each(s.queue, s.unlink \ {l}, s.link) \in Seq(Steps)
      BY <2>1, EachType
    <3> QED
      BY <3>1, <3>2, Joined
  <2>4. ASSUME NEW l \in s.link
        PROVE <<Link(l[1], l[2], 0)>> \o Each(s.queue, s.unlink, s.link \ {l}) \in Seq(Steps)
    <3>1. Link(l[1], l[2], 0) \in Steps
      BY <2>1, LinkStep DEF Tag
    <3>2. Each(s.queue, s.unlink, s.link \ {l}) \in Seq(Steps)
      BY <2>1, EachType
    <3> QED
      BY <3>1, <3>2, Tuples, Joined
  <2>5. Typed'
    BY <1>2, <2>1, <2>2, <2>3, <2>4, ThenType DEF ForEach
  <2>6. World'
    BY <1>2 DEF World, ForEach, device, wallets, server
  <2> QED
    BY <2>5, <2>6
<1> QED
  BY <1>1, <1>2

LEMMA NextWorld == ASSUME TypeOK, [Next]_vars PROVE World' /\ Typed'
<1>0. World /\ Typed
  BY Both
<1>1. ASSUME NEW t \in Thread, Starts(t) \/ Reassert(t) PROVE World' /\ Typed'
  BY <1>1, StartsType
<1>2. ASSUME NEW t \in Thread, Step(t) PROVE World' /\ Typed'
  <2>1. World' /\ Typed'
    BY <1>0, <1>2, RegisterTypes, PutDeviceTypes, QueueTypes, LinkTypes, SwitchTypes, CheckTypes, ReconcileTypes DEF Step
  <2> QED
    BY <2>1
<1>3. CASE WorkerKilled
  <2>1. Typed' /\ installed' \subseteq Wallet
    BY <1>0, <1>3 DEF WorkerKilled, Typed, World, Idle, Kinds
  <2>2. World'
    BY <1>0, <1>3, <2>1, FaultType DEF WorkerKilled, World, device, wallets, server
  <2> QED
    BY <2>1, <2>2
<1>4. CASE ServerForgets
  <2>1. World' /\ Typed'
    BY <1>0, <1>4, FaultType, Bounds DEF ServerForgets, NoDevice, World, Typed, device, wallets
  <2> QED
    BY <2>1
<1>5. CASE TargetDies
  <2>1. target # 0 /\ target \in Endpoints
    BY <1>0, <1>5 DEF TargetDies, Endpoints, World
  <2>2. known
    BY <1>0, <2>1 DEF World
  <2>3. World' /\ Typed'
    BY <1>0, <1>5, <2>1, <2>2, FaultType DEF TargetDies, World, Typed, device, wallets
  <2> QED
    BY <2>3
<1>6. CASE SubscriptionLost
  <2>1. World' /\ Typed'
    BY <1>0, <1>6, FaultType, Bounds DEF SubscriptionLost, World, Typed, device, wallets, server
  <2> QED
    BY <2>1
<1>7. CASE UNCHANGED vars
  <2>1. World' /\ Typed'
    BY <1>0, <1>7 DEF vars, state, World, Typed, device, wallets, server
  <2> QED
    BY <2>1
<1> QED
  BY <1>1, <1>2, <1>3, <1>4, <1>5, <1>6, <1>7 DEF Next

LEMMA NextType == ASSUME TypeOK, [Next]_vars PROVE TypeOK'
<1>1. late' \subseteq Thread
  BY DEF Next, Late, vars, TypeOK
<1> QED
  BY <1>1, NextWorld, BothPrimed

LEMMA InitType == Init => TypeOK
<1> SUFFICES ASSUME Init PROVE TypeOK
  OBVIOUS
<1>1. Typed
  BY Tuples DEF Init, Typed, Idle, Kinds
<1>2. World
  <2>1. /\ on \in BOOLEAN /\ endpoint = 0 /\ status = "none" /\ sub = 0 /\ known \in BOOLEAN /\ target = 0
        /\ links = {} /\ dead = {} /\ dropped = {} /\ installed = Wallet /\ unsupported \in BOOLEAN
    BY DEF Init
  <2>2. ui \in 0..MaxUi /\ faults \in 0..MaxFault /\ queue \in Seq(Item)
    BY Bounds DEF Init
  <2>3. tag \in [Wallet -> 0..MaxTag] /\ used \in [Wallet -> 0..MaxTag] /\ registered = {}
    BY Bounds DEF Init
  <2> QED
    BY <2>1, <2>2, <2>3, Bounds DEF World
<1>3. late \subseteq Thread
  BY DEF Init
<1> QED
  BY <1>1, <1>2, <1>3, Both

(* The state keeps its types, whatever the operations and the server do. *)
THEOREM LinksTyped == Spec => []TypeOK
  BY InitType, NextType, PTL DEF Spec

-----------------------------------------------------------------------------
(* The switch.  A step that needs it was planned while it was on; an operation stays one of those *)
(* that another overtook (late) until it ends.                                                 *)
Heeds(todo, is) ==
    /\ \A i \in 1..Len(todo) : /\ NeedsOn(todo[i]) => is
                               /\ todo[i].do = "putDevice" /\ todo[i].how = "off" => todo[i].e = 0
    /\ \A i, j \in 1..Len(todo) : i < j /\ Switches(todo[i]) => ~NeedsOn(todo[j])
AllHeed == \A t \in Thread : Heeds(ops[t].todo, on \/ t \in late)
SwitchInv == World /\ Typed /\ late \subseteq Thread /\ AllHeed

(* What a step that takes the place of another must be. *)
Heir(s, head) ==
    /\ NeedsOn(s) => ~Switches(head) /\ (on \/ NeedsOn(head))
    /\ s.do = "putDevice" /\ s.how = "off" => s.e = 0
    /\ Switches(s) => Switches(head)
Heirs(m, head) == \A i \in 1..Len(m) : Heir(m[i], head)

(* The steps that need no switch and do not turn it off. *)
Modest == {"flush", "drained", "config", "unsubscribe", "register", "saveDevice", "delete", "enqueue", "forget",
           "choose", "uninstall", "link", "save", "prefs", "reconcile", "get", "each"}
LEMMA ModestHeir == ASSUME NEW s, s.do \in Modest, NEW head PROVE Heir(s, head)
  BY DEF Modest, Heir, NeedsOn, Switches

LEMMA HeirLists ==
  ASSUME NEW head
  PROVE  /\ Heirs(<<>>, head)
         /\ \A a : Heir(a, head) => Heirs(<<a>>, head)
         /\ \A a, b : Heir(a, head) /\ Heir(b, head) => Heirs(<<a, b>>, head)
         /\ \A a, b, c : Heir(a, head) /\ Heir(b, head) /\ Heir(c, head) => Heirs(<<a, b, c>>, head)
         /\ \A a, b, c, d : Heir(a, head) /\ Heir(b, head) /\ Heir(c, head) /\ Heir(d, head)
                              => Heirs(<<a, b, c, d>>, head)
  BY DEF Heirs

LEMMA HeirsJoin ==
  ASSUME NEW head, NEW m \in Seq(Steps), NEW n \in Seq(Steps), Heirs(m, head), Heirs(n, head)
  PROVE  Heirs(m \o n, head)
<1>1. /\ Len(m \o n) = Len(m) + Len(n) /\ Len(m) \in Nat /\ Len(n) \in Nat
      /\ \A i \in 1..Len(m) : (m \o n)[i] = m[i]
      /\ \A i \in 1..Len(m \o n) : i > Len(m) => (m \o n)[i] = n[i - Len(m)]
  OBVIOUS
<1> QED
  BY <1>1 DEF Heirs

LEMMA EachHeirs == ASSUME NEW q, NEW u, NEW l, NEW head PROVE Heirs(Each(q, u, l), head)
<1>1. ASSUME NEW s, s.do = "each" PROVE Heir(s, head)
  BY <1>1, ModestHeir DEF Modest
<1> QED
  BY <1>1, HeirLists DEF Each

(* The list after a step: its heirs, then what was left. *)
LEMMA HeedsOn ==
  ASSUME NEW td \in Seq(Steps), td # <<>>, NEW m \in Seq(Steps), NEW is \in BOOLEAN, NEW now \in BOOLEAN,
         Heeds(td, is), Heirs(m, td[1]), is => now \/ Switches(td[1]),
         on => now \/ Switches(td[1])
  PROVE  Heeds(m \o Tail(td), now)
<1> DEFINE r == m \o Tail(td)
<1>1. /\ r \in Seq(Steps) /\ Len(r) = Len(m) + Len(td) - 1
      /\ \A i \in 1..Len(m) : r[i] = m[i]
      /\ \A i \in 1..Len(r) : i > Len(m) => i - Len(m) + 1 \in 2..Len(td) /\ r[i] = td[i - Len(m) + 1]
  BY Spliced
<1> HIDE DEF r
<1>2. /\ Len(m) \in Nat /\ Len(td) \in Nat /\ Len(td) >= 1 /\ 1 \in 1..Len(td)
      /\ Len(r) \in Nat /\ Len(r) = Len(m) + Len(td) - 1
  BY <1>1
<1>3. \A j \in 2..Len(td) : j \in 1..Len(td) /\ (Switches(td[1]) => ~NeedsOn(td[j]))
  BY <1>2 DEF Heeds
<1>4. NeedsOn(td[1]) => is
  BY <1>2 DEF Heeds
<1>5. ASSUME NEW i \in 1..Len(r)
      PROVE  /\ NeedsOn(r[i]) => now
             /\ r[i].do = "putDevice" /\ r[i].how = "off" => r[i].e = 0
  <2>1. CASE i <= Len(m)
    <3>1. i \in 1..Len(m) /\ r[i] = m[i] /\ Heir(m[i], td[1])
      BY <1>1, <1>2, <2>1 DEF Heirs
    <3> QED
      BY <1>4, <3>1 DEF Heir
  <2>2. CASE i > Len(m)
    <3>1. i - Len(m) + 1 \in 2..Len(td) /\ r[i] = td[i - Len(m) + 1]
      BY <1>1, <2>2
    <3>2. i - Len(m) + 1 \in 1..Len(td) /\ (Switches(td[1]) => ~NeedsOn(td[i - Len(m) + 1]))
      BY <1>3, <3>1
    <3> QED
      BY <3>1, <3>2 DEF Heeds
  <2> QED
    BY <1>2, <2>1, <2>2
<1>6. ASSUME NEW i \in 1..Len(r), NEW j \in 1..Len(r), i < j, Switches(r[i]) PROVE ~NeedsOn(r[j])
  <2>1. CASE i <= Len(m)
    <3>1. i \in 1..Len(m) /\ r[i] = m[i] /\ Heir(m[i], td[1])
      BY <1>1, <1>2, <2>1 DEF Heirs
    <3>2. Switches(td[1])
      BY <1>6, <3>1 DEF Heir
    <3>3. CASE j <= Len(m)
      <4>1. j \in 1..Len(m) /\ r[j] = m[j] /\ Heir(m[j], td[1])
        BY <1>1, <1>2, <3>3 DEF Heirs
      <4> QED
        BY <3>2, <4>1 DEF Heir
    <3>4. CASE j > Len(m)
      <4>1. j - Len(m) + 1 \in 2..Len(td) /\ r[j] = td[j - Len(m) + 1]
        BY <1>1, <3>4
      <4> QED
        BY <1>3, <3>2, <4>1
    <3> QED
      BY <1>2, <3>3, <3>4
  <2>2. CASE i > Len(m)
    <3>0. j > Len(m)
      BY <1>2, <1>6, <2>2
    <3>1. /\ i - Len(m) + 1 \in 2..Len(td) /\ r[i] = td[i - Len(m) + 1]
          /\ j - Len(m) + 1 \in 2..Len(td) /\ r[j] = td[j - Len(m) + 1]
      BY <1>1, <2>2, <3>0
    <3>2. i - Len(m) + 1 \in 1..Len(td) /\ j - Len(m) + 1 \in 1..Len(td) /\ i - Len(m) + 1 < j - Len(m) + 1
      <4>1. i \in Nat /\ j \in Nat
        BY <1>2
      <4> QED
        BY <1>2, <1>3, <1>6, <3>1, <4>1
    <3> QED
      BY <1>6, <3>1, <3>2 DEF Heeds
  <2> QED
    BY <1>2, <2>1, <2>2
<1>7. Heeds(r, now)
  BY <1>5, <1>6 DEF Heeds
<1> QED
  BY <1>7 DEF r

LEMMA HeedsLess ==
  ASSUME NEW is
  PROVE  Heeds(<<>>, is) /\ Heeds(<<Flush>>, is) /\ Heeds(<<[do |-> "switchBack"]>>, is)
  BY DEF Heeds, Flush, NeedsOn

(* Whoever is not stepping goes on as before, or was overtaken. *)
LEMMA OthersHeed ==
  ASSUME AllHeed, late' = Late, NEW t \in Thread, \A u \in Thread \ {t} : ops'[u] = ops[u],
         Heeds(ops'[t].todo, on' \/ t \in late')
  PROVE  AllHeed'
<1> SUFFICES ASSUME NEW u \in Thread, u # t PROVE Heeds(ops'[u].todo, on' \/ u \in late')
  BY DEF AllHeed
<1>1. Heeds(ops[u].todo, on \/ u \in late) /\ ops'[u] = ops[u]
  BY DEF AllHeed
<1>2. CASE ops[u].todo = <<>>
  BY <1>1, <1>2, HeedsLess
<1>3. CASE ops[u].todo # <<>>
  <2>1. on \/ u \in late => on' \/ u \in late'
    BY <1>1, <1>3 DEF Late
  <2> QED
    BY <1>1, <2>1 DEF Heeds
<1> QED
  BY <1>2, <1>3

LEMMA OnlyOwn ==
  ASSUME Typed, NEW t \in Thread, NEW s, ToDo(t, s)
  PROVE  \A u \in Thread \ {t} : ops'[u] = ops[u]
  BY DEF Typed, ToDo

LEMMA ThenHeeds ==
  ASSUME SwitchInv, late' = Late, on' \in BOOLEAN, NEW t \in Thread, NEW name, At(t, name),
         NEW m \in Seq(Steps), Then(t, m), Heirs(m, Here(t)), on => on' \/ Switches(Here(t))
  PROVE  AllHeed'
<1> DEFINE td == ops[t].todo
<1>0. Typed /\ AllHeed /\ on \in BOOLEAN
  BY DEF SwitchInv, World
<1>1. td \in Seq(Steps) /\ td # <<>> /\ Here(t) = td[1]
  BY <1>0, HereType
<1>2. ops'[t].todo = m \o Tail(td)
  BY <1>0, ThenType
<1>3. \A u \in Thread \ {t} : ops'[u] = ops[u]
  BY <1>0, OnlyOwn DEF Then
<1>4. Heeds(td, on \/ t \in late)
  BY <1>0 DEF AllHeed
<1> HIDE DEF td
<1>5. CASE ops'[t].todo = <<>>
  BY <1>0, <1>3, <1>5, HeedsLess, OthersHeed
<1>6. CASE ops'[t].todo # <<>>
  <2>1. t \in late => t \in late'
    BY <1>6 DEF Late
  <2>2. (on \/ t \in late) \in BOOLEAN /\ (on' \/ t \in late') \in BOOLEAN
    OBVIOUS
  <2>3. /\ (on \/ t \in late) => (on' \/ t \in late') \/ Switches(td[1])
        /\ on => (on' \/ t \in late') \/ Switches(td[1])
    BY <1>1, <2>1
  <2>4. Heeds(m \o Tail(td), on' \/ t \in late')
    BY <1>1, <1>4, <2>2, <2>3, HeedsOn
  <2> QED
    BY <1>0, <1>2, <1>3, <2>4, OthersHeed
<1> QED
  BY <1>5, <1>6

(* An operation that stops keeps a step at most. *)
LEMMA EndHeeds ==
  ASSUME SwitchInv, late' = Late, NEW t \in Thread,
         Throw(t) \/ Deferred(t) \/ \E r : Stop(t, r)
  PROVE  AllHeed'
<1>0. Typed /\ AllHeed
  BY DEF SwitchInv
<1>1. ops'[t].todo \in {<<>>, <<[do |-> "switchBack"]>>, <<Flush>>}
  BY <1>0, ThrowType, DeferredType, StopType
<1>2. \A u \in Thread \ {t} : ops'[u] = ops[u]
  BY <1>0, OnlyOwn DEF Throw, Deferred, Stop
<1>3. Heeds(ops'[t].todo, on' \/ t \in late')
  BY <1>1, HeedsLess
<1> QED
  BY <1>0, <1>2, <1>3, OthersHeed

LEMMA DoneHeeds ==
  ASSUME SwitchInv, late' = Late, on' \in BOOLEAN, NEW t \in Thread, NEW name, At(t, name),
         Then(t, <<>>), on => on' \/ Switches(Here(t))
  PROVE  AllHeed'
<1>1. <<>> \in Seq(Steps) /\ Heirs(<<>>, Here(t))
  BY HeirLists
<1> QED
  BY <1>1, ThenHeeds

(* The steps, one by one. *)
LEMMA RegisterHeeds ==
  ASSUME SwitchInv, late' = Late, on' \in BOOLEAN, NEW t \in Thread,
         \/ RegisterDevice(t) \/ Drained(t) \/ UsableConfig(t) \/ Subscribe(t) \/ FreshSubscription(t)
  PROVE  AllHeed'
<1>0. Typed /\ World
  BY DEF SwitchInv
<1>1. CASE RegisterDevice(t)
  <2>1. At(t, "register") /\ Here(t).do = "register" /\ Here(t).replace \in BOOLEAN
    BY <1>0, <1>1, HereType, Fields DEF RegisterDevice
  <2> DEFINE m == <<Flush, [do |-> "drained"], [do |-> "config"], SubscribeStep(Here(t).replace, 0)>>
  <2>2. CASE on /\ on' = on /\ Then(t, m)
    <3>1. m \in Seq(Steps)
      BY <2>1, SubscribeSteps, Plain, Tuples
    <3>2. Heirs(m, Here(t))
      <4>1. Heir(SubscribeStep(Here(t).replace, 0), Here(t))
        BY <2>1, <2>2 DEF Heir, SubscribeStep, Switches
      <4>2. Heir(Flush, Here(t)) /\ Heir([do |-> "drained"], Here(t)) /\ Heir([do |-> "config"], Here(t))
        BY ModestHeir DEF Modest, Flush
      <4> QED
        BY <4>1, <4>2, HeirLists
    <3> HIDE DEF m
    <3> QED
      BY <2>1, <2>2, <3>1, <3>2, ThenHeeds
  <2>3. CASE Stop(t, "unavailable")
    BY <2>3, EndHeeds
  <2> QED
    BY <1>1, <2>2, <2>3 DEF RegisterDevice, device
<1>2. CASE Drained(t)
  <2>1. At(t, "drained") /\ on' = on /\ (Then(t, <<>>) \/ Stop(t, "error"))
    BY <1>2 DEF Drained, device
  <2> QED
    BY <2>1, DoneHeeds, EndHeeds
<1>3. CASE UsableConfig(t)
  <2>1. At(t, "config") /\ on' = on /\ (Then(t, <<>>) \/ Throw(t) \/ Stop(t, "unavailable"))
    BY <1>3 DEF UsableConfig
  <2> QED
    BY <2>1, DoneHeeds, EndHeeds
<1>4. CASE Subscribe(t)
  <2>1. /\ At(t, "subscribe") /\ Here(t).do = "subscribe" /\ Here(t).attempt \in {0, 1}
        /\ sub \in 0..MaxEndpoint /\ on' = on
    BY <1>0, <1>4, HereType, Fields DEF Subscribe, World, device
  <2>2. PutDevice(sub, 0, "register") \in Steps /\ Heir(PutDevice(sub, 0, "register"), Here(t))
    BY <2>1, PutStep DEF Heir, PutDevice, NeedsOn, Switches
  <2> DEFINE n == [do |-> "newSub", previous |-> sub, attempt |-> Here(t).attempt]
  <2>3. n \in Steps /\ Heir(n, Here(t))
    BY <2>1, NewSubStep DEF Heir, NeedsOn, Switches
  <2>4. Then(t, <<PutDevice(sub, 0, "register")>>) \/ Then(t, <<n>>)
    BY <1>4 DEF Subscribe
  <2> HIDE DEF n
  <2>5. \A a \in Steps : Heir(a, Here(t)) => <<a>> \in Seq(Steps) /\ Heirs(<<a>>, Here(t))
    BY HeirLists, Tuples
  <2> QED
    BY <2>1, <2>2, <2>3, <2>4, <2>5, ThenHeeds
<1>5. CASE FreshSubscription(t)
  <2>1. At(t, "newSub") /\ Here(t).do = "newSub"
    BY <1>0, <1>5, HereType DEF FreshSubscription
  <2> DEFINE p == PutDevice(sub', Here(t).attempt, "register")
  <2>2. CASE Then(t, <<p>>) /\ on' = on
    <3>1. p \in Steps
      <4>1. sub' \in 0..MaxEndpoint
        BY <1>0, <1>5, RegisterTypes DEF World
      <4>2. Here(t).attempt \in {0, 1}
        BY <1>0, <2>1, HereType, Fields
      <4> QED
        BY <4>1, <4>2, PutStep
    <3>2. Heir(p, Here(t))
      BY <2>1 DEF Heir, PutDevice, NeedsOn, Switches
    <3> HIDE DEF p
    <3>3. <<p>> \in Seq(Steps) /\ Heirs(<<p>>, Here(t))
      BY <3>1, <3>2, HeirLists, Tuples
    <3> QED
      BY <2>1, <2>2, <3>3, ThenHeeds
  <2>3. CASE Throw(t) \/ \E r : Stop(t, r)
    BY <2>3, EndHeeds
  <2> QED
    BY <1>5, <2>2, <2>3 DEF FreshSubscription, device
<1> QED
  BY <1>1, <1>2, <1>3, <1>4, <1>5

LEMMA PutHeeds ==
  ASSUME SwitchInv, late' = Late, on' \in BOOLEAN, NEW t \in Thread, PutDeviceStep(t)
  PROVE  AllHeed'
<1> DEFINE s == Here(t)
           m == <<[do |-> "saveDevice", e |-> s.e]>>
                  \o (IF s.how = "resend" THEN <<Reconcile(links, "active")>> ELSE <<>>)
           n == <<[do |-> "newSub", previous |-> s.e, attempt |-> 1]>>
           c == <<[do |-> "config"], SubscribeStep(TRUE, 1)>>
<1>0. Typed /\ World /\ At(t, "putDevice")
  BY DEF SwitchInv, PutDeviceStep
<1>1. s.do = "putDevice" /\ s.e \in 0..MaxEndpoint
  BY <1>0, HereType, Fields
<1>2. m \in Seq(Steps) /\ Heirs(m, s)
  <2>1. [do |-> "saveDevice", e |-> s.e] \in Steps /\ Reconcile(links, "active") \in Steps
    BY <1>0, <1>1, SaveDeviceStep, ReconcileSteps DEF World
  <2>2. Heir([do |-> "saveDevice", e |-> s.e], s) /\ Heir(Reconcile(links, "active"), s)
    BY ModestHeir DEF Modest, Reconcile
  <2>3. /\ <<[do |-> "saveDevice", e |-> s.e]>> \in Seq(Steps) /\ Heirs(<<[do |-> "saveDevice", e |-> s.e]>>, s)
        /\ <<Reconcile(links, "active")>> \in Seq(Steps) /\ Heirs(<<Reconcile(links, "active")>>, s)
        /\ <<>> \in Seq(Steps) /\ Heirs(<<>>, s)
    BY <2>1, <2>2, HeirLists, Tuples
  <2> QED
    BY <2>3, Joined, HeirsJoin
<1>3. s.how = "register" => n \in Seq(Steps) /\ Heirs(n, s)
  <2>1. [do |-> "newSub", previous |-> s.e, attempt |-> 1] \in Steps
    BY <1>1, NewSubStep
  <2>2. s.how = "register" => Heir([do |-> "newSub", previous |-> s.e, attempt |-> 1], s)
    BY <1>1 DEF Heir, NeedsOn, Switches
  <2> QED
    BY <2>1, <2>2, HeirLists, Tuples
<1>4. s.how = "register" => c \in Seq(Steps) /\ Heirs(c, s)
  <2>1. SubscribeStep(TRUE, 1) \in Steps
    BY SubscribeSteps
  <2>2. s.how = "register" => Heir(SubscribeStep(TRUE, 1), s) /\ Heir([do |-> "config"], s)
    BY <1>1 DEF Heir, NeedsOn, Switches, SubscribeStep
  <2> QED
    BY <2>1, <2>2, HeirLists, Plain, Tuples
<1>5. \/ on' = on /\ Then(t, m)
      \/ on' = on /\ s.how = "register" /\ (Then(t, n) \/ Then(t, c))
      \/ \E r : on' = on /\ PutFailed(t, r)
      \/ Stop(t, "endpoint_not_allowed")
  BY DEF PutDeviceStep
<1>6. ASSUME NEW r, on' = on, PutFailed(t, r) PROVE AllHeed'
  BY <1>0, <1>6, DoneHeeds, EndHeeds DEF PutFailed
<1> HIDE DEF m, n, c
<1> QED
  BY <1>0, <1>2, <1>3, <1>4, <1>5, <1>6, ThenHeeds, EndHeeds

(* The steps that only go on to modest ones, or end. *)
LEMMA ModestHeeds ==
  ASSUME SwitchInv, late' = Late, on' \in BOOLEAN, NEW t \in Thread, NEW name, At(t, name),
         on => on' \/ Switches(Here(t)), NEW a \in Steps, a.do \in Modest, Then(t, <<a>>)
  PROVE  AllHeed'
<1>1. <<a>> \in Seq(Steps) /\ Heirs(<<a>>, Here(t))
  BY ModestHeir, HeirLists, Tuples
<1> QED
  BY <1>1, ThenHeeds

LEMMA QueueHeeds ==
  ASSUME SwitchInv, late' = Late, on' \in BOOLEAN, NEW t \in Thread,
         \/ SaveDevice(t) \/ SwitchBack(t) \/ FlushPendingDeletes(t) \/ Delete(t) \/ SetQueue(t)
         \/ EnqueueDelete(t) \/ ForgetWallet(t) \/ SwitchOffStep(t) \/ UnsubscribeStep(t) \/ Uninstall(t)
  PROVE  AllHeed'
<1>0. Typed /\ World
  BY DEF SwitchInv
<1>1. CASE FlushPendingDeletes(t)
  <2> DEFINE a == [do |-> "delete", items |-> queue]
  <2>1. a \in Steps /\ a.do \in Modest
    BY <1>0, DeleteStep DEF World, Modest
  <2>2. At(t, "flush") /\ on' = on /\ (Then(t, <<a>>) \/ Then(t, <<>>))
    BY <1>1 DEF FlushPendingDeletes, device
  <2> HIDE DEF a
  <2> QED
    BY <2>1, <2>2, ModestHeeds, DoneHeeds
<1>2. CASE Delete(t)
  <2> DEFINE a == [do |-> "delete", items |-> Tail(Here(t).items)]
  <2>1. a \in Steps /\ a.do \in Modest
    <3>1. Here(t).items \in Seq(Item) /\ Here(t).items # <<>>
      BY <1>0, <1>2, HereType, Fields DEF Delete
    <3> QED
      BY <3>1, Firsts, DeleteStep DEF Modest
  <2>2. At(t, "delete") /\ on' = on /\ (Then(t, <<a>>) \/ Then(t, <<>>))
    BY <1>2 DEF Delete
  <2> HIDE DEF a
  <2> QED
    BY <2>1, <2>2, ModestHeeds, DoneHeeds
<1>3. CASE \/ SaveDevice(t) \/ SetQueue(t) \/ EnqueueDelete(t) \/ ForgetWallet(t) \/ UnsubscribeStep(t)
           \/ Uninstall(t)
  <2>1. on' = on /\ Then(t, <<>>) /\ \E name : At(t, name)
    BY <1>3 DEF SaveDevice, SetQueue, EnqueueDelete, ForgetWallet, UnsubscribeStep, Uninstall, device
  <2> QED
    BY <2>1, DoneHeeds
<1>4. CASE SwitchBack(t) \/ SwitchOffStep(t)
  <2>1. PICK name : At(t, name) /\ Then(t, <<>>) /\ name \in {"switchBack", "switchOff"}
    BY <1>4 DEF SwitchBack, SwitchOffStep
  <2>2. Switches(Here(t))
    BY <1>0, <2>1, HereType DEF Switches
  <2> QED
    BY <2>1, <2>2, DoneHeeds
<1> QED
  BY <1>1, <1>2, <1>3, <1>4

LEMMA LinkHeeds ==
  ASSUME SwitchInv, late' = Late, on' \in BOOLEAN, NEW t \in Thread,
         \/ ChooseTag(t) \/ PutWalletLink(t) \/ SetWallet(t) \/ Prefs(t) \/ LastOne(t)
  PROVE  AllHeed'
<1>0. Typed /\ World
  BY DEF SwitchInv
<1>t. \A w \in Wallet : /\ tag[w] # 0 => tag[w] \in 1..MaxTag
                        /\ used[w] + 1 <= MaxTag => used[w] + 1 \in 1..MaxTag
                        /\ used[w] < MaxTag => used[w] + 1 \in 1..MaxTag
  BY <1>0, Bounds DEF World
<1>1. CASE ChooseTag(t)
  <2>1. At(t, "choose") /\ Here(t).w \in Wallet /\ on' = on
    BY <1>0, <1>1, HereType, Fields DEF ChooseTag, device
  <2>2. PICK n : (n \in 1..MaxTag /\ Then(t, <<Link(Here(t).w, n, 0)>>)) \/ Throw(t)
    BY <1>1, <1>t, <2>1 DEF ChooseTag
  <2>3. n \in 1..MaxTag => Link(Here(t).w, n, 0) \in Steps /\ Link(Here(t).w, n, 0).do \in Modest
    BY <2>1, LinkStep DEF Link, Modest
  <2> QED
    BY <2>1, <2>2, <2>3, ModestHeeds, EndHeeds
<1>2. CASE PutWalletLink(t)
  <2>1. At(t, "link") /\ Here(t).w \in Wallet /\ Here(t).n \in 1..MaxTag /\ on' = on
    BY <1>0, <1>2, HereType, Fields DEF PutWalletLink
  <2> DEFINE a == Save(Here(t).w, Here(t).n, TRUE)
             b == Link(Here(t).w, used[Here(t).w] + 1, 1)
  <2>2. \/ Then(t, <<a>>) \/ Then(t, <<>>) \/ Deferred(t)
        \/ used[Here(t).w] < MaxTag /\ Then(t, <<b>>)
    BY <1>2 DEF PutWalletLink
  <2>3. a \in Steps /\ a.do \in Modest
    BY <2>1, SaveStep DEF Save, Modest
  <2>4. used[Here(t).w] < MaxTag => b \in Steps /\ b.do \in Modest
    BY <1>t, <2>1, LinkStep DEF Link, Modest
  <2> HIDE DEF a, b
  <2> QED
    BY <2>1, <2>2, <2>3, <2>4, ModestHeeds, DoneHeeds, EndHeeds
<1>3. CASE SetWallet(t)
  <2>1. At(t, "save") /\ Then(t, <<>>) /\ on' = on
    BY <1>3 DEF SetWallet, device
  <2> QED
    BY <2>1, DoneHeeds
<1>4. CASE Prefs(t)
  <2>1. At(t, "prefs") /\ Here(t).w \in Wallet /\ Here(t).n \in 1..MaxTag /\ on' = on
    BY <1>0, <1>4, HereType, Fields DEF Prefs
  <2> DEFINE there == <<Here(t).w, Here(t).n>> \in links
  <2>2. there \in BOOLEAN /\ (Then(t, <<Save(Here(t).w, Here(t).n, there)>>) \/ Then(t, <<>>))
    BY <1>4 DEF Prefs
  <2> HIDE DEF there
  <2>3. Save(Here(t).w, Here(t).n, there) \in Steps /\ Save(Here(t).w, Here(t).n, there).do \in Modest
    BY <2>1, <2>2, SaveStep DEF Save, Modest
  <2> QED
    BY <2>1, <2>2, <2>3, ModestHeeds, DoneHeeds
<1>5. CASE LastOne(t)
  <2>1. At(t, "lastOne") /\ Here(t).do = "lastOne" /\ on' = on
    BY <1>0, <1>5, HereType DEF LastOne, device
  <2> DEFINE m == <<Enqueue(TheDevice), [do |-> "switchOff"], Unsubscribe>>
  <2>2. m \in Seq(Steps)
    BY EnqueueStep, Plain, Tuples DEF Item
  <2>3. Heirs(m, Here(t))
    <3>1. Heir(Enqueue(TheDevice), Here(t)) /\ Heir(Unsubscribe, Here(t))
      BY ModestHeir DEF Modest, Enqueue, Unsubscribe
    <3>2. Heir([do |-> "switchOff"], Here(t))
      BY <2>1 DEF Heir, NeedsOn, Switches
    <3> QED
      BY <3>1, <3>2, HeirLists
  <2>4. Then(t, m) \/ Then(t, <<>>)
    BY <1>5 DEF LastOne
  <2> HIDE DEF m
  <2> QED
    BY <2>1, <2>2, <2>3, <2>4, ThenHeeds, DoneHeeds
<1> QED
  BY <1>1, <1>2, <1>3, <1>4, <1>5

LEMMA CheckHeeds ==
  ASSUME SwitchInv, late' = Late, on' \in BOOLEAN, NEW t \in Thread,
         CheckDevice(t) \/ Renew(t) \/ Resend(t) \/ Keep(t) \/ GetDevice(t)
  PROVE  AllHeed'
<1>0. Typed /\ World
  BY DEF SwitchInv
<1>m. \A h : /\ Heir(Flush, h) /\ Heir([do |-> "config"], h)
             /\ \A r : Heir(Register(r), h)
             /\ \A ls, st : Heir(Reconcile(ls, st), h)
             /\ \A l, st : Heir(Get(l, st), h)
  BY ModestHeir DEF Modest, Flush, Register, Reconcile, Get
<1>1. CASE CheckDevice(t)
  <2>1. At(t, "check") /\ Here(t).do = "check" /\ Here(t).endpoint \in 0..MaxEndpoint /\ on' = on
    BY <1>0, <1>1, HereType, Fields DEF CheckDevice
  <2> DEFINE a == <<Register(FALSE), Reconcile({}, "keep"), Flush>>
             b == <<Register(TRUE), Get(FALSE, FALSE), Flush>>
             st == IF target = 0 THEN "none" ELSE "active"
             s == [do |-> "compare", endpoint |-> Here(t).endpoint, links |-> links, status |-> st]
             c == <<[do |-> "config"], s>>
  <2>2. a \in Seq(Steps) /\ Heirs(a, Here(t))
    BY <1>m, RegisterStep, ReconcileSteps, Plain, Tuples, HeirLists
  <2>3. b \in Seq(Steps) /\ Heirs(b, Here(t))
    BY <1>m, RegisterStep, GetStep, Plain, Tuples, HeirLists
  <2>4. c \in Seq(Steps) /\ Heirs(c, Here(t))
    <3>1. s \in Steps
      <4>1. st \in {"none", "active"}
        OBVIOUS
      <4> QED
        BY <1>0, <2>1, <4>1, CompareStep DEF World
    <3>2. Heir(s, Here(t))
      BY <2>1 DEF Heir, NeedsOn, Switches
    <3> QED
      BY <1>m, <3>1, <3>2, Plain, Tuples, HeirLists
  <2>5. Then(t, a) \/ Then(t, b) \/ Then(t, c) \/ Throw(t)
    BY <1>1 DEF CheckDevice
  <2> HIDE DEF a, b, c
  <2> QED
    BY <2>1, <2>2, <2>3, <2>4, <2>5, ThenHeeds, EndHeeds
<1>2. CASE Renew(t)
  <2> DEFINE m == <<Register(sub # 0), Get(FALSE, TRUE), Flush>>
  <2>1. At(t, "compare") /\ on' = on /\ Then(t, m)
    BY <1>2 DEF Renew, device
  <2>2. m \in Seq(Steps) /\ Heirs(m, Here(t))
    <3>1. Register(sub # 0) \in Steps
      BY RegisterStep
    <3>2. Heir(Register(sub # 0), Here(t))
      BY <1>m
    <3> QED
      BY <1>m, <3>1, <3>2, GetStep, Plain, Tuples, HeirLists
  <2> HIDE DEF m
  <2> QED
    BY <2>1, <2>2, ThenHeeds
<1>3. CASE Resend(t)
  <2> DEFINE m == <<PutDevice(sub, 1, "resend"), Flush>>
  <2>1. At(t, "compare") /\ Here(t).do = "compare" /\ on' = on /\ Then(t, m)
    BY <1>0, <1>3, HereType DEF Resend, Unchanged, device
  <2>2. m \in Seq(Steps) /\ Heirs(m, Here(t))
    <3>1. PutDevice(sub, 1, "resend") \in Steps
      BY <1>0, PutStep DEF World
    <3>2. Heir(PutDevice(sub, 1, "resend"), Here(t))
      BY <2>1 DEF Heir, PutDevice, NeedsOn, Switches
    <3> QED
      BY <1>m, <3>1, <3>2, Plain, Tuples, HeirLists
  <2> HIDE DEF m
  <2> QED
    BY <2>1, <2>2, ThenHeeds
<1>4. CASE Keep(t)
  <2> DEFINE m == <<Reconcile(Here(t).links, Here(t).status), Flush>>
  <2>1. /\ At(t, "compare") /\ on' = on /\ Then(t, m)
        /\ Here(t).links \subseteq Tag /\ Here(t).status \in {"keep", "none", "active"}
    BY <1>0, <1>4, HereType, Fields DEF Keep, Unchanged, device
  <2>2. m \in Seq(Steps) /\ Heirs(m, Here(t))
    BY <1>m, <2>1, ReconcileSteps, Plain, Tuples, HeirLists
  <2> HIDE DEF m
  <2> QED
    BY <2>1, <2>2, ThenHeeds
<1>5. CASE GetDevice(t)
  <2> DEFINE st == IF ~Here(t).sets THEN "keep" ELSE IF target = 0 THEN "none" ELSE "active"
             a == Reconcile(links, st)
             b == Reconcile({}, "keep")
  <2>1. At(t, "get") /\ on' = on /\ (Then(t, <<a>>) \/ Then(t, <<b>>) \/ Throw(t))
    BY <1>5 DEF GetDevice
  <2>2. st \in {"keep", "none", "active"}
    OBVIOUS
  <2>3. a \in Steps /\ a.do \in Modest /\ b \in Steps /\ b.do \in Modest
    BY <1>0, <2>2, ReconcileSteps DEF World, Modest, Reconcile
  <2> HIDE DEF a, b
  <2> QED
    BY <2>1, <2>3, ModestHeeds, EndHeeds
<1> QED
  BY <1>1, <1>2, <1>3, <1>4, <1>5

LEMMA ReconcileHeeds ==
  ASSUME SwitchInv, late' = Late, on' \in BOOLEAN, NEW t \in Thread, ReconcileStep(t) \/ ForEach(t)
  PROVE  AllHeed'
<1>0. Typed /\ World
  BY DEF SwitchInv
<1>1. CASE ReconcileStep(t)
  <2> DEFINE s == Here(t)
             gone == {l \in s.links : l \notin Local \/ l[1] \notin installed}
             Tags(W) == {<<w, tag[w]>> : w \in W}
  <2>1. At(t, "reconcile") /\ on' = on /\ s.links \subseteq Tag
    BY <1>0, <1>1, HereType, Fields DEF ReconcileStep
  <2>2. ASSUME NEW grown \in {{}} \cup {{w} : w \in registered \cap installed},
               Then(t, Each(gone \ Local, gone \cap Local, {})
                         \o Each({}, Tags(registered \ installed), Tags(ToPut(s.links, grown))))
        PROVE  AllHeed'
    <3>1. ToPut(s.links, grown) \subseteq registered
      BY <2>2 DEF ToPut
    <3>2. Tags(registered \ installed) \subseteq Tag /\ Tags(ToPut(s.links, grown)) \subseteq Tag
      BY <1>0, <3>1, PlanType
    <3>3. gone \ Local \in SUBSET Tag /\ gone \cap Local \in SUBSET Tag /\ {} \in SUBSET Tag
      BY <2>1
    <3> DEFINE m == Each(gone \ Local, gone \cap Local, {})
               n == Each({}, Tags(registered \ installed), Tags(ToPut(s.links, grown)))
    <3>4. m \in Seq(Steps) /\ n \in Seq(Steps) /\ Heirs(m, s) /\ Heirs(n, s) /\ Then(t, m \o n)
      BY <2>2, <3>2, <3>3, EachType, EachHeirs
    <3> HIDE DEF m, n
    <3>5. m \o n \in Seq(Steps) /\ Heirs(m \o n, s)
      BY <3>4, Joined, HeirsJoin
    <3> QED
      BY <2>1, <3>4, <3>5, ThenHeeds
  <2>3. ASSUME Then(t, Each(s.links, {}, {})) PROVE AllHeed'
    <3>1. Each(s.links, {}, {}) \in Seq(Steps) /\ Heirs(Each(s.links, {}, {}), s)
      BY <2>1, EachType, EachHeirs
    <3> QED
      BY <2>1, <2>3, <3>1, ThenHeeds
  <2> QED
    BY <1>1, <2>2, <2>3 DEF ReconcileStep
<1>2. CASE ForEach(t)
  <2> DEFINE s == Here(t)
  <2>1. At(t, "each") /\ s.queue \subseteq Tag /\ s.unlink \subseteq Tag /\ s.link \subseteq Tag /\ on' = on
    BY <1>0, <1>2, HereType, Fields DEF ForEach, device
  <2>2. ASSUME NEW m \in Seq(Steps), NEW n \in Seq(Steps), Heirs(m, s), Heirs(n, s), Then(t, m \o n)
        PROVE  AllHeed'
    BY <2>1, <2>2, Joined, HeirsJoin, ThenHeeds
  <2>3. ASSUME NEW l \in s.queue, Then(t, <<Enqueue(l)>> \o Each(s.queue \ {l}, s.unlink, s.link)) PROVE AllHeed'
    <3>1. <<Enqueue(l)>> \in Seq(Steps) /\ Heirs(<<Enqueue(l)>>, s)
      <4>1. Enqueue(l) \in Steps /\ Heir(Enqueue(l), s)
        BY <2>1, EnqueueStep, ModestHeir DEF Item, Modest, Enqueue
      <4> QED
        BY <4>1, HeirLists, Tuples
    <3>2. Each(s.queue \ {l}, s.unlink, s.link) \in Seq(Steps) /\ Heirs(Each(s.queue \ {l}, s.unlink, s.link), s)
      BY <2>1, EachType, EachHeirs
    <3> QED
      BY <2>2, <2>3, <3>1, <3>2
  <2>4. ASSUME NEW l \in s.unlink, Then(t, Unlink(l) \o Each(s.queue, s.unlink \ {l}, s.link)) PROVE AllHeed'
    <3>1. Unlink(l) \in Seq(Steps) /\ Heirs(Unlink(l), s)
      <4>1. Heir(Enqueue(l), s) /\ Heir(Forget(l[1]), s)
        BY ModestHeir DEF Modest, Enqueue, Forget
      <4> QED
        BY <2>1, <4>1, UnlinkType, HeirLists DEF Unlink
    <3>2. Each(s.queue, s.unlink \ {l}, s.link) \in Seq(Steps) /\ Heirs(Each(s.queue, s.unlink \ {l}, s.link), s)
      BY <2>1, EachType, EachHeirs
    <3> QED
      BY <2>2, <2>4, <3>1, <3>2
  <2>5. ASSUME NEW l \in s.link, Then(t, <<Link(l[1], l[2], 0)>> \o Each(s.queue, s.unlink, s.link \ {l})) PROVE AllHeed'
    <3>1. <<Link(l[1], l[2], 0)>> \in Seq(Steps) /\ Heirs(<<Link(l[1], l[2], 0)>>, s)
      <4>1. Link(l[1], l[2], 0) \in Steps
        BY <2>1, LinkStep DEF Tag
      <4>2. Heir(Link(l[1], l[2], 0), s)
        BY ModestHeir DEF Modest, Link
      <4> QED
        BY <4>1, <4>2, HeirLists, Tuples
    <3>2. Each(s.queue, s.unlink, s.link \ {l}) \in Seq(Steps) /\ Heirs(Each(s.queue, s.unlink, s.link \ {l}), s)
      BY <2>1, EachType, EachHeirs
    <3> QED
      BY <2>2, <2>5, <3>1, <3>2
  <2> QED
    BY <1>2, <2>3, <2>4, <2>5 DEF ForEach
<1> QED
  BY <1>1, <1>2

LEMMA StartHeeds ==
  ASSUME SwitchInv, late' = Late, on' \in BOOLEAN, NEW t \in Thread, Starts(t) \/ Reassert(t)
  PROVE  AllHeed'
<1>0. Typed /\ World /\ AllHeed
  BY DEF SwitchInv
<1> DEFINE is == on' \/ t \in late'
<1>1. ASSUME NEW kind, NEW undo, NEW todo, Start(t, kind, undo, todo), Heeds(todo, is) PROVE AllHeed'
  <2>1. ops'[t].todo = todo /\ \A u \in Thread \ {t} : ops'[u] = ops[u]
    BY <1>0, <1>1 DEF Start, Typed
  <2> QED
    BY <1>0, <1>1, <2>1, OthersHeed
<1> HIDE DEF is
<1> DEFINE h == [do |-> "switchOff"]
<1>2. ASSUME NEW m \in Seq(Steps), Heirs(m, h) PROVE Heeds(m, is)
  BY <1>2 DEF Heirs, Heir, Heeds, Switches
<1>3. /\ Heir(Flush, h) /\ Heir(Unsubscribe, h)
      /\ \A r : Heir(Register(r), h)
      /\ \A l, st : Heir(Get(l, st), h)
      /\ \A w : Heir([do |-> "choose", w |-> w], h)
      /\ \A w : Heir(Forget(w), h)
      /\ \A w : Heir([do |-> "uninstall", w |-> w], h)
      /\ \A i : Heir(Enqueue(i), h)
  BY ModestHeir DEF Modest, Flush, Unsubscribe, Register, Get, Forget, Enqueue
<1>4. /\ \A w, n, k : Heir(Link(w, n, k), h)
      /\ \A w, n : Heir([do |-> "prefs", w |-> w, n |-> n], h)
  BY ModestHeir DEF Modest, Link
<1>5. /\ \A w : Heir([do |-> "lastOne", w |-> w], h)
      /\ Heir(PutDevice(0, 1, "off"), h)
  BY DEF Heir, NeedsOn, Switches, PutDevice
<1> HIDE DEF h
<1>6. ASSUME NEW l \in Tag PROVE Unlink(l) \in Seq(Steps) /\ Heirs(Unlink(l), h)
  BY <1>3, UnlinkType, HeirLists DEF Unlink
<1>7. CASE SetOn(t)
  <2>1. <<Register(FALSE), Get(TRUE, FALSE), Flush>> \in Seq(Steps)
    BY RegisterStep, GetStep, Plain, Tuples
  <2>2. Heirs(<<Register(FALSE), Get(TRUE, FALSE), Flush>>, h)
    BY <1>3, HeirLists
  <2> QED
    BY <1>1, <1>2, <1>7, <2>1, <2>2 DEF SetOn
<1>8. CASE SetOff(t)
  <2>1. <<PutDevice(0, 1, "off"), Unsubscribe>> \in Seq(Steps)
    BY PutStep, Plain, Tuples, Bounds
  <2>2. Heirs(<<PutDevice(0, 1, "off"), Unsubscribe>>, h)
    BY <1>3, <1>5, HeirLists
  <2> QED
    BY <1>1, <1>2, <1>8, <2>1, <2>2 DEF SetOff
<1>9. ASSUME NEW w \in Wallet, EnableWallet(t, w) PROVE AllHeed'
  <2> DEFINE m == IF status # "active" THEN <<Register(FALSE)>> ELSE <<>>
             n == <<[do |-> "choose", w |-> w]>>
  <2>1. m \in Seq(Steps) /\ Heirs(m, h) /\ n \in Seq(Steps) /\ Heirs(n, h)
    BY <1>3, RegisterStep, Wanting, Tuples, HeirLists
  <2>2. Start(t, "enable", ~on, m \o n)
    BY <1>9 DEF EnableWallet
  <2> HIDE DEF m, n
  <2>3. m \o n \in Seq(Steps) /\ Heirs(m \o n, h)
    BY <2>1, Joined, HeirsJoin
  <2> QED
    BY <1>1, <1>2, <2>2, <2>3
<1>10. ASSUME NEW w \in Wallet, DisableWallet(t, w) PROVE AllHeed'
  <2> DEFINE m == Unlink(<<w, tag[w]>>)
             n == <<Flush>>
  <2>1. <<w, tag[w]>> \in Tag
    BY <1>0, <1>10, Bounds DEF DisableWallet, World, Tag
  <2>2. m \in Seq(Steps) /\ Heirs(m, h) /\ n \in Seq(Steps) /\ Heirs(n, h)
    BY <1>3, <1>6, <2>1, Plain, Tuples, HeirLists
  <2>3. Start(t, "disable", FALSE, m \o n)
    BY <1>10 DEF DisableWallet
  <2> HIDE DEF m, n
  <2>4. m \o n \in Seq(Steps) /\ Heirs(m \o n, h)
    BY <2>2, Joined, HeirsJoin
  <2> QED
    BY <1>1, <1>2, <2>3, <2>4
<1>11. ASSUME NEW w \in Wallet, WalletRemoved(t, w) PROVE AllHeed'
  <2> DEFINE rest == <<[do |-> "lastOne", w |-> w], Flush, [do |-> "uninstall", w |-> w]>>
             m == Unlink(<<w, tag[w]>>)
  <2>1. rest \in Seq(Steps) /\ Heirs(rest, h)
    BY <1>3, <1>5, Wanting, Plain, Tuples, HeirLists
  <2>2. tag[w] # 0 => m \in Seq(Steps) /\ Heirs(m, h)
    <3>1. tag[w] # 0 => <<w, tag[w]>> \in Tag
      BY <1>0, Bounds DEF World, Tag
    <3> QED
      BY <1>6, <3>1
  <2>3. (tag[w] # 0 /\ Start(t, "remove", FALSE, m \o rest)) \/ Start(t, "remove", FALSE, rest)
    BY <1>11 DEF WalletRemoved
  <2> HIDE DEF m, rest
  <2>4. tag[w] # 0 => m \o rest \in Seq(Steps) /\ Heirs(m \o rest, h)
    BY <2>1, <2>2, Joined, HeirsJoin
  <2> QED
    BY <1>1, <1>2, <2>1, <2>3, <2>4
<1>12. ASSUME NEW w \in Wallet, SetPrefs(t, w) \/ CredentialsChanged(t, w) PROVE AllHeed'
  <2>0. w \in registered
    BY <1>12 DEF SetPrefs, CredentialsChanged
  <2>1. tag[w] \in 1..MaxTag
    BY <1>0, <2>0, Bounds DEF World
  <2>2. /\ <<[do |-> "prefs", w |-> w, n |-> tag[w]]>> \in Seq(Steps)
        /\ Heirs(<<[do |-> "prefs", w |-> w, n |-> tag[w]]>>, h)
    BY <1>4, <2>1, PrefsStep, Tuples, HeirLists
  <2>3. <<Link(w, tag[w], 0)>> \in Seq(Steps) /\ Heirs(<<Link(w, tag[w], 0)>>, h)
    BY <1>4, <2>1, LinkStep, Tuples, HeirLists
  <2> QED
    BY <1>1, <1>2, <1>12, <2>2, <2>3 DEF SetPrefs, CredentialsChanged
<1>13. CASE Reassert(t)
  <2>1. CASE on
    <3>1. is
      BY <1>13, <2>1 DEF Reassert, device, is
    <3>2. Heeds(Check, is)
      BY <3>1 DEF Check, Heeds, NeedsOn, Switches
    <3> QED
      BY <1>1, <1>13, <2>1, <3>2 DEF Reassert, ReassertPlan
  <2>2. CASE ~on
    BY <1>1, <1>13, <2>2, HeedsLess DEF Reassert, ReassertPlan
  <2> QED
    BY <2>1, <2>2
<1> QED
  BY <1>7, <1>8, <1>9, <1>10, <1>11, <1>12, <1>13 DEF Starts

LEMMA WorldHeeds ==
  ASSUME SwitchInv, late' = Late, WorkerKilled \/ ServerForgets \/ TargetDies \/ SubscriptionLost
  PROVE  AllHeed'
<1>0. AllHeed
  BY DEF SwitchInv
<1>1. CASE WorkerKilled
  <2>1. \A t \in Thread : ops'[t].todo = <<>>
    BY <1>1 DEF WorkerKilled, Idle
  <2> QED
    BY <2>1, HeedsLess DEF AllHeed
<1>2. CASE ServerForgets \/ TargetDies \/ SubscriptionLost
  <2>1. UNCHANGED <<ops, on>>
    BY <1>2 DEF ServerForgets, TargetDies, SubscriptionLost, device
  <2>2. ASSUME NEW t \in Thread PROVE Heeds(ops'[t].todo, on' \/ t \in late')
    <3>1. CASE ops[t].todo = <<>>
      BY <2>1, <3>1, HeedsLess
    <3>2. CASE ops[t].todo # <<>>
      BY <1>0, <2>1, <3>2 DEF AllHeed, Heeds, Late
    <3> QED
      BY <3>1, <3>2
  <2> QED
    BY <2>2 DEF AllHeed
<1> QED
  BY <1>1, <1>2

LEMMA SwitchNext == ASSUME SwitchInv, [Next]_vars PROVE SwitchInv'
<1>1. TypeOK /\ TypeOK'
  BY Both, NextType DEF SwitchInv
<1>2. World' /\ Typed' /\ late' \subseteq Thread /\ on' \in BOOLEAN
  BY <1>1, BothPrimed DEF World
<1>3. CASE Next
  <2>0. late' = Late
    BY <1>3 DEF Next
  <2>1. ASSUME NEW t \in Thread, Step(t) PROVE AllHeed'
    BY <1>2, <2>0, <2>1, RegisterHeeds, PutHeeds, QueueHeeds, LinkHeeds, CheckHeeds, ReconcileHeeds DEF Step
  <2>2. ASSUME NEW t \in Thread, Starts(t) \/ Reassert(t) PROVE AllHeed'
    BY <1>2, <2>0, <2>2, StartHeeds
  <2>3. AllHeed'
    BY <1>3, <2>0, <2>1, <2>2, WorldHeeds DEF Next
  <2> QED
    BY <1>2, <2>3 DEF SwitchInv
<1>4. CASE UNCHANGED vars
  <2>1. AllHeed'
    BY <1>4 DEF SwitchInv, AllHeed, vars, state, device
  <2> QED
    BY <1>2, <2>1 DEF SwitchInv
<1> QED
  BY <1>3, <1>4

LEMMA SwitchInit == ASSUME Init PROVE SwitchInv
<1>1. World /\ Typed /\ late \subseteq Thread
  BY InitType, Both
<1>2. AllHeed
  BY HeedsLess DEF Init, Idle, AllHeed
<1> QED
  BY <1>1, <1>2 DEF SwitchInv

(* With the switch off nothing subscribes or hands out a target, but an overtaken operation. *)
Overtaken == \E t \in late : ops'[t] # ops[t]
OptsOut == ~on => (sub' \in {0, sub} /\ target' \in {0, target}) \/ Overtaken

LEMMA OptsOutNext == ASSUME SwitchInv, Next PROVE OptsOut
<1>0. World /\ Typed /\ AllHeed /\ late \subseteq Thread
  BY DEF SwitchInv
<1> SUFFICES ASSUME ~on PROVE (sub' \in {0, sub} /\ target' \in {0, target}) \/ Overtaken
  BY DEF OptsOut
<1>1. ASSUME NEW t \in Thread, Starts(t) \/ Reassert(t) PROVE UNCHANGED <<sub, target>>
  BY <1>1 DEF Starts, SetOn, SetOff, EnableWallet, DisableWallet, WalletRemoved, SetPrefs, CredentialsChanged,
              Reassert, server
<1>2. ASSUME NEW t \in Thread, NEW name, At(t, name)
      PROVE  /\ Here(t).do = name /\ (NeedsOn(Here(t)) => t \in late)
             /\ name = "putDevice" /\ Here(t).how = "off" => Here(t).e = 0
  <2>1. /\ Here(t) \in Steps /\ Here(t).do = name /\ Here(t) = ops[t].todo[1]
        /\ ops[t].todo \in Seq(Steps) /\ ops[t].todo # <<>>
    BY <1>0, <1>2, HereType
  <2>2. 1 \in 1..Len(ops[t].todo)
    BY <2>1
  <2> QED
    BY <1>0, <2>1, <2>2 DEF AllHeed, Heeds
(* A step that leaves its place to one of another kind changes the operation. *)
<1>3. ASSUME NEW t \in late, NEW name, At(t, name), ops'[t].todo # <<>> => Head(ops'[t].todo).do # name PROVE Overtaken
  <2>1. ops'[t] # ops[t]
    BY <1>3 DEF At
  <2> QED
    BY <2>1 DEF Overtaken
<1>4. ASSUME NEW t \in Thread, NEW name, At(t, name), NEW m \in Seq(Steps), m # <<>>, m[1].do # name, Then(t, m)
      PROVE  ops'[t].todo # <<>> /\ Head(ops'[t].todo).do # name
  <2>1. ops[t].todo \in Seq(Steps) /\ ops[t].todo # <<>> /\ ops'[t].todo = m \o Tail(ops[t].todo)
    BY <1>0, <1>4, HereType, ThenType
  <2> DEFINE r == m \o Tail(ops[t].todo)
  <2>2. r \in Seq(Steps) /\ Len(r) = Len(m) + Len(ops[t].todo) - 1 /\ \A i \in 1..Len(m) : r[i] = m[i]
    BY <2>1, Spliced
  <2> HIDE DEF r
  <2>3. Len(m) >= 1 /\ Len(ops[t].todo) >= 1 /\ Len(m) \in Nat /\ Len(ops[t].todo) \in Nat
    BY <1>4, <2>1
  <2>4. Len(r) >= 1 /\ r[1] = m[1]
    BY <2>2, <2>3
  <2>5. r # <<>> /\ Head(r) = m[1]
    BY <2>2, <2>4
  <2> QED
    BY <1>4, <2>1, <2>5 DEF r
<1>5. ASSUME NEW t \in Thread, NEW name, name \in {"newSub", "putDevice"}, Throw(t) \/ \E r : Stop(t, r)
      PROVE  ops'[t].todo # <<>> => Head(ops'[t].todo).do # name
  <2>1. ops'[t].todo \in {<<>>, <<[do |-> "switchBack"]>>}
    BY <1>0, <1>5, ThrowType, StopType
  <2> QED
    BY <1>5, <2>1
<1>6. ASSUME NEW t \in Thread, Subscribe(t) PROVE Overtaken
  <2> DEFINE p == PutDevice(sub, 0, "register")
             n == [do |-> "newSub", previous |-> sub, attempt |-> Here(t).attempt]
  <2>1. At(t, "subscribe") /\ t \in late /\ Here(t).attempt \in {0, 1} /\ (Then(t, <<p>>) \/ Then(t, <<n>>))
    <3>1. At(t, "subscribe") /\ (Then(t, <<p>>) \/ Then(t, <<n>>))
      BY <1>6 DEF Subscribe
    <3> QED
      BY <1>0, <1>2, <3>1, HereType, Fields DEF NeedsOn
  <2>2. p \in Steps /\ p.do # "subscribe" /\ n \in Steps /\ n.do # "subscribe"
    BY <1>0, <2>1, PutStep, NewSubStep DEF World, PutDevice
  <2> HIDE DEF p, n
  <2>3. \A a \in {p, n} : <<a>> \in Seq(Steps) /\ <<a>> # <<>> /\ <<a>>[1] = a
    BY <2>2
  <2>5. Head(ops'[t].todo).do # "subscribe"
    BY <1>4, <2>1, <2>2, <2>3
  <2> QED
    BY <1>3, <2>1, <2>5
<1>7. ASSUME NEW t \in Thread, FreshSubscription(t) PROVE Overtaken
  <2> DEFINE p == PutDevice(sub', Here(t).attempt, "register")
  <2>1. At(t, "newSub") /\ t \in late /\ Here(t).attempt \in {0, 1}
    <3>1. At(t, "newSub")
      BY <1>7 DEF FreshSubscription
    <3> QED
      BY <1>0, <1>2, <3>1, HereType, Fields DEF NeedsOn
  <2>2. p \in Steps /\ p.do # "newSub"
    <3>1. sub' \in 0..MaxEndpoint
      BY <1>0, <1>7, RegisterTypes DEF World
    <3> QED
      BY <2>1, <3>1, PutStep DEF PutDevice
  <2>3. Then(t, <<p>>) \/ Throw(t) \/ \E r : Stop(t, r)
    BY <1>7 DEF FreshSubscription
  <2> HIDE DEF p
  <2>4. <<p>> \in Seq(Steps) /\ <<p>> # <<>> /\ <<p>>[1] = p
    BY <2>2
  <2>5. ops'[t].todo # <<>> => Head(ops'[t].todo).do # "newSub"
    <3>1. CASE Then(t, <<p>>)
      BY <1>4, <2>1, <2>2, <2>4, <3>1
    <3> QED
      BY <1>5, <2>3, <3>1
  <2> QED
    BY <1>3, <2>1, <2>5
<1>8. ASSUME NEW t \in Thread, PutDeviceStep(t)
      PROVE  (sub' \in {0, sub} /\ target' \in {0, target}) \/ Overtaken
  <2>1. At(t, "putDevice") /\ Here(t) \in Steps /\ Here(t).e \in 0..MaxEndpoint
    BY <1>0, <1>8, HereType, Fields DEF PutDeviceStep
  <2>2. CASE Here(t).how = "off"
    <3>1. Here(t).e = 0
      BY <1>2, <2>1, <2>2
    <3> QED
      BY <1>8, <2>2, <3>1 DEF PutDeviceStep
  <2>3. CASE Here(t).how # "off"
    <3>1. t \in late
      BY <1>2, <2>1, <2>3 DEF NeedsOn
    <3> DEFINE m == IF Here(t).how = "resend" THEN <<Reconcile(links, "active")>> ELSE <<>>
               a == [do |-> "saveDevice", e |-> Here(t).e]
               n == [do |-> "newSub", previous |-> Here(t).e, attempt |-> 1]
               c == [do |-> "config"]
               s == SubscribeStep(TRUE, 1)
    <3>2. m \in Seq(Steps)
      BY <1>0, ReconcileSteps, Tuples DEF World
    <3>3. /\ a \in Steps /\ a.do # "putDevice" /\ n \in Steps /\ n.do # "putDevice"
          /\ c \in Steps /\ c.do # "putDevice" /\ s \in Steps
      BY <2>1, SaveDeviceStep, NewSubStep, Plain, SubscribeSteps
    <3>4. \/ Then(t, <<a>> \o m) \/ Then(t, <<n>>) \/ Then(t, <<c, s>>)
          \/ \E r : Stop(t, r)
      BY <1>8, <2>3 DEF PutDeviceStep, PutFailed
    <3> HIDE DEF a, m, n, c, s
    <3>5. /\ <<n>> \in Seq(Steps) /\ <<n>> # <<>> /\ <<n>>[1] = n
          /\ <<c, s>> \in Seq(Steps) /\ <<c, s>> # <<>> /\ <<c, s>>[1] = c
      BY <3>3, Tuples
    <3>6. <<a>> \o m \in Seq(Steps) /\ <<a>> \o m # <<>> /\ (<<a>> \o m)[1] = a
      BY <3>2, <3>3
    <3>7. ops'[t].todo # <<>> => Head(ops'[t].todo).do # "putDevice"
      BY <1>4, <1>5, <2>1, <3>3, <3>4, <3>5, <3>6
    <3> QED
      BY <1>3, <2>1, <3>1, <3>7
  <2> QED
    BY <2>2, <2>3
<1>9. ASSUME NEW t \in Thread,
             \/ RegisterDevice(t) \/ Drained(t) \/ UsableConfig(t) \/ SaveDevice(t) \/ SwitchBack(t)
             \/ FlushPendingDeletes(t) \/ SetQueue(t) \/ EnqueueDelete(t) \/ ForgetWallet(t) \/ ChooseTag(t)
             \/ SetWallet(t) \/ LastOne(t) \/ SwitchOffStep(t) \/ Uninstall(t) \/ CheckDevice(t) \/ Renew(t)
             \/ Resend(t) \/ Keep(t) \/ GetDevice(t) \/ ReconcileStep(t) \/ ForEach(t)
      PROVE  UNCHANGED <<sub, target>>
  BY <1>9 DEF RegisterDevice, Drained, UsableConfig, SaveDevice, SwitchBack, FlushPendingDeletes, SetQueue,
              EnqueueDelete, ForgetWallet, ChooseTag, SetWallet, LastOne, SwitchOffStep, Uninstall, CheckDevice,
              Renew, Resend, Keep, GetDevice, ReconcileStep, ForEach, server
<1>10. ASSUME NEW t \in Thread, UnsubscribeStep(t) \/ Delete(t) \/ PutWalletLink(t) \/ Prefs(t)
       PROVE  sub' \in {0, sub} /\ target' \in {0, target}
  BY <1>10 DEF UnsubscribeStep, Delete, Deleted, NoDevice, PutWalletLink, Prefs, Recover, HookTarget, server
<1>11. ASSUME WorkerKilled \/ ServerForgets \/ TargetDies \/ SubscriptionLost
       PROVE  sub' \in {0, sub} /\ target' \in {0, target}
  BY <1>11 DEF WorkerKilled, ServerForgets, TargetDies, SubscriptionLost, NoDevice, server
<1>12. ASSUME NEW t \in Thread, Step(t) PROVE (sub' \in {0, sub} /\ target' \in {0, target}) \/ Overtaken
  <2>1. CASE \/ RegisterDevice(t) \/ Drained(t) \/ UsableConfig(t) \/ SaveDevice(t) \/ SwitchBack(t)
             \/ FlushPendingDeletes(t) \/ SetQueue(t) \/ EnqueueDelete(t) \/ ForgetWallet(t) \/ ChooseTag(t)
             \/ SetWallet(t) \/ LastOne(t) \/ SwitchOffStep(t) \/ Uninstall(t) \/ CheckDevice(t) \/ Renew(t)
             \/ Resend(t) \/ Keep(t) \/ GetDevice(t) \/ ReconcileStep(t) \/ ForEach(t)
    BY <1>9, <2>1
  <2>2. CASE \/ Subscribe(t) \/ FreshSubscription(t) \/ PutDeviceStep(t)
             \/ UnsubscribeStep(t) \/ Delete(t) \/ PutWalletLink(t) \/ Prefs(t)
    BY <1>6, <1>7, <1>8, <1>10, <2>2
  <2> QED
    BY <1>12, <2>1, <2>2 DEF Step
<1> QED
  BY <1>1, <1>11, <1>12 DEF Next

(* What F7 asks, for any number of operations at a time: with the switch off nothing subscribes and *)
(* no target goes to the server, in the retries of registerDevice, the client's recovery from       *)
(* device_unknown and the switch-off of setBrowserEnabled or walletRemoved; but for an operation    *)
(* that was already under way when another one turned the switch off.                               *)
THEOREM StaysOptedOut == Spec => OptedOut
<1>1. Init => SwitchInv
  BY SwitchInit
<1>2. SwitchInv /\ [Next]_vars => SwitchInv'
  BY SwitchNext
<1>3. SwitchInv /\ [Next]_vars => [~on => \/ sub' \in {0, sub} /\ target' \in {0, target}
                                          \/ \E t \in late : ops'[t] # ops[t]]_vars
  BY OptsOutNext DEF OptsOut, Overtaken
<1> QED
  BY <1>1, <1>2, <1>3, PTL DEF Spec, OptedOut

-----------------------------------------------------------------------------
(***************************************************************************)
(* What the router promises, for any number of submits, of origins and of    *)
(* saved settings.                                                          *)
(***************************************************************************)

(* A value that may go to an origin.                                         *)
Own(origin, key) == key \in {NoKey, origin} \/ <<origin, key>> \in mixed

(* A submit that runs has told nobody and recorded nothing; what has landed  *)
(* so far, and what it will say, follow from the answers it has had.         *)
Says(u, outcome, s) ==
    /\ outcome \in {"rejected", "unsent"} => s \notin landed
    /\ outcome = "sent" => s \in landed
    /\ outcome \notin Unclear => (outcome = "sent" <=> u.gero \in {"sent", "odd"} \/ u.custom = "own")
Sound(u, s) ==
    /\ u.at # "done" => told[s] = "none"
    /\ u.at \in {"idle", "post", "default"} => s \notin landed
    /\ u.at = "post" => u.seen \in Config /\ u.seen.valid /\ Own(u.seen.origin, u.key)
    /\ u.at \in {"idle", "post", "default"} => u.custom = "none"
    /\ u.at \in {"idle", "post", "default", "fallback"} => u.gero = "none"
    /\ u.at = "fallback" => /\ u.custom \in Eligible
                            /\ u.custom \notin MayHaveReached => s \notin landed
    /\ u.at = "record" =>
         /\ u.custom = "own" => s \in landed
         /\ \A outcome \in Outcomes(u) : Says(u, outcome, s)

AllSound == \A s \in Submits : Sound(submits[s], s)

(* Only a submit that is over has left a result; the saved value, and the    *)
(* one a save means to keep, are of their origin.                            *)
Recorded == last # NoResult => submits[last.of].at = "done"
OwnKey ==
    /\ config # NoConfig => Own(config.origin, auth)
    /\ \A p \in Pages : saving[p].at = "write" =>
          /\ saving[p].form \in Form
          /\ saving[p].form.header = "keep" => Own(saving[p].form.origin, saving[p].key)

IInv == /\ RouterTypeOK /\ AllSound /\ Recorded /\ OwnKey
        /\ GeroOnlyIfAllowed /\ RejectedMeansRejected
        /\ LastResultTrue /\ KeyStaysWithOrigin

-----------------------------------------------------------------------------
LEMMA NothingType ==
  ASSUME NEW at \in {"idle", "done"}
  PROVE  Nothing(at) \in Submit
  BY DEF Nothing, Submit, Keys

LEMMA CustomToldType == ASSUME NEW a \in Custom \cup {"none"} PROVE CustomTold(a) \in Told
  BY DEF CustomTold, Custom, Accepted, Told, Gero

LEMMA OutcomeType == ASSUME NEW u \in Submit PROVE Outcomes(u) \subseteq Told
<1>1. CASE u.gero = "none"
  <2>1. u.custom \in Custom \cup {"none"}
    BY DEF Submit
  <2> QED
    BY <1>1, <2>1, CustomToldType DEF Outcomes
<1>2. CASE u.gero # "none"
  <2>1. u.gero \in Gero
    BY <1>2 DEF Submit
  <2> QED
    BY <1>2, <2>1 DEF Outcomes, Heard, FallbackTold, Told, Gero, Unclear
<1> QED
  BY <1>1, <1>2

LEMMA LastResultType ==
  ASSUME RouterTypeOK, NEW s \in Submits
  PROVE  LastResult(s) \in Result
  BY DEF LastResult, Result

LEMMA InitIInv == RouterInit => IInv
<1> SUFFICES ASSUME RouterInit PROVE IInv
  OBVIOUS
<1>1. RouterTypeOK
  <2>1. auth \in Keys /\ config \in Config \cup {NoConfig}
    BY DEF RouterInit, Keys, Config
  <2>2. submits \in [Submits -> Submit]
    BY NothingType DEF RouterInit
  <2>3. settings \in 0..MaxSettings /\ landed \subseteq Submits /\ mixed \subseteq Origins \X Keys
    <3>1. settings = 0 /\ landed = {} /\ mixed = {}
      BY DEF RouterInit
    <3>2. 0 \in 0..MaxSettings
      BY SettingsAssumption
    <3> QED
      BY <3>1, <3>2
  <2>4. told \in [Submits -> Told]
    BY DEF RouterInit, Told
  <2>5. last = NoResult /\ request = NoRequest
    BY DEF RouterInit
  <2>6. saving \in [Pages -> Saving]
    BY DEF RouterInit, NoSave, Saving, Keys
  <2> QED
    BY <2>1, <2>2, <2>3, <2>4, <2>5, <2>6 DEF RouterTypeOK
<1>2. AllSound
  BY DEF RouterInit, AllSound, Sound, Nothing
<1>3. Recorded /\ LastResultTrue /\ KeyStaysWithOrigin
  BY DEF RouterInit, Recorded, LastResultTrue, KeyStaysWithOrigin
<1>4. OwnKey
  BY DEF RouterInit, OwnKey, Own, NoSave
<1>5. GeroOnlyIfAllowed
  BY DEF RouterInit, GeroOnlyIfAllowed, ByGero, Nothing
<1>6. RejectedMeansRejected
  BY DEF RouterInit, RejectedMeansRejected
<1> QED
  BY <1>1, <1>2, <1>3, <1>4, <1>5, <1>6 DEF IInv

-----------------------------------------------------------------------------
(* A step of one submit leaves the others, and what they say, as they are.   *)
LEMMA OthersKept ==
  ASSUME IInv, NEW s \in Submits, NEW u \in Submit,
         submits' = [submits EXCEPT ![s] = u], UNCHANGED mixed,
         \A t \in Submits \ {s} : told'[t] = told[t] /\ (t \in landed' <=> t \in landed),
         Sound(u, s)',
         ByGero(u) => \/ u.seen = NoConfig
                      \/ /\ u.seen \in Config /\ u.seen.valid /\ u.seen.fallback
                         /\ u.custom \in Eligible,
         told'[s] \in {"rejected", "unsent"} => s \notin landed'
  PROVE  AllSound' /\ GeroOnlyIfAllowed' /\ RejectedMeansRejected'
<1>1. submits'[s] = u /\ \A t \in Submits \ {s} : submits'[t] = submits[t]
  BY DEF IInv, RouterTypeOK
<1>2. \A t \in Submits \ {s} : Sound(submits[t], t)'
  <2> TAKE t \in Submits \ {s}
  <2>1. submits'[t] = submits[t] /\ Sound(submits[t], t)
    BY <1>1 DEF IInv, AllSound
  <2> QED
    BY <2>1 DEF Sound, Says, Own
<1>3. AllSound'
  BY <1>1, <1>2 DEF AllSound
<1>4. GeroOnlyIfAllowed'
  BY <1>1 DEF IInv, GeroOnlyIfAllowed
<1>5. RejectedMeansRejected'
  BY DEF IInv, RejectedMeansRejected
<1> QED
  BY <1>3, <1>4, <1>5

(* ... and what is recorded is of submits that were over before it.          *)
LEMMA ResultKept ==
  ASSUME IInv, NEW s \in Submits, submits[s].at # "done", NEW u \in Submit,
         submits' = [submits EXCEPT ![s] = u], UNCHANGED last,
         \A t \in Submits \ {s} : told'[t] = told[t],
         landed \subseteq landed'
  PROVE  Recorded' /\ LastResultTrue'
<1>1. last # NoResult => last.of \in Submits \ {s}
  BY DEF IInv, Recorded, RouterTypeOK, Result
<1> QED
  BY <1>1 DEF IInv, Recorded, LastResultTrue, Success, RouterTypeOK

(* A caller without a wallet goes Gero's way, as one without a setting does.  *)
LEMMA WithoutKept == ASSUME IInv, NEW s \in Submits, WithoutWallet(s) PROVE IInv'
<1> PICK u : u = [submits[s] EXCEPT !.at = "default", !.seen = NoConfig]
  OBVIOUS
<1>1. submits[s] \in Submit /\ submits[s].at = "idle" /\ Sound(submits[s], s)
  BY DEF IInv, RouterTypeOK, AllSound, WithoutWallet
<1>2. /\ submits' = [submits EXCEPT ![s] = u]
      /\ UNCHANGED <<told, landed, last, mixed>>
  BY DEF WithoutWallet, setting
<1>3. /\ u \in Submit /\ u.at = "default" /\ u.seen = NoConfig
      /\ u.custom = "none" /\ u.gero = "none"
  BY <1>1 DEF Submit, Waiting, Sound
<1>4. told[s] = "none" /\ Sound(u, s)'
  BY <1>1, <1>2, <1>3 DEF Sound
<1>5. AllSound' /\ GeroOnlyIfAllowed' /\ RejectedMeansRejected'
  BY <1>2, <1>3, <1>4, OthersKept
<1>6. Recorded' /\ LastResultTrue'
  BY <1>1, <1>2, <1>3, ResultKept
<1>7. RouterTypeOK'
  BY <1>2, <1>3 DEF IInv, RouterTypeOK, WithoutWallet, setting
<1>8. OwnKey' /\ KeyStaysWithOrigin'
  BY DEF IInv, OwnKey, Own, KeyStaysWithOrigin, WithoutWallet, setting
<1> QED
  BY <1>5, <1>6, <1>7, <1>8 DEF IInv

LEMMA ReadKept ==
  ASSUME IInv, NEW s \in Submits, Read(s)
  PROVE  IInv'
<1> DEFINE k == IF config = NoConfig THEN NoKey ELSE AuthOf(config, auth)
<1> PICK u : u = [submits[s] EXCEPT !.at = NextAt(config, auth), !.seen = config, !.key = k]
  OBVIOUS
<1>1. /\ submits[s] \in Submit /\ config \in Config \cup {NoConfig} /\ auth \in Keys
      /\ submits[s].at = "idle" /\ Sound(submits[s], s)
  BY DEF IInv, RouterTypeOK, AllSound, Read
<1>2. submits' = [submits EXCEPT ![s] = u]
  BY DEF Read
<1>3. NextAt(config, auth) \in {"default", "post", "record"} /\ k \in Keys
  BY <1>1 DEF NextAt, AuthOf, Keys
<1>4. /\ u \in Submit /\ u.at = NextAt(config, auth) /\ u.seen = config /\ u.key = k
      /\ u.custom = "none" /\ u.gero = "none"
  BY <1>1, <1>3 DEF Submit, Waiting, Sound
<1>5. Sound(u, s)'
  <2>1. UNCHANGED <<told, landed>>
    BY DEF Read
  <2>2. told[s] = "none" /\ s \notin landed
    BY <1>1 DEF Sound
  <2>3. u.at = "post" => u.seen \in Config /\ u.seen.valid /\ Own(u.seen.origin, u.key)
    BY <1>1, <1>4 DEF NextAt, Usable, AuthOf, IInv, OwnKey, Own
  <2>4. Outcomes(u) = {"unsent"}
    BY <1>4 DEF Outcomes, CustomTold
  <2>5. UNCHANGED mixed
    BY DEF Read, setting
  <2> QED
    BY <1>3, <1>4, <2>1, <2>2, <2>3, <2>4, <2>5 DEF Sound, Says, Own
<1>6. ByGero(u) => u.seen = NoConfig
  BY <1>1, <1>3, <1>4 DEF ByGero, NextAt
<1>7. AllSound' /\ GeroOnlyIfAllowed' /\ RejectedMeansRejected'
  <2>1. told[s] = "none" /\ UNCHANGED <<told, landed, mixed>>
    BY <1>1 DEF Sound, Read, setting
  <2> QED
    BY <1>2, <1>4, <1>5, <1>6, <2>1, OthersKept
<1>8. Recorded' /\ LastResultTrue'
  BY <1>1, <1>2, <1>4, ResultKept DEF Read
<1>9. RouterTypeOK'
  BY <1>2, <1>4 DEF IInv, RouterTypeOK, Read, setting
<1>10. OwnKey' /\ KeyStaysWithOrigin'
  BY DEF IInv, OwnKey, Own, KeyStaysWithOrigin, Read, setting
<1> QED
  BY <1>7, <1>8, <1>9, <1>10 DEF IInv

(* A submit that returns leaves nothing behind but what it told.             *)
LEMMA ReturnKept ==
  ASSUME IInv, NEW s \in Submits, NEW outcome \in Told, submits[s].at # "done",
         Returns(s, outcome),
         UNCHANGED <<setting, request>>,
         landed' \in {landed, landed \cup {s}},
         outcome \in {"rejected", "unsent"} => s \notin landed',
         last' \in Result \cup {NoResult},
         last' = last \/ last'.of = s,
         outcome = "sent" => s \in landed',
         last' # last => /\ last'.via = "custom" /\ ~last'.failed => s \in landed'
                         /\ outcome \notin Unclear => (Success(last') <=> outcome = "sent")
  PROVE  IInv'
<1>1. /\ Nothing("done") \in Submit /\ Nothing("done").at = "done"
      /\ Nothing("done").gero = "none"
  BY NothingType DEF Nothing
<1>2. /\ submits' = [submits EXCEPT ![s] = Nothing("done")]
      /\ told' = [told EXCEPT ![s] = outcome]
      /\ told'[s] = outcome /\ \A t \in Submits \ {s} : told'[t] = told[t]
      /\ submits'[s].at = "done" /\ \A t \in Submits \ {s} : submits'[t] = submits[t]
  BY <1>1 DEF Returns, IInv, RouterTypeOK
<1>3. Sound(Nothing("done"), s)'
  BY <1>1 DEF Sound
<1>4. AllSound' /\ GeroOnlyIfAllowed' /\ RejectedMeansRejected'
  <2>1. \A t \in Submits \ {s} : told'[t] = told[t] /\ (t \in landed' <=> t \in landed)
    BY <1>2
  <2>2. ~ByGero(Nothing("done"))
    BY <1>1 DEF ByGero
  <2>3. UNCHANGED mixed
    BY DEF setting
  <2> QED
    BY <1>1, <1>2, <1>3, <2>1, <2>2, <2>3, OthersKept
<1>5. Recorded' /\ LastResultTrue'
  <2>1. CASE last' = last
    BY <1>1, <1>2, <2>1, ResultKept
  <2>2. CASE last' # last
    BY <1>2, <2>2 DEF Recorded, LastResultTrue
  <2> QED
    BY <2>1, <2>2
<1>6. RouterTypeOK'
  BY <1>1, <1>2 DEF IInv, RouterTypeOK, setting
<1>7. OwnKey' /\ KeyStaysWithOrigin'
  BY DEF IInv, OwnKey, Own, KeyStaysWithOrigin, setting
<1> QED
  BY <1>4, <1>5, <1>6, <1>7 DEF IInv

LEMMA ReadFailsKept == ASSUME IInv, NEW s \in Submits, ReadFails(s) PROVE IInv'
<1>1. /\ submits[s].at = "idle" /\ s \notin landed
      /\ last \in Result \cup {NoResult} /\ "unsent" \in Told
  BY DEF IInv, AllSound, Sound, ReadFails, RouterTypeOK, Told
<1> QED
  BY <1>1, ReturnKept DEF ReadFails

LEMMA MalformedKept == ASSUME IInv, NEW s \in Submits, Malformed(s) PROVE IInv'
<1>1. /\ submits[s].at = "post" /\ s \notin landed
      /\ last \in Result \cup {NoResult} /\ "rejected" \in Told
  BY DEF IInv, AllSound, Sound, Malformed, RouterTypeOK, Told, Gero
<1> QED
  BY <1>1, ReturnKept DEF Malformed

LEMMA RecordKept == ASSUME IInv, NEW s \in Submits, RecordLastResult(s) PROVE IInv'
<1>1. /\ submits[s] \in Submit /\ submits[s].at = "record" /\ Sound(submits[s], s)
      /\ last \in Result \cup {NoResult} /\ LastResult(s) \in Result
  BY LastResultType DEF IInv, RouterTypeOK, AllSound, RecordLastResult
<1> PICK outcome \in Outcomes(submits[s]) : Returns(s, outcome)
  BY DEF RecordLastResult
<1>2. outcome \in Told /\ Says(submits[s], outcome, s)
  BY <1>1, OutcomeType DEF Sound
<1>3. /\ Success(LastResult(s)) <=> submits[s].gero \in {"sent", "odd"} \/ submits[s].custom = "own"
      /\ LastResult(s).via = "custom" /\ ~LastResult(s).failed => s \in landed
      /\ LastResult(s).of = s
  BY <1>1 DEF Success, LastResult, Sound
<1>4. UNCHANGED <<setting, request, landed>> /\ last' \in {LastResult(s), last}
  BY DEF RecordLastResult
<1> QED
  BY <1>1, <1>2, <1>3, <1>4, ReturnKept DEF Says

LEMMA DefaultKept == ASSUME IInv, NEW s \in Submits, DefaultSubmit(s) PROVE IInv'
<1> PICK answer \in Gero :
        /\ submits[s].at \in {"default", "fallback"}
        /\ Lands(s, answer = "sent", answer \in {"odd", "unknown", "thrown"})
        /\ IF submits[s].at = "default"
           THEN \E outcome \in Heard(answer) : Returns(s, outcome)
           ELSE /\ submits' = [submits EXCEPT ![s].gero = answer, ![s].at = "record"]
                /\ UNCHANGED told
        /\ UNCHANGED <<setting, last, request>>
  BY DEF DefaultSubmit
<1>1. /\ submits[s] \in Submit /\ Sound(submits[s], s)
      /\ last \in Result \cup {NoResult} /\ Heard(answer) \subseteq Told
  BY DEF IInv, RouterTypeOK, AllSound, Told, Heard, Unclear
<1>2. /\ landed' \in {landed, landed \cup {s}}
      /\ answer = "sent" => s \in landed'
      /\ answer \in {"rejected", "refused"} => landed' = landed
  BY DEF Lands
<1>3. CASE submits[s].at = "default"
  <2> PICK outcome \in Heard(answer) : Returns(s, outcome)
    BY <1>3
  <2>1. s \notin landed /\ outcome \in Told
    BY <1>1, <1>3 DEF Sound
  <2>2. /\ outcome \in {"rejected", "unsent"} => s \notin landed'
        /\ outcome = "sent" => s \in landed'
    BY <1>2, <2>1 DEF Gero, Heard, Unclear
  <2> QED
    BY <1>1, <1>2, <1>3, <2>1, <2>2, ReturnKept
<1>4. CASE submits[s].at = "fallback"
  <2> PICK u : u = [submits[s] EXCEPT !.gero = answer, !.at = "record"]
    OBVIOUS
  <2>1. submits' = [submits EXCEPT ![s] = u] /\ UNCHANGED told
    BY <1>4
  <2>2. /\ u \in Submit /\ u.at = "record" /\ u.gero = answer
        /\ u.custom = submits[s].custom /\ u.seen = submits[s].seen
    BY <1>1 DEF Submit
  <2>3. /\ submits[s].custom \in Eligible /\ told[s] = "none"
        /\ submits[s].custom \notin MayHaveReached => s \notin landed
    BY <1>1, <1>4 DEF Sound
  <2>4. Outcomes(u) = Heard(FallbackTold(u.custom, answer))
    BY <2>2 DEF Outcomes, Gero
  <2>5. ASSUME NEW outcome \in Outcomes(u)
        PROVE  /\ outcome \in {"rejected", "unsent"} =>
                    answer = "rejected" /\ u.custom \notin MayHaveReached
               /\ outcome = "sent" => answer = "sent"
               /\ outcome \notin Unclear => (outcome = "sent" <=> answer \in {"sent", "odd"})
    BY <2>4, <2>5 DEF FallbackTold, Gero, Heard, Unclear
  <2>6. Sound(u, s)'
    <3>1. ASSUME NEW outcome \in Outcomes(u) PROVE Says(u, outcome, s)'
      BY <1>2, <2>2, <2>3, <2>5 DEF Says, Eligible
    <3> QED
      BY <2>1, <2>2, <2>3, <3>1 DEF Sound, Eligible
  <2>7. ByGero(u) => \/ u.seen = NoConfig
                     \/ /\ u.seen \in Config /\ u.seen.valid /\ u.seen.fallback
                        /\ u.custom \in Eligible
    BY <1>4, <2>2 DEF IInv, GeroOnlyIfAllowed, ByGero
  <2>8. AllSound' /\ GeroOnlyIfAllowed' /\ RejectedMeansRejected'
    <3>1. \A t \in Submits \ {s} : told'[t] = told[t] /\ (t \in landed' <=> t \in landed)
      BY <1>2, <2>1
    <3>2. UNCHANGED mixed
      BY DEF setting
    <3> QED
      BY <2>1, <2>2, <2>3, <2>6, <2>7, <3>1, <3>2, OthersKept
  <2>9. Recorded' /\ LastResultTrue'
    BY <1>2, <1>4, <2>1, <2>2, ResultKept
  <2>10. RouterTypeOK'
    BY <1>2, <2>1, <2>2 DEF IInv, RouterTypeOK, setting
  <2>11. OwnKey' /\ KeyStaysWithOrigin'
    BY DEF IInv, OwnKey, Own, KeyStaysWithOrigin, setting
  <2> QED
    BY <2>8, <2>9, <2>10, <2>11 DEF IInv
<1> QED
  BY <1>3, <1>4

LEMMA PostKept == ASSUME IInv, NEW s \in Submits, PostToEndpoint(s) PROVE IInv'
<1> PICK answer \in Custom :
        /\ submits[s].at = "post"
        /\ submits' = [submits EXCEPT ![s].custom = answer,
                              ![s].at = IF FallsBack(submits[s].seen, answer) THEN "fallback" ELSE "record"]
        /\ Lands(s, answer = "own", answer \in Accepted \cup MayHaveReached)
        /\ request' = <<submits[s].seen.origin, submits[s].key>>
        /\ UNCHANGED <<setting, last, told>>
  BY DEF PostToEndpoint
<1> DEFINE a == IF FallsBack(submits[s].seen, answer) THEN "fallback" ELSE "record"
<1> PICK u : u = [submits[s] EXCEPT !.custom = answer, !.at = a]
  OBVIOUS
<1>1. /\ submits[s] \in Submit /\ submits[s].seen \in Config /\ submits[s].seen.valid
      /\ Own(submits[s].seen.origin, submits[s].key) /\ submits[s].gero = "none"
      /\ told[s] = "none" /\ s \notin landed
  BY DEF IInv, RouterTypeOK, AllSound, Sound
<1>2. /\ landed' \in {landed, landed \cup {s}}
      /\ answer = "own" => s \in landed'
      /\ answer \notin Accepted \cup MayHaveReached => landed' = landed
  BY DEF Lands, Accepted
<1>3. submits' = [submits EXCEPT ![s] = u]
  OBVIOUS
<1>4. /\ u \in Submit /\ u.at = a /\ u.custom = answer /\ u.gero = "none"
      /\ u.seen = submits[s].seen
  BY <1>1 DEF Submit, Waiting
<1>5. Outcomes(u) = {CustomTold(answer)}
  BY <1>4 DEF Outcomes
<1>6. /\ CustomTold(answer) \in {"rejected", "unsent"} => answer = "rejected"
      /\ CustomTold(answer) = "sent" <=> answer = "own"
  BY DEF CustomTold, Custom, Accepted
<1>7. Sound(u, s)'
  <2>1. answer = "rejected" => s \notin landed'
    BY <1>1, <1>2 DEF Accepted, MayHaveReached
  <2>2. a = "fallback" => /\ answer \in Eligible
                          /\ answer \notin MayHaveReached => s \notin landed'
    BY <1>1, <1>2 DEF FallsBack, Eligible, Accepted, MayHaveReached
  <2>3. told'[s] = "none" /\ a \in {"fallback", "record"}
    BY <1>1
  <2> HIDE DEF a
  <2>4. CASE a = "fallback"
    BY <1>4, <2>2, <2>3, <2>4 DEF Sound
  <2>5. CASE a = "record"
    BY <1>2, <1>4, <1>5, <1>6, <2>1, <2>3, <2>5 DEF Sound, Says, Eligible
  <2> QED
    BY <2>3, <2>4, <2>5
<1>8. ByGero(u) => /\ u.seen \in Config /\ u.seen.valid /\ u.seen.fallback
                   /\ u.custom \in Eligible
  BY <1>1, <1>4 DEF ByGero, FallsBack
<1>9. AllSound' /\ GeroOnlyIfAllowed' /\ RejectedMeansRejected'
  <2>1. \A t \in Submits \ {s} : told'[t] = told[t] /\ (t \in landed' <=> t \in landed)
    BY <1>2
  <2>2. UNCHANGED mixed
    BY DEF setting
  <2> QED
    BY <1>1, <1>3, <1>4, <1>7, <1>8, <2>1, <2>2, OthersKept
<1>10. Recorded' /\ LastResultTrue'
  BY <1>2, <1>3, <1>4, ResultKept
<1>11. submits[s].seen.origin \in Origins /\ submits[s].key \in Keys
  BY <1>1 DEF Submit, Config
<1>12. RouterTypeOK'
  BY <1>2, <1>3, <1>4, <1>11 DEF IInv, RouterTypeOK, setting
<1>13. OwnKey' /\ KeyStaysWithOrigin'
  BY <1>1 DEF IInv, OwnKey, Own, KeyStaysWithOrigin, setting
<1> QED
  BY <1>9, <1>10, <1>12, <1>13 DEF IInv

-----------------------------------------------------------------------------
(* The settings pages touch no submit.                                       *)
LEMMA SettingKept ==
  ASSUME IInv, UNCHANGED <<submits, told, landed>>, last' \in {NoResult, last},
         mixed \subseteq mixed', RouterTypeOK', OwnKey', KeyStaysWithOrigin'
  PROVE  IInv'
<1>1. AllSound'
  BY DEF IInv, AllSound, Sound, Says, Own
<1>2. GeroOnlyIfAllowed' /\ RejectedMeansRejected'
  BY DEF IInv, GeroOnlyIfAllowed, RejectedMeansRejected
<1>3. Recorded' /\ LastResultTrue'
  BY DEF IInv, Recorded, LastResultTrue
<1> QED
  BY <1>1, <1>2, <1>3 DEF IInv

(* The value a form that validates sends is its origin's.                    *)
LEMMA FormKey ==
  ASSUME IInv, NEW f \in Form, Validates(f)
  PROVE  f.origin \in Origins /\ Own(f.origin, KeyFor(f.origin, f.header))
<1>1. f.header \in {"keep", "new", "none"} /\ f.origin \in Origins
  BY DEF Form
<1>2. f.header = "keep" => Own(f.origin, auth)
  BY DEF Validates, Keeps, IInv, OwnKey
<1> QED
  BY <1>1, <1>2 DEF KeyFor, Own

(* What a page of a save has in hand.                                        *)
LEMMA SavingType == ASSUME NEW f \in Form, NEW key \in Keys
                    PROVE [at |-> "write", form |-> f, key |-> key] \in Saving
  BY DEF Saving

LEMMA NoSaveType == NoSave \in Saving /\ NoSave.at = "idle" /\ Drop \in Saving /\ Drop.at = "drop"
  BY DEF NoSave, Drop, Saving, Keys

LEMMA CheckKept == ASSUME IInv, NEW p \in Pages, NEW f \in Form, CheckSave(p, f) PROVE IInv'
<1> PICK v : v = [at |-> "write", form |-> f, key |-> auth]
  OBVIOUS
<1>1. v \in Saving /\ v.form = f /\ v.key = auth
  BY SavingType DEF IInv, RouterTypeOK
<1>2. saving' = [saving EXCEPT ![p] = v]
  BY DEF CheckSave
<1>3. RouterTypeOK'
  BY <1>1, <1>2, SettingsAssumption DEF IInv, RouterTypeOK, CheckSave, Counted
<1>4. OwnKey'
  <2>1. f.header = "keep" => Own(f.origin, auth)
    BY FormKey DEF KeyFor, CheckSave, Form
  <2>2. UNCHANGED <<config, auth, mixed>>
    BY DEF CheckSave
  <2> QED
    BY <1>1, <1>2, <2>1, <2>2 DEF IInv, RouterTypeOK, OwnKey, Own
<1>5. KeyStaysWithOrigin'
  BY DEF IInv, KeyStaysWithOrigin, CheckSave
<1> QED
  BY <1>3, <1>4, <1>5, SettingKept DEF CheckSave

LEMMA SaveKept == ASSUME IInv, NEW p \in Pages, SaveSubmitApi(p) PROVE IInv'
<1> PICK f : f = saving[p].form
  OBVIOUS
<1>1. /\ f \in Form /\ f.origin \in Origins /\ f.header \in {"keep", "new", "none"}
      /\ f.header = "keep" => Own(f.origin, saving[p].key)
  BY DEF SaveSubmitApi, IInv, OwnKey, Form
<1>2. /\ auth' = KeyFor(f.origin, f.header) /\ saving' = [saving EXCEPT ![p] = Drop]
      /\ mixed' = mixed \cup IF f.header = "keep" /\ auth # saving[p].key
                              THEN {<<f.origin, auth>>} ELSE {}
      /\ UNCHANGED request
  BY DEF SaveSubmitApi
<1>3. config' \in Config /\ config'.origin = f.origin
  BY <1>1 DEF SaveSubmitApi, Config
<1>4. auth \in Keys /\ auth' \in Keys
  BY <1>1, <1>2 DEF IInv, RouterTypeOK, Keys, KeyFor
<1>5. mixed' \subseteq Origins \X Keys /\ mixed \subseteq mixed'
  BY <1>1, <1>2, <1>4 DEF IInv, RouterTypeOK
<1>6. RouterTypeOK'
  BY <1>2, <1>3, <1>4, <1>5, NoSaveType DEF IInv, RouterTypeOK, SaveSubmitApi
<1>7. OwnKey'
  <2>1. auth' \in {NoKey, f.origin} \/ <<f.origin, auth'>> \in mixed'
    BY <1>1, <1>2 DEF Own, KeyFor
  <2>2. \A q \in Pages : saving'[q].at = "write" => q # p /\ saving'[q] = saving[q]
    BY <1>2, NoSaveType DEF IInv, RouterTypeOK
  <2> QED
    BY <1>2, <1>3, <1>5, <2>1, <2>2 DEF IInv, OwnKey, Own
<1>8. KeyStaysWithOrigin'
  BY <1>2, <1>5 DEF IInv, KeyStaysWithOrigin
<1> QED
  BY <1>5, <1>6, <1>7, <1>8, SettingKept DEF SaveSubmitApi

(* A page goes on to a step that writes nothing of its form.                  *)
LEMMA PageKept ==
  ASSUME IInv, NEW p \in Pages, NEW v \in Saving, v.at # "write",
         saving' = [saving EXCEPT ![p] = v], UNCHANGED <<submits, told, landed, request, mixed>>,
         \/ UNCHANGED <<config, auth>>
         \/ config' = NoConfig /\ auth' = NoKey,
         settings' \in 0..MaxSettings, last' \in {NoResult, last}
  PROVE  IInv'
<1>1. RouterTypeOK'
  BY DEF IInv, RouterTypeOK, Keys
<1>2. OwnKey'
  BY DEF IInv, RouterTypeOK, OwnKey, Own
<1>3. KeyStaysWithOrigin'
  BY DEF IInv, KeyStaysWithOrigin
<1> QED
  BY <1>1, <1>2, <1>3, SettingKept

LEMMA SaveFailsKept == ASSUME IInv, NEW p \in Pages, SaveFails(p) PROVE IInv'
  BY NoSaveType, PageKept DEF SaveFails, IInv, RouterTypeOK

LEMMA ResetKept == ASSUME IInv, NEW p \in Pages, ResetSubmitApi(p) PROVE IInv'
<1>1. settings' \in 0..MaxSettings
  BY SettingsAssumption DEF IInv, RouterTypeOK, ResetSubmitApi, Counted
<1> QED
  BY <1>1, NoSaveType, PageKept DEF ResetSubmitApi

LEMMA DropKept == ASSUME IInv, NEW p \in Pages, DropLastResult(p) PROVE IInv'
  BY NoSaveType, PageKept DEF DropLastResult, IInv, RouterTypeOK

LEMMA TestKept == ASSUME IInv, NEW p \in Pages, NEW f \in Form, TestSubmitApi(p, f) PROVE IInv'
<1> PICK o, k : o = f.origin /\ k = KeyFor(f.origin, f.header)
  OBVIOUS
<1>1. o \in Origins /\ Own(o, k)
  BY FormKey DEF TestSubmitApi
<1>2. k \in Keys
  BY <1>1 DEF Own, Keys, IInv, RouterTypeOK
<1>3. request' = <<o, k>> /\ UNCHANGED <<setting, last, submits, told, landed>>
  BY DEF TestSubmitApi
<1>4. RouterTypeOK'
  BY <1>1, <1>2, <1>3 DEF IInv, RouterTypeOK, setting
<1>5. OwnKey' /\ KeyStaysWithOrigin'
  BY <1>1, <1>3 DEF IInv, OwnKey, Own, KeyStaysWithOrigin, setting
<1> QED
  BY <1>3, <1>4, <1>5, SettingKept DEF setting

(* A kill ends every submit that ran: it had told nobody.                    *)
LEMMA KillKept == ASSUME IInv, RouterKilled PROVE IInv'
<1>1. PICK S \in SUBSET {s \in Submits : submits[s].at \in Waiting} : landed' = landed \cup S
  BY DEF RouterKilled
<1>2. /\ Nothing("done") \in Submit /\ Nothing("done").at = "done"
      /\ Nothing("done").gero = "none"
  BY NothingType DEF Nothing
<1>3. \A s \in Submits : submits'[s] = IF submits[s].at = "idle" THEN submits[s] ELSE Nothing("done")
  BY DEF RouterKilled
<1>4. \A s \in S : submits[s].at \notin {"idle", "done"} /\ told[s] = "none"
  BY <1>1 DEF Waiting, IInv, AllSound, Sound
<1>5. UNCHANGED <<told, config, auth, settings, last, request>>
  BY DEF RouterKilled
<1>12. UNCHANGED mixed /\ saving' = [p \in Pages |-> NoSave]
  BY DEF RouterKilled
<1>6. AllSound'
  <2>1. SUFFICES ASSUME NEW s \in Submits PROVE Sound(submits[s], s)'
    BY DEF AllSound
  <2>2. CASE submits[s].at = "idle"
    <3>1. Sound(submits[s], s) /\ s \notin S /\ submits'[s] = submits[s]
      BY <1>3, <1>4, <2>2 DEF IInv, AllSound
    <3> QED
      BY <1>1, <1>5, <2>2, <3>1 DEF Sound
  <2>3. CASE submits[s].at # "idle"
    BY <1>2, <1>3, <2>3 DEF Sound
  <2> QED
    BY <2>2, <2>3
<1>7. GeroOnlyIfAllowed'
  BY <1>2, <1>3 DEF IInv, GeroOnlyIfAllowed, ByGero
<1>8. RejectedMeansRejected'
  BY <1>1, <1>4, <1>5 DEF IInv, RejectedMeansRejected
<1>9. Recorded' /\ LastResultTrue'
  <2>1. last # NoResult => last.of \in Submits
    BY DEF IInv, RouterTypeOK, Result
  <2> QED
    BY <1>1, <1>2, <1>3, <1>5, <2>1 DEF IInv, Recorded, LastResultTrue, Success
<1>10. RouterTypeOK'
  <2>1. submits' \in [Submits -> Submit]
    BY <1>2 DEF RouterKilled, IInv, RouterTypeOK
  <2> QED
    BY <1>1, <1>5, <1>12, <2>1, NoSaveType DEF IInv, RouterTypeOK
<1>11. OwnKey' /\ KeyStaysWithOrigin'
  BY <1>5, <1>12, NoSaveType DEF IInv, OwnKey, Own, KeyStaysWithOrigin
<1> QED
  BY <1>6, <1>7, <1>8, <1>9, <1>10, <1>11 DEF IInv

LEMMA StutterKept == ASSUME IInv, UNCHANGED routerVars PROVE IInv'
<1>1. RouterTypeOK'
  BY DEF IInv, RouterTypeOK, routerVars
<1>2. OwnKey' /\ KeyStaysWithOrigin'
  BY DEF IInv, OwnKey, Own, KeyStaysWithOrigin, routerVars
<1> QED
  BY <1>1, <1>2, SettingKept DEF routerVars

LEMMA NextIInv == IInv /\ [RouterNext]_routerVars => IInv'
<1> SUFFICES ASSUME IInv, [RouterNext]_routerVars PROVE IInv'
  OBVIOUS
<1>1. ASSUME NEW s \in Submits, Submitting(s) PROVE IInv'
  BY <1>1, WithoutKept, ReadKept, ReadFailsKept, MalformedKept, PostKept, DefaultKept, RecordKept
  DEF Submitting
<1>2. ASSUME NEW p \in Pages, Setting(p) PROVE IInv'
  BY <1>2, CheckKept, TestKept, SaveKept, SaveFailsKept, ResetKept, DropKept DEF Setting
<1>3. CASE RouterKilled \/ UNCHANGED routerVars
  BY <1>3, KillKept, StutterKept
<1> QED
  BY <1>1, <1>2, <1>3 DEF RouterNext

-----------------------------------------------------------------------------
(* Every variable keeps its type.                                            *)
THEOREM RouterTyped == RouterSpec => []RouterTypeOK
<1>1. IInv => RouterTypeOK
  BY DEF IInv
<1> QED BY <1>1, InitIInv, NextIInv, PTL DEF RouterSpec

(* No failure of the storage, of the setting or of a node makes the wallet   *)
(* use Gero's path for a user who keeps Gero out.                            *)
THEOREM FailsClosed == RouterSpec => []GeroOnlyIfAllowed
<1>1. IInv => GeroOnlyIfAllowed
  BY DEF IInv
<1> QED BY <1>1, InitIInv, NextIInv, PTL DEF RouterSpec

(* A rejection that a caller hears is one of both ways a submit may take.    *)
THEOREM Rejections == RouterSpec => []RejectedMeansRejected
<1>1. IInv => RejectedMeansRejected
  BY DEF IInv
<1> QED BY <1>1, InitIInv, NextIInv, PTL DEF RouterSpec

(* The settings page never claims what the caller was not told, over kills   *)
(* between the answer, the record and the return; where Gero's 2xx held no    *)
(* id, nothing is claimed (SameOfOddBody).                                   *)
THEOREM ResultsTrue == RouterSpec => []LastResultTrue
<1>1. IInv => LastResultTrue
  BY DEF IInv
<1> QED BY <1>1, InitIInv, NextIInv, PTL DEF RouterSpec

(* A value is sent to another origin than its own only if a save kept it     *)
(* after another page had replaced the one its check had seen.               *)
THEOREM KeysStay == RouterSpec => []KeyStaysWithOrigin
<1>1. IInv => KeyStaysWithOrigin
  BY DEF IInv
<1> QED BY <1>1, InitIInv, NextIInv, PTL DEF RouterSpec

=============================================================================
