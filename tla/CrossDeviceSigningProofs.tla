----------------------- MODULE CrossDeviceSigningProofs -----------------------
(***************************************************************************)
(* That the signing service keeps the promise of SignatureCalls, leaves    *)
(* nothing behind and forgets no call, for any number of calls, devices    *)
(* and re-issues.                                                          *)
(***************************************************************************)
EXTENDS CrossDeviceSigning, TLAPS

(* Entries and timers are those of a call's current request, which was sent. *)
OnlyCurrent ==
    /\ \A r \in waiting \cup ttl : r.n = call[r.call].cur
    /\ waiting \subseteq sent

(* The request being signed has a number no request before it had. *)
Numbered ==
    \A c \in Calls :
        /\ \A n \in call[c].issuing : n <= call[c].reissues + 1 /\ Req(c, n) \notin sent
        /\ \A r \in sent : r.call = c => r.n <= call[c].reissues + 1 /\ call[c].pc # "idle"

(* What the requester's steps read and write. *)
RequesterInv ==
    /\ call \in [Calls -> Closure]
    /\ waiting \subseteq Requests /\ ttl \subseteq Requests /\ sent \subseteq Requests
    /\ NothingLeftBehind /\ SomethingPending /\ OnlyCurrent /\ Numbered

(* A sheet shows a request that was sent. *)
SheetsSent == \A s \in sheets : s[2] \in sent

(* What a device surfaced it still remembers, unless it has expired. *)
Remembered ==
    \A p \in Peers, r \in Requests :
        shown[p][r] <= 1 /\ (shown[p][r] > 0 => r \in seen[p] \cup expired)

IInv == TypeOK /\ RequesterInv /\ SheetsSent /\ Remembered

-----------------------------------------------------------------------------
(* Records and requests. *)

LEMMA RequestType ==
    /\ \A c \in Calls, n \in Issues : Req(c, n) \in Requests
    /\ \A r \in Requests : r.call \in Calls /\ r.n \in Issues /\ r = Req(r.call, r.n)
    /\ \A c, d, n, m : Req(c, n) = Req(d, m) <=> c = d /\ n = m
    /\ \A c, n : Req(c, n).call = c /\ Req(c, n).n = n
BY DEF Req, Requests

LEMMA IssueType == Issues \subseteq Nat \ {0} /\ 1 \in Issues
BY ReissuesAssumption DEF Issues

LEMMA IdleType == Idle \in Closure
BY ReissuesAssumption DEF Idle, Closure

LEMMA CurrentIs ==
    ASSUME NEW c \in Calls
    PROVE  /\ \A r \in Requests : r \in Current(c) <=> r.call = c /\ r.n = call[c].cur
           /\ call[c].cur \in Issues => Current(c) = {Req(c, call[c].cur)}
           /\ Current(c) # {} => call[c].cur \in Issues
           /\ Current(c) \subseteq Requests
<1>1. Current(c) # {} => Req(c, call[c].cur) \in Requests
  BY DEF Current
<1>2. \A r \in Requests : r \in Current(c) <=> r = Req(c, call[c].cur)
  BY DEF Current
<1> QED BY <1>1, <1>2, RequestType DEF Current

LEMMA AnsweredIs ==
    ASSUME NEW r \in Closure, NEW outcome \in {"approved", "rejected"}
    PROVE  /\ Answered(r, outcome) \in Closure
           /\ Answered(r, outcome).pc = outcome
           /\ ~Answered(r, outcome).wake
           /\ Answered(r, outcome).issuing = r.issuing
           /\ Answered(r, outcome).reissues = r.reissues
           /\ Answered(r, outcome).cur = r.cur
<1> DEFINE s == [r EXCEPT !.pc = outcome]
<1>1. s \in Closure /\ s.pc = outcome /\ s.issuing = r.issuing /\ s.reissues = r.reissues /\ s.cur = r.cur
  BY DEF Closure
<1>2. Answered(r, outcome) = [s EXCEPT !.wake = FALSE]
  BY DEF Answered
<1> HIDE DEF s
<1> QED BY <1>1, <1>2 DEF Closure

-----------------------------------------------------------------------------
(* A step that changes the closure of one call and sends nothing. *)

LEMMA OneCall ==
    ASSUME RequesterInv, NEW c \in Calls,
           call' \in [Calls -> Closure],
           \A d \in Calls \ {c} : call'[d] = call[d],
           call'[c].cur = call[c].cur,
           call[c].reissues <= call'[c].reissues,
           call'[c].pc = "idle" => call[c].pc = "idle",
           \A n \in call'[c].issuing : n <= call'[c].reissues + 1 /\ Req(c, n) \notin sent,
           waiting' \subseteq waiting, ttl' \subseteq ttl, ttl \ Current(c) \subseteq ttl',
           call'[c].pc # "open" =>
               ~call'[c].wake /\ waiting' \subseteq waiting \ Current(c) /\ ttl' \subseteq ttl \ Current(c),
           call'[c].pc = "open" =>
               call'[c].issuing # {} \/ call'[c].wake \/ (Current(c) # {} /\ Current(c) \subseteq ttl'),
           sent' = sent
    PROVE  RequesterInv'
<1> USE DEF RequesterInv
<1>1. \A d \in Calls : call'[d].cur = call[d].cur /\ Current(d)' = Current(d)
  BY DEF Current, Requests, Issues
<1>2. \A d \in Calls \ {c} : IsOpen(d)' = IsOpen(d) /\ Current(d) \cap Current(c) = {}
  BY CurrentIs DEF IsOpen
<1>3. NothingLeftBehind'
  <2> SUFFICES ASSUME NEW d \in Calls, ~IsOpen(d)'
               PROVE  ~call'[d].wake /\ \A r \in waiting' \cup ttl' : r.call # d
    BY DEF NothingLeftBehind
  <2>1. CASE d = c
    <3>1. \A r \in waiting \cup ttl : r.call = c => r \in Current(c)
      BY CurrentIs DEF OnlyCurrent
    <3> QED BY <2>1, <3>1 DEF IsOpen
  <2>2. CASE d # c
    BY <2>2, <1>2 DEF NothingLeftBehind
  <2> QED BY <2>1, <2>2
<1>4. SomethingPending'
  <2> SUFFICES ASSUME NEW d \in Calls, IsOpen(d)'
               PROVE  \/ call'[d].issuing # {} \/ call'[d].wake
                      \/ Current(d)' # {} /\ Current(d)' \subseteq ttl'
    BY DEF SomethingPending
  <2>1. CASE d = c
    BY <2>1, <1>1 DEF IsOpen
  <2>2. CASE d # c
    BY <2>2, <1>1, <1>2 DEF SomethingPending
  <2> QED BY <2>1, <2>2
<1>5. OnlyCurrent'
  BY <1>1, RequestType DEF OnlyCurrent
<1>6. Numbered'
  <2> SUFFICES ASSUME NEW d \in Calls
               PROVE  /\ \A n \in call'[d].issuing : n <= call'[d].reissues + 1 /\ Req(d, n) \notin sent
                      /\ \A r \in sent : r.call = d => r.n <= call'[d].reissues + 1 /\ call'[d].pc # "idle"
    BY DEF Numbered
  <2>1. CASE d = c
    <3>1. \A r \in sent : r.call = c => r.n <= call[c].reissues + 1 /\ call[c].pc # "idle"
      BY DEF Numbered
    <3>2. call[c].reissues \in Nat /\ call'[c].reissues \in Nat
      BY ReissuesAssumption DEF Closure
    <3>3. \A r \in sent : r.n \in Nat
      BY RequestType, IssueType
    <3> QED BY <2>1, <3>1, <3>2, <3>3
  <2>2. CASE d # c
    BY <2>2 DEF Numbered
  <2> QED BY <2>1, <2>2
<1> QED BY <1>3, <1>4, <1>5, <1>6

(* A call that is answered by finish. *)
LEMMA FinishStep ==
    ASSUME RequesterInv, NEW c \in Calls, NEW r \in Closure,
           NEW outcome \in {"approved", "rejected"},
           r.cur = call[c].cur, r.reissues = call[c].reissues, r.issuing \subseteq call[c].issuing,
           Finish(c, r, outcome), sent' = sent
    PROVE  RequesterInv'
<1>1. call' = [call EXCEPT ![c] = Answered(r, outcome)]
  BY DEF Finish
<1>2. call' \in [Calls -> Closure] /\ call'[c] = Answered(r, outcome) /\ \A d \in Calls \ {c} : call'[d] = call[d]
  BY <1>1, AnsweredIs DEF RequesterInv
<1>3. call[c].reissues \in Nat
  BY ReissuesAssumption DEF RequesterInv, Closure
<1>4. \A n \in r.issuing : n <= call[c].reissues + 1 /\ Req(c, n) \notin sent
  BY DEF RequesterInv, Numbered
<1>5. waiting' = waiting \ Current(c) /\ ttl' = ttl \ Current(c)
  BY DEF Finish
<1>6. /\ call'[c].pc = outcome /\ ~call'[c].wake /\ call'[c].cur = call[c].cur
      /\ call'[c].reissues = call[c].reissues /\ call'[c].issuing = r.issuing
  BY <1>2, AnsweredIs
<1> QED BY <1>2, <1>3, <1>4, <1>5, <1>6, OneCall

-----------------------------------------------------------------------------
(* The requester's steps. *)

LEMMA RequestSignatureStep ==
    ASSUME RequesterInv, NEW c \in Calls, NEW to \in {{}, {Phone}}, RequestSignature(c, to)
    PROVE  RequesterInv'
<1> DEFINE r1 == [call[c] EXCEPT !.pc = "open"]
           r2 == [r1 EXCEPT !.to = to]
           r3 == [r2 EXCEPT !.issuing = {1}]
<1>1. call[c] \in Closure /\ call[c].pc = "idle"
  BY DEF RequesterInv, RequestSignature
<1>2. r1 \in Closure /\ r1.pc = "open" /\ r1.reissues = call[c].reissues /\ r1.cur = call[c].cur
  BY <1>1 DEF Closure
<1>3. r2 \in Closure /\ r2.pc = "open" /\ r2.reissues = call[c].reissues /\ r2.cur = call[c].cur
  <2> HIDE DEF r1
  <2> QED BY <1>2 DEF Closure
<1>4. /\ r3 \in Closure /\ r3.pc = "open" /\ r3.reissues = call[c].reissues /\ r3.cur = call[c].cur
      /\ r3.issuing = {1}
  <2> HIDE DEF r2
  <2> QED BY <1>3, IssueType DEF Closure
<1>5. call' = [call EXCEPT ![c] = r3]
  BY DEF RequestSignature, RequesterInv
<1> HIDE DEF r3
<1>6. call' \in [Calls -> Closure] /\ call'[c] = r3 /\ \A d \in Calls \ {c} : call'[d] = call[d]
  BY <1>4, <1>5 DEF RequesterInv
<1>7. call[c].reissues \in Nat
  BY <1>1, ReissuesAssumption DEF Closure
<1>8. Req(c, 1) \notin sent
  BY <1>1, RequestType DEF RequesterInv, Numbered
<1>9. waiting' = waiting /\ ttl' = ttl /\ sent' = sent
  BY DEF RequestSignature
<1> QED BY <1>1, <1>4, <1>6, <1>7, <1>8, <1>9, OneCall

(* The fields of a closure with its signature settled. *)
LEMMA Settled ==
    ASSUME NEW r \in Closure, NEW n
    PROVE  LET s == [r EXCEPT !.issuing = @ \ {n}] IN
           /\ s \in Closure /\ s.issuing = r.issuing \ {n}
           /\ s.pc = r.pc /\ s.cur = r.cur /\ s.wake = r.wake /\ s.reissues = r.reissues
BY DEF Closure

LEMMA SigningFailsStep ==
    ASSUME RequesterInv, NEW c \in Calls, NEW n \in Issues, SigningFails(c, n)
    PROVE  RequesterInv'
<1> DEFINE r == [call[c] EXCEPT !.issuing = @ \ {n}]
<1>1. call[c] \in Closure
  BY DEF RequesterInv
<1>2. /\ r \in Closure /\ r.issuing = call[c].issuing \ {n}
      /\ r.pc = call[c].pc /\ r.cur = call[c].cur /\ r.wake = call[c].wake /\ r.reissues = call[c].reissues
  BY <1>1, Settled
<1>3. sent' = sent
  BY DEF SigningFails
<1>4. CASE IsOpen(c)
  <2>1. Finish(c, r, "rejected")
    BY <1>4 DEF SigningFails
  <2> HIDE DEF r
  <2> QED BY <1>2, <1>3, <2>1, FinishStep
<1>5. CASE ~IsOpen(c)
  <2>1. call' = [call EXCEPT ![c] = r] /\ waiting' = waiting /\ ttl' = ttl
    BY <1>5 DEF SigningFails
  <2> HIDE DEF r
  <2>2. call' \in [Calls -> Closure] /\ call'[c] = r /\ \A d \in Calls \ {c} : call'[d] = call[d]
    BY <1>2, <2>1 DEF RequesterInv
  <2>3. ~call[c].wake /\ \A x \in waiting \cup ttl : x.call # c
    BY <1>5 DEF RequesterInv, NothingLeftBehind
  <2>4. waiting \cap Current(c) = {} /\ ttl \cap Current(c) = {}
    BY <2>3, CurrentIs DEF RequesterInv
  <2>5. call[c].reissues \in Nat /\ \A m \in r.issuing : m <= call[c].reissues + 1 /\ Req(c, m) \notin sent
    BY <1>2, ReissuesAssumption DEF RequesterInv, Numbered, Closure
  <2> QED BY <1>2, <1>3, <1>5, <2>1, <2>2, <2>3, <2>4, <2>5, OneCall DEF IsOpen
<1> QED BY <1>4, <1>5

LEMMA TtlFiresStep ==
    ASSUME RequesterInv, NEW r \in Requests, TtlFires(r)
    PROVE  RequesterInv'
<1>1. r.call \in Calls /\ call[r.call] \in Closure /\ r \in ttl /\ sent' = sent
  BY RequestType DEF RequesterInv, TtlFires
<1>2. IsOpen(r.call)
  BY <1>1 DEF RequesterInv, NothingLeftBehind
<1>3. Finish(r.call, call[r.call], "rejected")
  BY <1>2 DEF TtlFires
<1> QED BY <1>1, <1>3, FinishStep

LEMMA WakeTimeoutStep ==
    ASSUME RequesterInv, NEW c \in Calls, WakeTimeout(c)
    PROVE  RequesterInv'
<1>1. Finish(c, call[c], "rejected") /\ sent' = sent /\ call[c] \in Closure
  BY DEF WakeTimeout, RequesterInv
<1> QED BY <1>1, FinishStep

LEMMA ReceiveResponseStep ==
    ASSUME RequesterInv, NEW m \in Responses, ReceiveResponse(m)
    PROVE  RequesterInv'
<1> DEFINE c == m.req.call
           outcome == IF Decided(m) = "approved" THEN "approved" ELSE "rejected"
<1>1. c \in Calls /\ call[c] \in Closure /\ sent' = sent
  BY RequestType DEF RequesterInv, ReceiveResponse, Responses
<1>2. Finish(c, call[c], outcome)
  BY DEF ReceiveResponse
<1> HIDE DEF c, outcome
<1>3. outcome \in {"approved", "rejected"}
  BY DEF outcome
<1> QED BY <1>1, <1>2, <1>3, FinishStep

(* A step that leaves the answer, the numbers and the signing of a call alone. *)
LEMMA WakeStep ==
    ASSUME RequesterInv, NEW c \in Calls, NEW r \in Closure,
           IsOpen(c), r.pc = call[c].pc, r.cur = call[c].cur, r.issuing = call[c].issuing,
           r.reissues = call[c].reissues, r.wake,
           call' = [call EXCEPT ![c] = r],
           waiting' = waiting, ttl' \in {ttl, ttl \ Current(c)}, sent' = sent
    PROVE  RequesterInv'
<1>1. call' \in [Calls -> Closure] /\ call'[c] = r /\ \A d \in Calls \ {c} : call'[d] = call[d]
  BY DEF RequesterInv
<1>2. call[c].reissues \in Nat
  BY ReissuesAssumption DEF RequesterInv, Closure
<1>3. \A n \in r.issuing : n <= call[c].reissues + 1 /\ Req(c, n) \notin sent
  BY DEF RequesterInv, Numbered
<1>4. ttl' \subseteq ttl /\ ttl \ Current(c) \subseteq ttl'
  OBVIOUS
<1> QED BY <1>1, <1>2, <1>3, <1>4, OneCall DEF IsOpen

LEMMA LookupType == \A c \in Calls : Lookup(c) \in {"back", "away"}
BY DEF Lookup

LEMMA WakePendingStep ==
    ASSUME RequesterInv, NEW r \in Requests, WakePending(r)
    PROVE  RequesterInv'
<1> DEFINE c == r.call
           r1 == [call[c] EXCEPT !.wake = TRUE]
           r2 == [r1 EXCEPT !.check = IF @ = "no" THEN Lookup(c) ELSE @]
<1>1. c \in Calls /\ call[c] \in Closure /\ IsOpen(c)
  BY RequestType DEF RequesterInv, WakePending
<1>2. /\ r1 \in Closure /\ r1.wake
      /\ r1.pc = call[c].pc /\ r1.cur = call[c].cur /\ r1.issuing = call[c].issuing
      /\ r1.reissues = call[c].reissues
  BY <1>1 DEF Closure
<1>3. /\ r2 \in Closure /\ r2.wake
      /\ r2.pc = call[c].pc /\ r2.cur = call[c].cur /\ r2.issuing = call[c].issuing
      /\ r2.reissues = call[c].reissues
  <2> HIDE DEF r1
  <2> QED BY <1>1, <1>2, LookupType DEF Closure
<1>4. call' = [call EXCEPT ![c] = r2]
  BY <1>1 DEF WakePending, RequesterInv
<1>5. waiting' = waiting /\ ttl' = ttl \ Current(c) /\ sent' = sent
  BY DEF WakePending
<1> HIDE DEF r2, c
<1> QED BY <1>1, <1>3, <1>4, <1>5, WakeStep

LEMMA PollTickStep ==
    ASSUME RequesterInv, NEW c \in Calls, PollTick(c)
    PROVE  RequesterInv'
<1> DEFINE r == [call[c] EXCEPT !.check = Lookup(c)]
<1>1. call[c] \in Closure /\ IsOpen(c) /\ call[c].wake
  BY DEF RequesterInv, PollTick
<1>2. /\ r \in Closure /\ r.wake
      /\ r.pc = call[c].pc /\ r.cur = call[c].cur /\ r.issuing = call[c].issuing
      /\ r.reissues = call[c].reissues
  BY <1>1, LookupType DEF Closure
<1>3. call' = [call EXCEPT ![c] = r] /\ waiting' = waiting /\ ttl' = ttl /\ sent' = sent
  BY DEF PollTick
<1> HIDE DEF r
<1> QED BY <1>1, <1>2, <1>3, WakeStep

LEMMA LookupDoneStep ==
    ASSUME RequesterInv, NEW c \in Calls, LookupDone(c)
    PROVE  RequesterInv'
<1> DEFINE r == [call[c] EXCEPT !.check = "no"]
           r1 == [r EXCEPT !.wake = FALSE]
           r2 == [r1 EXCEPT !.reissues = @ + 1]
           r3 == [r2 EXCEPT !.issuing = @ \cup {call[c].reissues + 2}]
           back == call[c].check = "back" /\ IsOpen(c)
<1>1. call[c] \in Closure /\ sent' = sent /\ call[c].reissues \in Nat
  BY ReissuesAssumption DEF RequesterInv, LookupDone, Closure
<1>2. /\ r \in Closure
      /\ r.pc = call[c].pc /\ r.cur = call[c].cur /\ r.issuing = call[c].issuing
      /\ r.reissues = call[c].reissues /\ r.wake = call[c].wake
  BY <1>1 DEF Closure
<1>3. \A n \in call[c].issuing : n <= call[c].reissues + 1 /\ Req(c, n) \notin sent
  BY DEF RequesterInv, Numbered
<1>4. \A x \in sent : x.call = c => x.n <= call[c].reissues + 1
  BY DEF RequesterInv, Numbered
<1>5. CASE ~back /\ call' = [call EXCEPT ![c] = r] /\ waiting' = waiting /\ ttl' = ttl
  <2> HIDE DEF r
  <2>1. call' \in [Calls -> Closure] /\ call'[c] = r /\ \A d \in Calls \ {c} : call'[d] = call[d]
    BY <1>2, <1>5 DEF RequesterInv
  <2>2. call[c].pc # "open" => ~call[c].wake /\ waiting \cap Current(c) = {} /\ ttl \cap Current(c) = {}
    BY CurrentIs DEF RequesterInv, NothingLeftBehind, IsOpen
  <2>3. call[c].pc = "open" =>
            call[c].issuing # {} \/ call[c].wake \/ (Current(c) # {} /\ Current(c) \subseteq ttl)
    BY DEF RequesterInv, SomethingPending, IsOpen
  <2> QED BY <1>1, <1>2, <1>3, <1>5, <2>1, <2>2, <2>3, OneCall
<1>6. CASE back /\ Capped(c) /\ Exhausted(c, r)
  <2>1. Finish(c, r, "rejected")
    BY <1>6 DEF Exhausted
  <2> HIDE DEF r
  <2> QED BY <1>1, <1>2, <2>1, FinishStep
<1>7. CASE back /\ ~Capped(c) /\ call' = [call EXCEPT ![c] = r3] /\ waiting' = waiting /\ ttl' = ttl
  <2>1. call[c].reissues + 1 \in 0..MaxReissues /\ call[c].reissues + 2 \in Issues
    BY <1>1, <1>7, ReissuesAssumption DEF Capped, Issues
  <2>2. /\ r1 \in Closure
        /\ r1.pc = call[c].pc /\ r1.cur = call[c].cur /\ r1.issuing = call[c].issuing
        /\ r1.reissues = call[c].reissues
    <3> HIDE DEF r
    <3> QED BY <1>2 DEF Closure
  <2>3. /\ r2 \in Closure
        /\ r2.pc = call[c].pc /\ r2.cur = call[c].cur /\ r2.issuing = call[c].issuing
        /\ r2.reissues = call[c].reissues + 1
    <3> HIDE DEF r1
    <3> QED BY <2>1, <2>2 DEF Closure
  <2>4. /\ r3 \in Closure
        /\ r3.pc = call[c].pc /\ r3.cur = call[c].cur
        /\ r3.issuing = call[c].issuing \cup {call[c].reissues + 2}
        /\ r3.reissues = call[c].reissues + 1
    <3> HIDE DEF r2
    <3> QED BY <2>1, <2>3 DEF Closure
  <2> HIDE DEF r3
  <2>5. call' \in [Calls -> Closure] /\ call'[c] = r3 /\ \A d \in Calls \ {c} : call'[d] = call[d]
    BY <2>4, <1>7 DEF RequesterInv
  <2>6. Req(c, call[c].reissues + 2) \notin sent
    BY <1>1, <1>4, RequestType
  <2>7. \A n \in call[c].issuing : n \in Nat
    BY <1>1, IssueType DEF Closure
  <2>8. \A n \in r3.issuing : n <= r3.reissues + 1 /\ Req(c, n) \notin sent
    BY <1>1, <1>3, <2>4, <2>6, <2>7
  <2>9. call[c].pc = "open"
    BY <1>7 DEF IsOpen
  <2> QED BY <1>1, <1>7, <2>4, <2>5, <2>8, <2>9, OneCall
<1>8. r3 = [r EXCEPT !.wake = FALSE, !.reissues = @ + 1, !.issuing = @ \cup {call[c].reissues + 2}]
  OBVIOUS
<1> QED BY <1>5, <1>6, <1>7, <1>8 DEF LookupDone

LEMMA SignedStep ==
    ASSUME RequesterInv, NEW c \in Calls, NEW n \in Issues, Signed(c, n)
    PROVE  RequesterInv'
<1> DEFINE r == [call[c] EXCEPT !.issuing = @ \ {n}]
           s == [r EXCEPT !.cur = n]
<1> USE DEF RequesterInv
<1>1. call[c] \in Closure /\ n \in call[c].issuing /\ call[c].reissues \in Nat
  BY ReissuesAssumption DEF Signed, Closure
<1>2. /\ r \in Closure /\ r.issuing = call[c].issuing \ {n}
      /\ r.pc = call[c].pc /\ r.cur = call[c].cur /\ r.wake = call[c].wake /\ r.reissues = call[c].reissues
  BY <1>1, Settled
<1>3. \A m \in call[c].issuing : m <= call[c].reissues + 1 /\ Req(c, m) \notin sent
  BY DEF Numbered
<1>4. CASE ~StillWanted(c)
  <2>1. call' = [call EXCEPT ![c] = r] /\ waiting' = waiting /\ ttl' = ttl /\ sent' = sent
    BY <1>4 DEF Signed
  <2> HIDE DEF r
  <2>2. call' \in [Calls -> Closure] /\ call'[c] = r /\ \A d \in Calls \ {c} : call'[d] = call[d]
    BY <1>2, <2>1
  <2>3. ~call[c].wake /\ \A x \in waiting \cup ttl : x.call # c
    BY <1>4 DEF NothingLeftBehind, StillWanted
  <2>4. waiting \cap Current(c) = {} /\ ttl \cap Current(c) = {}
    BY <2>3, CurrentIs
  <2> QED BY <1>1, <1>2, <1>3, <1>4, <2>1, <2>2, <2>3, <2>4, OneCall DEF IsOpen, StillWanted
<1>5. CASE StillWanted(c)
  <2>1. /\ call' = [call EXCEPT ![c] = s]
        /\ waiting' = (waiting \ Current(c)) \cup {Req(c, n)}
        /\ ttl' = (ttl \ Current(c)) \cup {Req(c, n)}
        /\ sent' = sent \cup {Req(c, n)}
    BY <1>5 DEF Signed, Running
  <2>2. /\ s \in Closure /\ s.issuing = call[c].issuing \ {n} /\ s.cur = n
        /\ s.pc = call[c].pc /\ s.wake = call[c].wake /\ s.reissues = call[c].reissues
    <3> HIDE DEF r
    <3> QED BY <1>2 DEF Closure
  <2> HIDE DEF s
  <2>3. call' \in [Calls -> Closure] /\ call'[c] = s /\ \A d \in Calls \ {c} : call'[d] = call[d]
    BY <2>1, <2>2
  <2>4. Req(c, n) \in Requests
    BY RequestType
  <2>5. \A d \in Calls \ {c} : /\ Current(d)' = Current(d) /\ Req(c, n) \notin Current(d)
                               /\ Current(d) \cap Current(c) = {} /\ IsOpen(d)' = IsOpen(d)
    <3>1. \A d \in Calls \ {c} : Current(d)' = Current(d)
      BY <2>3 DEF Current, Requests, Issues
    <3> QED BY <2>3, <2>4, <3>1, CurrentIs, RequestType DEF IsOpen
  <2>6. Current(c)' = {Req(c, n)}
    BY <2>2, <2>3, <2>4 DEF Current, Req, Requests, Issues
  <2>7. \A x \in (waiting \cup ttl) \ Current(c) : x.call # c
    BY CurrentIs DEF OnlyCurrent
  <2>8. NothingLeftBehind'
    <3> SUFFICES ASSUME NEW d \in Calls, ~IsOpen(d)'
                 PROVE  ~call'[d].wake /\ \A x \in waiting' \cup ttl' : x.call # d
      BY DEF NothingLeftBehind
    <3>1. d # c
      BY <1>5, <2>2, <2>3 DEF IsOpen, StillWanted
    <3> QED BY <2>1, <2>3, <2>5, <3>1, RequestType DEF NothingLeftBehind
  <2>9. SomethingPending'
    <3> SUFFICES ASSUME NEW d \in Calls, IsOpen(d)'
                 PROVE  \/ call'[d].issuing # {} \/ call'[d].wake
                        \/ Current(d)' # {} /\ Current(d)' \subseteq ttl'
      BY DEF SomethingPending
    <3>1. CASE d = c
      BY <2>1, <2>6, <3>1
    <3>2. CASE d # c
      BY <2>1, <2>3, <2>5, <3>2 DEF SomethingPending
    <3> QED BY <3>1, <3>2
  <2>10. OnlyCurrent'
    <3>1. \A x \in waiting' \cup ttl' : x.n = call'[x.call].cur
      BY <2>1, <2>2, <2>3, <2>7, RequestType DEF OnlyCurrent
    <3> QED BY <2>1, <3>1 DEF OnlyCurrent
  <2>11. Numbered'
    <3> SUFFICES ASSUME NEW d \in Calls
                 PROVE  /\ \A m \in call'[d].issuing : m <= call'[d].reissues + 1 /\ Req(d, m) \notin sent'
                        /\ \A x \in sent' : x.call = d => x.n <= call'[d].reissues + 1 /\ call'[d].pc # "idle"
      BY DEF Numbered
    <3>1. CASE d = c
      <4>1. \A x \in sent : x.call = c => x.n <= call[c].reissues + 1 /\ call[c].pc # "idle"
        BY DEF Numbered
      <4>2. call[c].pc = "open"
        BY <1>5 DEF StillWanted, IsOpen
      <4> QED BY <1>1, <1>3, <2>1, <2>2, <2>3, <3>1, <4>1, <4>2, RequestType
    <3>2. CASE d # c
      BY <2>1, <2>3, <3>2, RequestType DEF Numbered
    <3> QED BY <3>1, <3>2
  <2>12. waiting' \subseteq Requests /\ ttl' \subseteq Requests /\ sent' \subseteq Requests
    BY <2>1, <2>4
  <2> QED BY <2>3, <2>8, <2>9, <2>10, <2>11, <2>12
<1> QED BY <1>4, <1>5

LEMMA DisposeStep ==
    ASSUME RequesterInv, Dispose
    PROVE  RequesterInv'
<1> USE DEF RequesterInv
<1>1. waiting' = {} /\ ttl' = {} /\ sent' = sent
  BY DEF Dispose
<1>2. \A c \in Calls : /\ call'[c] \in Closure /\ call'[c].pc # "open" /\ ~call'[c].wake
                       /\ call'[c].issuing = call[c].issuing /\ call'[c].reissues = call[c].reissues
                       /\ call'[c].pc = "idle" => call[c].pc = "idle"
  <2> TAKE c \in Calls
  <2>1. CASE IsOpen(c)
    <3>1. call'[c] = Answered(call[c], "rejected")
      BY <2>1 DEF Dispose
    <3> QED BY <3>1, AnsweredIs
  <2>2. CASE ~IsOpen(c)
    BY <2>2 DEF Dispose, NothingLeftBehind, IsOpen
  <2> QED BY <2>1, <2>2
<1>3. call' \in [Calls -> Closure]
  <2>1. call' = [c \in Calls |-> call'[c]]
    BY DEF Dispose
  <2> QED BY <1>2, <2>1
<1>4. NothingLeftBehind' /\ SomethingPending' /\ OnlyCurrent'
  BY <1>1, <1>2 DEF NothingLeftBehind, SomethingPending, OnlyCurrent, IsOpen
<1>5. Numbered'
  BY <1>1, <1>2 DEF Numbered
<1> QED BY <1>1, <1>3, <1>4, <1>5

LEMMA SameClosures ==
    ASSUME RequesterInv, call' = call, waiting' = waiting, ttl' = ttl, sent' = sent
    PROVE  RequesterInv'
BY DEF RequesterInv, NothingLeftBehind, SomethingPending, OnlyCurrent, Numbered, Current, IsOpen

-----------------------------------------------------------------------------
(* The other variables, and the whole invariant. *)

LEMMA InitInv == Init => IInv
<1> SUFFICES ASSUME Init PROVE IInv
  OBVIOUS
<1>1. TypeOK
  BY IdleType DEF Init, TypeOK
<1>2. RequesterInv
  BY <1>1, IdleType
  DEF Init, TypeOK, RequesterInv, NothingLeftBehind, SomethingPending, OnlyCurrent, Numbered, IsOpen, Idle
<1>3. SheetsSent /\ Remembered
  BY DEF Init, SheetsSent, Remembered
<1> QED BY <1>1, <1>2, <1>3 DEF IInv

LEMMA RequesterStep ==
    ASSUME IInv, Requester
    PROVE  RequesterInv'
<1> USE DEF IInv
<1>1. ASSUME NEW c \in Calls, NEW to \in {{}, {Phone}}, RequestSignature(c, to) PROVE RequesterInv'
  BY <1>1, RequestSignatureStep
<1>2. ASSUME NEW c \in Calls, PollTick(c) PROVE RequesterInv'
  BY <1>2, PollTickStep
<1>3. ASSUME NEW c \in Calls, LookupDone(c) PROVE RequesterInv'
  BY <1>3, LookupDoneStep
<1>4. ASSUME NEW c \in Calls, WakeTimeout(c) PROVE RequesterInv'
  BY <1>4, WakeTimeoutStep
<1>5. ASSUME NEW c \in Calls, NEW n \in Issues, Signed(c, n) PROVE RequesterInv'
  BY <1>5, SignedStep
<1>6. ASSUME NEW c \in Calls, NEW n \in Issues, SigningFails(c, n) PROVE RequesterInv'
  BY <1>6, SigningFailsStep
<1>7. ASSUME NEW r \in Requests, TtlFires(r) PROVE RequesterInv'
  BY <1>7, TtlFiresStep
<1>8. ASSUME NEW r \in Requests, WakePending(r) PROVE RequesterInv'
  BY <1>8, WakePendingStep
<1>9. ASSUME NEW m \in responses, ReceiveResponse(m) PROVE RequesterInv'
  BY <1>9, ReceiveResponseStep DEF TypeOK
<1>10. CASE Dispose
  BY <1>10, DisposeStep
<1> QED BY <1>1, <1>2, <1>3, <1>4, <1>5, <1>6, <1>7, <1>8, <1>9, <1>10 DEF Requester

(* What no step of the requester touches, and what it only adds to. *)
LEMMA RequesterFrame ==
    ASSUME TypeOK, Requester
    PROVE  /\ UNCHANGED <<responses, world, approver>>
           /\ sent \subseteq sent'
           /\ machine' \in [Requests -> {"none", "pending", "approved", "rejected", "expired"}]
           /\ alive' \in BOOLEAN
<1> DEFINE Goal == /\ UNCHANGED <<responses, world, approver>>
                   /\ sent \subseteq sent'
                   /\ machine' \in [Requests -> {"none", "pending", "approved", "rejected", "expired"}]
                   /\ alive' \in BOOLEAN
<1> USE DEF TypeOK
<1>1. ASSUME NEW c \in Calls, NEW to \in {{}, {Phone}}, RequestSignature(c, to) PROVE Goal
  BY <1>1 DEF RequestSignature
<1>2. ASSUME NEW c \in Calls, PollTick(c) \/ LookupDone(c) \/ WakeTimeout(c) PROVE Goal
  BY <1>2 DEF PollTick, LookupDone, WakeTimeout
<1>3. ASSUME NEW c \in Calls, NEW n \in Issues, Signed(c, n) PROVE Goal
  BY <1>3 DEF Signed
<1>4. ASSUME NEW c \in Calls, NEW n \in Issues, SigningFails(c, n) PROVE Goal
  BY <1>4 DEF SigningFails
<1>5. ASSUME NEW r \in Requests, TtlFires(r) \/ WakePending(r) PROVE Goal
  BY <1>5 DEF TtlFires, WakePending
<1>6. ASSUME NEW m \in responses, ReceiveResponse(m) PROVE Goal
  BY <1>6 DEF ReceiveResponse, Decided, Responses
<1>7. CASE Dispose
  BY <1>7 DEF Dispose
<1> QED BY <1>1, <1>2, <1>3, <1>4, <1>5, <1>6, <1>7 DEF Requester

LEMMA ReceiveRequestStep ==
    ASSUME IInv, NEW p \in Peers, NEW r \in Requests, ReceiveRequest(p, r)
    PROVE  TypeOK' /\ SheetsSent' /\ Remembered'
<1> USE DEF IInv, TypeOK
<1> DEFINE kept == seen[p] \ expired
<1>1. r \in sent /\ UNCHANGED <<requester, sent, responses, world>>
  BY DEF ReceiveRequest
<1>2. CASE Fresh(r, kept)
  <2>1. /\ seen' = [seen EXCEPT ![p] = kept \cup {r}]
        /\ sheets' = sheets \cup {<<p, r>>}
        /\ shown' = [shown EXCEPT ![p][r] = IF @ = 2 THEN @ ELSE @ + 1]
    BY <1>2 DEF ReceiveRequest
  <2>2. shown[p] \in [Requests -> 0..2] /\ shown[p][r] = 0
    BY <1>2 DEF Fresh, Remembered
  <2>3. shown' = [shown EXCEPT ![p] = [shown[p] EXCEPT ![r] = 1]]
    BY <2>1, <2>2
  <2>4. shown' \in [Peers -> [Requests -> 0..2]]
    BY <2>2, <2>3
  <2>5. seen' \in [Peers -> SUBSET Requests]
    BY <2>1
  <2>6. TypeOK'
    BY <1>1, <2>1, <2>4, <2>5 DEF requester, world
  <2>7. SheetsSent'
    BY <1>1, <2>1 DEF SheetsSent
  <2>8. Remembered'
    <3> SUFFICES ASSUME NEW q \in Peers, NEW x \in Requests
                 PROVE  shown'[q][x] <= 1 /\ (shown'[q][x] > 0 => x \in seen'[q] \cup expired')
      BY DEF Remembered
    <3>1. shown[q][x] \in Nat /\ shown[q][x] <= 1 /\ (shown[q][x] > 0 => x \in seen[q] \cup expired)
      BY DEF Remembered
    <3>2. expired' = expired
      BY <1>1 DEF world
    <3>3. CASE q # p
      BY <2>1, <2>3, <3>1, <3>2, <3>3
    <3>4. CASE q = p /\ x # r
      <4>1. shown'[q][x] = shown[q][x] /\ seen'[q] = kept \cup {r}
        BY <2>1, <2>2, <2>3, <3>4
      <4> QED BY <3>1, <3>2, <3>4, <4>1
    <3>5. CASE q = p /\ x = r
      <4>1. shown'[q][x] = 1 /\ seen'[q] = kept \cup {r}
        BY <2>1, <2>2, <2>3, <3>5
      <4> QED BY <3>5, <4>1
    <3> QED BY <3>3, <3>4, <3>5
  <2> QED BY <2>6, <2>7, <2>8
<1>3. CASE ~Fresh(r, kept)
  <2>1. seen' = [seen EXCEPT ![p] = kept] /\ sheets' = sheets /\ shown' = shown
    BY <1>3 DEF ReceiveRequest
  <2>2. seen' \in [Peers -> SUBSET Requests]
    BY <2>1
  <2> QED BY <1>1, <2>1, <2>2 DEF requester, world, SheetsSent, Remembered
<1> QED BY <1>2, <1>3

LEMMA ApproverStep ==
    ASSUME IInv, Approver
    PROVE  TypeOK' /\ SheetsSent' /\ Remembered'
<1> USE DEF IInv, TypeOK
<1>1. ASSUME NEW p \in Peers, NEW r \in Requests, ReceiveRequest(p, r)
      PROVE  TypeOK' /\ SheetsSent' /\ Remembered'
  BY <1>1, ReceiveRequestStep
<1>2. ASSUME NEW p \in Peers, NEW r \in Requests, NEW d \in {"approved", "rejected"}, UserDecides(p, r, d)
      PROVE  TypeOK' /\ SheetsSent' /\ Remembered'
  <2>1. [req |-> r, by |-> p, decision |-> d] \in Responses
    BY DEF Responses
  <2> QED BY <1>2, <2>1 DEF UserDecides, SheetsSent, Remembered, requester, world
<1>3. ASSUME NEW p \in Peers, PeerRestarts(p)
      PROVE  TypeOK' /\ SheetsSent' /\ Remembered'
  <2>1. /\ seen' = [seen EXCEPT ![p] = {}]
        /\ sheets' \subseteq sheets
        /\ shown' = [shown EXCEPT ![p] = [r \in Requests |-> 0]]
        /\ UNCHANGED <<requester, sent, responses, world>>
    BY <1>3 DEF PeerRestarts
  <2>2. [r \in Requests |-> 0] \in [Requests -> 0..2]
    OBVIOUS
  <2>3. TypeOK'
    BY <2>1, <2>2 DEF requester, world
  <2>4. \A r \in Requests : shown'[p][r] = 0
    BY <2>1
  <2> QED BY <2>1, <2>3, <2>4 DEF SheetsSent, Remembered, world
<1> QED BY <1>1, <1>2, <1>3 DEF Approver

LEMMA NextInv == IInv /\ [Next]_vars => IInv'
<1> SUFFICES ASSUME IInv, [Next]_vars PROVE IInv'
  OBVIOUS
<1> USE DEF IInv
<1>1. CASE Requester
  <2>1. RequesterInv'
    BY <1>1, RequesterStep
  <2>2. /\ UNCHANGED <<responses, world, approver>>
        /\ sent \subseteq sent'
        /\ machine' \in [Requests -> {"none", "pending", "approved", "rejected", "expired"}]
        /\ alive' \in BOOLEAN
    BY <1>1, RequesterFrame
  <2>3. TypeOK'
    BY <2>1, <2>2 DEF TypeOK, RequesterInv, world, approver
  <2>4. SheetsSent' /\ Remembered'
    BY <2>2 DEF SheetsSent, Remembered, world, approver
  <2> QED BY <2>1, <2>3, <2>4
<1>2. CASE Approver
  <2>1. UNCHANGED <<requester, sent>>
    BY <1>2 DEF Approver, PeerRestarts, ReceiveRequest, UserDecides
  <2> QED BY <1>2, <2>1, ApproverStep, SameClosures DEF requester
<1>3. CASE World
  <2>1. /\ UNCHANGED <<requester, sent, responses, approver>>
        /\ expired \subseteq expired' /\ expired' \subseteq sent /\ online' \subseteq Peers
    BY <1>3 DEF World, Devices, Expire, TypeOK
  <2>2. RequesterInv'
    BY <2>1, SameClosures DEF requester
  <2>3. TypeOK'
    BY <2>1 DEF TypeOK, requester, approver
  <2>4. SheetsSent' /\ Remembered'
    BY <2>1 DEF SheetsSent, Remembered, approver
  <2> QED BY <2>2, <2>3, <2>4
<1>4. CASE UNCHANGED vars
  <2>1. RequesterInv'
    BY <1>4, SameClosures DEF vars, requester
  <2> QED BY <1>4, <2>1 DEF vars, requester, world, approver, TypeOK, SheetsSent, Remembered
<1> QED BY <1>1, <1>2, <1>3, <1>4 DEF Next

THEOREM Inductive == Spec => []IInv
BY InitInv, NextInv, PTL DEF Spec

(* The variables of the service keep their types. *)
THEOREM TypeCorrect == Spec => []TypeOK
BY Inductive, PTL DEF IInv

(* An answered call leaves no wake timer and no pending entry behind. *)
THEOREM NothingLeft == Spec => []NothingLeftBehind
BY Inductive, PTL DEF IInv, RequesterInv

(* No open call is forgotten: something that will answer it is under way. *)
THEOREM CallsPending == Spec => []SomethingPending
BY Inductive, PTL DEF IInv, RequesterInv

(* One run of the approver surfaces a request at most once. *)
THEOREM Surfaced == Spec => []SurfacedOnce
<1>1. IInv => SurfacedOnce
  BY DEF IInv, Remembered, SurfacedOnce
<1> QED BY <1>1, Inductive, PTL

-----------------------------------------------------------------------------
(* The steps as the promise sees them. *)

Answer == [c \in Calls |-> call[c].pc]
ApprovedRequests == {m.req : m \in {x \in responses : x.decision = "approved"}}

(* A call that finish answers is rejected, as the promise sees it. *)
LEMMA RejectsOne ==
    ASSUME RequesterInv, NEW c \in Calls, IsOpen(c), NEW r \in Closure,
           Finish(c, r, "rejected"), UNCHANGED <<sent, responses, expired>>
    PROVE  Promise!Next
<1>1. call' = [call EXCEPT ![c] = Answered(r, "rejected")] /\ Answered(r, "rejected").pc = "rejected"
  BY AnsweredIs DEF Finish
<1>2. \A d \in Calls : call'[d].pc = IF d \in {c} THEN "rejected" ELSE call[d].pc
  BY <1>1 DEF RequesterInv
<1>3. Answer' = [d \in Calls |-> IF d \in {c} THEN "rejected" ELSE Answer[d]]
  BY <1>2 DEF Answer
<1>4. ApprovedRequests' = ApprovedRequests
  BY DEF ApprovedRequests
<1>5. \A d \in {c} : Answer[d] = "open"
  BY DEF Answer, IsOpen
<1>6. Promise!Reject({c})
  BY <1>3, <1>4, <1>5 DEF Promise!Reject, Answer, ApprovedRequests
<1> QED BY <1>6 DEF Promise!Next

(* A step that answers nobody and puts nothing on the wire. *)
LEMMA Stutters ==
    ASSUME call' \in [Calls -> Closure], \A c \in Calls : call'[c].pc = call[c].pc,
           UNCHANGED <<sent, responses, expired>>
    PROVE  UNCHANGED Promise!avars
BY DEF Promise!avars

LEMMA OpensCall ==
    ASSUME RequesterInv, NEW c \in Calls, NEW to \in {{}, {Phone}}, RequestSignature(c, to)
    PROVE  Promise!Next
<1>1. \A d \in Calls : call'[d].pc = IF d = c THEN "open" ELSE call[d].pc
  BY DEF RequestSignature, RequesterInv, Closure
<1>2. Answer' = [Answer EXCEPT ![c] = "open"] /\ Answer[c] = "idle"
  BY <1>1 DEF Answer, RequestSignature
<1>3. Promise!Open(c)
  BY <1>2 DEF Promise!Open, Answer, RequestSignature, world
<1> QED BY <1>3 DEF Promise!Next

LEMMA OffersRequest ==
    ASSUME RequesterInv, NEW c \in Calls, NEW n \in Issues, Signed(c, n)
    PROVE  Promise!Next \/ UNCHANGED Promise!avars
<1> DEFINE r == [call[c] EXCEPT !.issuing = @ \ {n}]
           s == [r EXCEPT !.cur = n]
<1>1. call[c] \in Closure /\ r \in Closure /\ r.pc = call[c].pc
  BY Settled DEF RequesterInv
<1>2. s \in Closure /\ s.pc = call[c].pc
  <2> HIDE DEF r
  <2> QED BY <1>1 DEF Closure
<1>3. UNCHANGED <<responses, expired>>
  BY DEF Signed, world
<1>4. CASE ~StillWanted(c)
  <2>1. call' = [call EXCEPT ![c] = r] /\ sent' = sent
    BY <1>4 DEF Signed
  <2> HIDE DEF r
  <2> QED BY <1>1, <1>3, <2>1, Stutters DEF RequesterInv
<1>5. CASE StillWanted(c)
  <2>1. call' = [call EXCEPT ![c] = s] /\ sent' = sent \cup {Req(c, n)}
    BY <1>5 DEF Signed
  <2> HIDE DEF s
  <2>2. \A d \in Calls : call'[d].pc = call[d].pc
    BY <1>2, <2>1 DEF RequesterInv
  <2>3. Answer' = Answer /\ Answer[c] = "open"
    BY <1>5, <2>2 DEF Answer, StillWanted, IsOpen
  <2>4. Req(c, n) \notin sent
    BY DEF Signed, RequesterInv, Numbered
  <2>5. Promise!Offer(Req(c, n))
    BY <1>3, <2>1, <2>3, <2>4, RequestType DEF Promise!Offer, Answer
  <2>6. Req(c, n) \in Promise!Requests
    BY DEF Req, Issues, Promise!Requests
  <2> QED BY <2>5, <2>6 DEF Promise!Next
<1> QED BY <1>4, <1>5

LEMMA SigningFailsRejects ==
    ASSUME RequesterInv, NEW c \in Calls, NEW n \in Issues, SigningFails(c, n)
    PROVE  Promise!Next \/ UNCHANGED Promise!avars
<1> DEFINE r == [call[c] EXCEPT !.issuing = @ \ {n}]
<1>1. r \in Closure /\ r.pc = call[c].pc
  BY Settled DEF RequesterInv
<1>2. UNCHANGED <<sent, responses, expired>>
  BY DEF SigningFails, world
<1>3. CASE IsOpen(c)
  <2>1. Finish(c, r, "rejected")
    BY <1>3 DEF SigningFails
  <2> HIDE DEF r
  <2> QED BY <1>1, <1>2, <1>3, <2>1, RejectsOne
<1>4. CASE ~IsOpen(c)
  <2>1. call' = [call EXCEPT ![c] = r]
    BY <1>4 DEF SigningFails
  <2> HIDE DEF r
  <2> QED BY <1>1, <1>2, <2>1, Stutters DEF RequesterInv
<1> QED BY <1>3, <1>4

LEMMA TtlFiresRejects ==
    ASSUME RequesterInv, NEW r \in Requests, TtlFires(r)
    PROVE  Promise!Next
<1>1. r.call \in Calls /\ call[r.call] \in Closure
  BY RequestType DEF RequesterInv
<1>2. IsOpen(r.call)
  BY <1>1 DEF RequesterInv, NothingLeftBehind, TtlFires
<1>3. Finish(r.call, call[r.call], "rejected") /\ UNCHANGED <<sent, responses, expired>>
  BY <1>2 DEF TtlFires, world
<1> QED BY <1>1, <1>2, <1>3, RejectsOne

LEMMA WakeTimeoutRejects ==
    ASSUME RequesterInv, NEW c \in Calls, WakeTimeout(c)
    PROVE  Promise!Next
<1>1. Finish(c, call[c], "rejected") /\ call[c] \in Closure /\ IsOpen(c)
      /\ UNCHANGED <<sent, responses, expired>>
  BY DEF WakeTimeout, RequesterInv, world
<1> QED BY <1>1, RejectsOne

LEMMA WakeStutters ==
    ASSUME RequesterInv, NEW c \in Calls, NEW r \in Requests, PollTick(c) \/ WakePending(r)
    PROVE  UNCHANGED Promise!avars
<1>1. RequesterInv' /\ UNCHANGED <<sent, responses, expired>>
  BY PollTickStep, WakePendingStep DEF PollTick, WakePending, world
<1>2. \A d \in Calls : call'[d].pc = call[d].pc
  BY DEF PollTick, WakePending, RequesterInv, Closure
<1> QED BY <1>1, <1>2, Stutters DEF RequesterInv

LEMMA LookupDoneRejects ==
    ASSUME RequesterInv, NEW c \in Calls, LookupDone(c)
    PROVE  Promise!Next \/ UNCHANGED Promise!avars
<1> DEFINE r == [call[c] EXCEPT !.check = "no"]
<1>1. RequesterInv' /\ UNCHANGED <<sent, responses, expired>>
  BY LookupDoneStep DEF LookupDone, world
<1>2. r \in Closure /\ r.pc = call[c].pc
  BY DEF RequesterInv, Closure
<1>3. CASE IsOpen(c) /\ Finish(c, r, "rejected")
  <2> HIDE DEF r
  <2> QED BY <1>1, <1>2, <1>3, RejectsOne
<1>4. CASE \A d \in Calls : call'[d].pc = call[d].pc
  BY <1>1, <1>4, Stutters DEF RequesterInv
<1>5. CASE call' = [call EXCEPT ![c] = r]
  <2> HIDE DEF r
  <2> QED BY <1>2, <1>4, <1>5 DEF RequesterInv
<1>6. CASE call' = [call EXCEPT ![c] = [r EXCEPT !.wake = FALSE, !.reissues = @ + 1,
                                                 !.issuing = @ \cup {call[c].reissues + 2}]]
  <2>1. [r EXCEPT !.wake = FALSE, !.reissues = @ + 1,
                  !.issuing = @ \cup {call[c].reissues + 2}].pc = r.pc
    <3> HIDE DEF r
    <3> QED BY <1>2 DEF Closure
  <2> HIDE DEF r
  <2> QED BY <1>2, <1>4, <1>6, <2>1 DEF RequesterInv
<1> QED BY <1>3, <1>5, <1>6 DEF LookupDone, Exhausted

LEMMA ResponseAnswers ==
    ASSUME IInv, NEW m \in responses, ReceiveResponse(m)
    PROVE  Promise!Next
<1> DEFINE c == m.req.call
<1>1. /\ c \in Calls /\ call[c] \in Closure /\ m.req \in Requests /\ m \in Responses
      /\ UNCHANGED <<sent, responses, expired>>
  BY RequestType DEF IInv, TypeOK, Responses, ReceiveResponse, world
<1>2. m.req \in waiting /\ m.req \in sent /\ IsOpen(c)
  BY <1>1 DEF IInv, RequesterInv, OnlyCurrent, NothingLeftBehind, ReceiveResponse
<1>3. CASE Decided(m) = "approved"
  <2>1. Finish(c, call[c], "approved")
    BY <1>3 DEF ReceiveResponse
  <2>2. m.decision = "approved" /\ m.req \notin expired
    BY <1>3 DEF Decided
  <2>3. m.req \in ApprovedRequests
    BY <2>2 DEF ApprovedRequests
  <2>4. call' = [call EXCEPT ![c] = Answered(call[c], "approved")] /\ Answered(call[c], "approved").pc = "approved"
    BY <1>1, <2>1, AnsweredIs DEF Finish
  <2>5. \A d \in Calls : call'[d].pc = IF d = c THEN "approved" ELSE call[d].pc
    BY <1>1, <2>4 DEF IInv, RequesterInv
  <2>6. Answer' = [Answer EXCEPT ![c] = "approved"] /\ Answer[c] = "open"
    BY <1>1, <1>2, <2>5 DEF Answer, IsOpen
  <2>7. ApprovedRequests' = ApprovedRequests
    BY <1>1 DEF ApprovedRequests
  <2>8. Promise!Approve(m.req)
    BY <1>1, <1>2, <2>2, <2>3, <2>6, <2>7 DEF Promise!Approve, Answer, ApprovedRequests
  <2>9. m.req \in Promise!Requests
    BY <1>1 DEF Requests, Issues, Promise!Requests
  <2> QED BY <2>8, <2>9 DEF Promise!Next
<1>4. CASE Decided(m) # "approved"
  <2>1. Finish(c, call[c], "rejected")
    BY <1>4 DEF ReceiveResponse
  <2> HIDE DEF c
  <2> QED BY <1>1, <1>2, <2>1, RejectsOne DEF IInv
<1> QED BY <1>3, <1>4

LEMMA DisposeRejects ==
    ASSUME RequesterInv, Dispose
    PROVE  Promise!Next
<1>1. PICK S \in SUBSET Calls : S = {c \in Calls : IsOpen(c)}
  OBVIOUS
<1>2. \A c \in Calls : call'[c].pc = IF c \in S THEN "rejected" ELSE call[c].pc
  <2> TAKE c \in Calls
  <2>1. Answered(call[c], "rejected").pc = "rejected"
    BY AnsweredIs DEF RequesterInv
  <2> QED BY <1>1, <2>1 DEF Dispose
<1>3. Answer' = [c \in Calls |-> IF c \in S THEN "rejected" ELSE Answer[c]]
  BY <1>2 DEF Answer
<1>4. \A c \in S : Answer[c] = "open"
  BY <1>1 DEF Answer, IsOpen
<1>5. Promise!Reject(S)
  BY <1>3, <1>4 DEF Promise!Reject, Answer, Dispose, world
<1> QED BY <1>5 DEF Promise!Next

LEMMA RequesterPromise ==
    ASSUME IInv, Requester
    PROVE  Promise!Next \/ UNCHANGED Promise!avars
<1> USE DEF IInv
<1>1. ASSUME NEW c \in Calls, NEW to \in {{}, {Phone}}, RequestSignature(c, to) PROVE Promise!Next
  BY <1>1, OpensCall
<1>2. ASSUME NEW c \in Calls, PollTick(c) PROVE UNCHANGED Promise!avars
  BY <1>2, WakeStutters, RequestType, IssueType
<1>3. ASSUME NEW c \in Calls, LookupDone(c) PROVE Promise!Next \/ UNCHANGED Promise!avars
  BY <1>3, LookupDoneRejects
<1>4. ASSUME NEW c \in Calls, WakeTimeout(c) PROVE Promise!Next
  BY <1>4, WakeTimeoutRejects
<1>5. ASSUME NEW c \in Calls, NEW n \in Issues, Signed(c, n) PROVE Promise!Next \/ UNCHANGED Promise!avars
  BY <1>5, OffersRequest
<1>6. ASSUME NEW c \in Calls, NEW n \in Issues, SigningFails(c, n)
      PROVE  Promise!Next \/ UNCHANGED Promise!avars
  BY <1>6, SigningFailsRejects
<1>7. ASSUME NEW r \in Requests, TtlFires(r) PROVE Promise!Next
  BY <1>7, TtlFiresRejects
<1>8. ASSUME NEW r \in Requests, WakePending(r) PROVE UNCHANGED Promise!avars
  BY <1>8, WakeStutters, RequestType
<1>9. ASSUME NEW m \in responses, ReceiveResponse(m) PROVE Promise!Next
  BY <1>9, ResponseAnswers
<1>10. CASE Dispose
  BY <1>10, DisposeRejects
<1> QED BY <1>1, <1>2, <1>3, <1>4, <1>5, <1>6, <1>7, <1>8, <1>9, <1>10 DEF Requester

LEMMA ApproverPromise ==
    ASSUME IInv, Approver
    PROVE  Promise!Next \/ UNCHANGED Promise!avars
<1>1. ASSUME NEW p \in Peers, NEW r \in Requests, ReceiveRequest(p, r)
      PROVE  UNCHANGED Promise!avars
  BY <1>1 DEF ReceiveRequest, requester, world, Promise!avars
<1>2. ASSUME NEW p \in Peers, NEW r \in Requests, NEW d \in {"approved", "rejected"}, UserDecides(p, r, d)
      PROVE  Promise!Next \/ UNCHANGED Promise!avars
  <2> DEFINE m == [req |-> r, by |-> p, decision |-> d]
  <2>1. responses' = responses \cup {m} /\ UNCHANGED <<requester, sent, world>>
    BY <1>2 DEF UserDecides
  <2>2. r \in sent
    BY <1>2 DEF IInv, SheetsSent, UserDecides
  <2>3. Answer' = Answer
    BY <2>1 DEF Answer, requester
  <2>4. CASE d = "approved"
    <3>1. ApprovedRequests' = ApprovedRequests \cup {r}
      <4> HIDE DEF m
      <4>1. m.req = r /\ m.decision = "approved"
        BY <2>4 DEF m
      <4> QED BY <2>1, <4>1, ZenonT(30) DEF ApprovedRequests
    <3>2. Promise!UserApproves(r)
      BY <2>1, <2>2, <2>3, <3>1 DEF Promise!UserApproves, Answer, ApprovedRequests, world
    <3>3. r \in Promise!Requests
      BY DEF Requests, Issues, Promise!Requests
    <3> QED BY <3>2, <3>3 DEF Promise!Next
  <2>5. CASE d # "approved"
    <3>1. ApprovedRequests' = ApprovedRequests
      BY <2>1, <2>5 DEF ApprovedRequests
    <3> QED BY <2>1, <2>3, <3>1 DEF Promise!avars, Answer, ApprovedRequests, world
  <2> QED BY <2>4, <2>5
<1>3. ASSUME NEW p \in Peers, PeerRestarts(p) PROVE UNCHANGED Promise!avars
  BY <1>3 DEF PeerRestarts, requester, world, Promise!avars
<1> QED BY <1>1, <1>2, <1>3 DEF Approver

LEMMA WorldPromise ==
    ASSUME World
    PROVE  Promise!Next \/ UNCHANGED Promise!avars
<1>1. CASE Devices
  BY <1>1 DEF Devices, requester, Promise!avars
<1>2. ASSUME NEW r \in Requests, Expire(r) PROVE Promise!Next
  <2>1. Promise!Lapse(r)
    BY <1>2 DEF Expire, Promise!Lapse, requester
  <2>2. r \in Promise!Requests
    BY DEF Requests, Issues, Promise!Requests
  <2> QED BY <2>1, <2>2 DEF Promise!Next
<1> QED BY <1>1, <1>2 DEF World

(* The service implements SignatureCalls: each call is answered at most     *)
(* once, "approved" only for a live request of its own that a user          *)
(* approved, and nothing is sent for an answered call.                      *)
THEOREM ImplementsPromise == Spec => KeepsPromise
<1>1. Init => Promise!Init
  <2> SUFFICES ASSUME Init PROVE Promise!Init
    OBVIOUS
  <2>1. \A c \in Calls : call[c].pc = "idle"
    BY DEF Init, Idle
  <2>2. ApprovedRequests = {}
    BY DEF Init, ApprovedRequests
  <2> QED BY <2>1, <2>2 DEF Init, Promise!Init, ApprovedRequests
<1>2. IInv /\ [Next]_vars => [Promise!Next]_(Promise!avars)
  <2> SUFFICES ASSUME IInv, [Next]_vars PROVE Promise!Next \/ UNCHANGED Promise!avars
    OBVIOUS
  <2>1. CASE UNCHANGED vars
    BY <2>1 DEF vars, requester, world, Promise!avars
  <2> QED BY <2>1, RequesterPromise, ApproverPromise, WorldPromise DEF Next
<1> QED BY <1>1, <1>2, Inductive, PTL DEF Spec, KeepsPromise, Promise!Spec

==============================================================================
