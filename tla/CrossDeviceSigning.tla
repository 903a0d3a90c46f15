-------------------------- MODULE CrossDeviceSigning --------------------------
(***************************************************************************)
(* Signing on another device (crossDeviceSigning.service.ts), both sides   *)
(* of it, over a relay that loses, repeats, delays and reorders frames.    *)
(*                                                                         *)
(* The requester sends a SIGN_REQUEST and waits for its SIGN_RESPONSE      *)
(* until a ttl.  When the relay answers WAKE_PENDING (the target was       *)
(* offline and has been woken) the ttl is paused, the requester polls the  *)
(* registry, and issues a fresh request once the target is back.  The      *)
(* approver puts a request on its screen once, and never a lapsed one.     *)
(*                                                                         *)
(* A request is the call it is made for and the number of the issue(): its *)
(* reqId and nonce are fresh.  A frame that was sent stays on the wire:    *)
(* delivering it is a step that may happen never, late, or many times, so  *)
(* the awaits of handleInbound (registry, signature) delay it no further.  *)
(* Signatures and the pinning of devices only drop frames more: left out.  *)
(* The devices' clocks agree.                                              *)
(***************************************************************************)
EXTENDS Naturals

CONSTANTS
    Calls,        \* calls of requestSignature
    Peers,        \* the other devices of the wallet
    Phone,        \* the device a call may name; a call that names none broadcasts
    Restarting,   \* bound: the devices that restart in the model
    MaxReissues   \* MAX_WAKE_REISSUES

ASSUME PhoneAssumption == Phone \in Peers /\ Restarting \subseteq Peers
ASSUME ReissuesAssumption == MaxReissues \in Nat

Issues   == 1..(MaxReissues + 1)
Requests == [call : Calls, n : Issues]
Req(c, n) == [call |-> c, n |-> n]
Responses == [req : Requests, by : Peers, decision : {"approved", "rejected"}]

VARIABLES
    call,       \* the closure of each requestSignature
    waiting,    \* the map of pending entries: the requests in it
    ttl,        \* requests whose ttl timer runs
    machine,    \* status of each request in MachineState.byId
    alive,      \* the service is not disposed
    sent,       \* SIGN_REQUESTs handed to the transport
    responses,  \* SIGN_RESPONSEs handed to the transport
    expired,    \* requests whose expiresAt has passed
    online,     \* devices in the DEVICES snapshot: their keys resolve
    seen,       \* approverSeen of each peer
    sheets,     \* approval sheets on a peer's screen
    shown       \* ghost: how often this instance of a peer surfaced a request

requester == <<call, waiting, ttl, machine, alive>>
approver  == <<seen, sheets, shown>>
world     == <<expired, online>>
vars == <<requester, sent, responses, world, approver>>

Idle == [pc |-> "idle", to |-> {}, cur |-> 0, issuing |-> {}, reissues |-> 0, wake |-> FALSE,
         check |-> "no"]

Closure == [pc : {"idle", "open", "approved", "rejected"}, to : {{}, {Phone}},
            cur : Issues \cup {0}, issuing : SUBSET Issues, reissues : 0..MaxReissues,
            wake : BOOLEAN, check : {"no", "away", "back"}]

TypeOK ==
    /\ call \in [Calls -> Closure]
    /\ waiting \subseteq Requests /\ ttl \subseteq Requests
    /\ machine \in [Requests -> {"none", "pending", "approved", "rejected", "expired"}]
    /\ alive \in BOOLEAN
    /\ sent \subseteq Requests /\ responses \subseteq Responses
    /\ expired \subseteq sent
    /\ online \subseteq Peers
    /\ seen \in [Peers -> SUBSET Requests]
    /\ sheets \subseteq Peers \X Requests
    /\ shown \in [Peers -> [Requests -> 0..2]]

Init ==
    /\ call = [c \in Calls |-> Idle]
    /\ waiting = {} /\ ttl = {}
    /\ machine = [r \in Requests |-> "none"]
    /\ alive = TRUE
    /\ sent = {} /\ responses = {} /\ expired = {}
    /\ online \in SUBSET Peers
    /\ seen = [p \in Peers |-> {}]
    /\ sheets = {}
    /\ shown = [p \in Peers |-> [r \in Requests |-> 0]]

-----------------------------------------------------------------------------
(* The requester. *)

Current(c) == {Req(c, call[c].cur)} \cap Requests
IsOpen(c) == call[c].pc = "open"

(* finish: the caller is answered, and no timer or entry of the call is left. *)
AnsweredMutant(r, outcome) ==              \* mutant: the wake timers run on
    [r EXCEPT !.pc = outcome, !.check = "no"]
Answered(r, outcome) == [r EXCEPT !.pc = outcome, !.wake = FALSE]
Finish(c, r, outcome) ==
    /\ call' = [call EXCEPT ![c] = Answered(r, outcome)]
    /\ waiting' = waiting \ Current(c)
    /\ ttl' = ttl \ Current(c)

RequestSignature(c, to) ==
    /\ alive
    /\ call[c].pc = "idle"
    /\ call' = [call EXCEPT ![c].pc = "open", ![c].to = to, ![c].issuing = {1}]
    /\ UNCHANGED <<waiting, ttl, machine, alive, sent, responses, world, approver>>

(* issue, after the await of its signature.  A call answered meanwhile sends *)
(* nothing.                                                                  *)
StillWanted(c) == IsOpen(c)
RunningMutant(timers, old, new) == timers \ old   \* mutant: the paused ttl is not started again
Running(timers, old, new) == (timers \ old) \cup {new}
Signed(c, n) ==
    /\ n \in call[c].issuing
    /\ LET r == [call[c] EXCEPT !.issuing = @ \ {n}] IN
       IF StillWanted(c)
       THEN /\ call' = [call EXCEPT ![c] = [r EXCEPT !.cur = n]]
            /\ machine' = [machine EXCEPT ![Req(c, n)] = "pending"]
            /\ waiting' = (waiting \ Current(c)) \cup {Req(c, n)}
            /\ ttl' = Running(ttl, Current(c), Req(c, n))
            /\ sent' = sent \cup {Req(c, n)}
       ELSE call' = [call EXCEPT ![c] = r] /\ UNCHANGED <<machine, waiting, ttl, sent>>
    /\ UNCHANGED <<alive, responses, world, approver>>

SigningFails(c, n) ==
    /\ n \in call[c].issuing
    /\ LET r == [call[c] EXCEPT !.issuing = @ \ {n}] IN
       IF IsOpen(c) THEN Finish(c, r, "rejected")
       ELSE call' = [call EXCEPT ![c] = r] /\ UNCHANGED <<waiting, ttl>>
    /\ UNCHANGED <<machine, alive, sent, responses, world, approver>>

TtlFires(r) ==
    /\ r \in ttl
    /\ IF IsOpen(r.call) THEN Finish(r.call, call[r.call], "rejected")
       ELSE ttl' = ttl \ {r} /\ UNCHANGED <<call, waiting>>
    /\ UNCHANGED <<machine, alive, sent, responses, world, approver>>

Lookup(c) == IF call[c].to \subseteq online THEN "back" ELSE "away"

(* WAKE_PENDING for an awaited request.  The first lookup is made at once,  *)
(* unless one is under way.                                                 *)
WakePending(r) ==
    LET c == r.call IN
    /\ alive
    /\ r \in sent \cap waiting
    /\ call[c].to # {} /\ IsOpen(c) /\ ~call[c].wake
    /\ ttl' = ttl \ Current(c)
    /\ call' = [call EXCEPT ![c].wake = TRUE,
                            ![c].check = IF @ = "no" THEN Lookup(c) ELSE @]
    /\ UNCHANGED <<waiting, machine, alive, sent, responses, world, approver>>

PollTick(c) ==
    /\ call[c].wake /\ IsOpen(c)
    /\ call[c].check = "no"
    /\ call' = [call EXCEPT ![c].check = Lookup(c)]
    /\ UNCHANGED <<waiting, ttl, machine, alive, sent, responses, world, approver>>

(* The lookup answers: the target is back, so issue afresh, up to the cap. *)
Capped(c) == call[c].reissues >= MaxReissues
ExhaustedMutant(c, r) ==                   \* mutant: the cap only stops the wake
    call' = [call EXCEPT ![c] = [r EXCEPT !.wake = FALSE]] /\ UNCHANGED <<waiting, ttl>>
Exhausted(c, r) == Finish(c, r, "rejected")
LookupDone(c) ==
    /\ call[c].check # "no"
    /\ LET r == [call[c] EXCEPT !.check = "no"]
           back == call[c].check = "back" /\ IsOpen(c)
       IN \/ ~back /\ call' = [call EXCEPT ![c] = r] /\ UNCHANGED <<waiting, ttl>>
          \/ back /\ Capped(c) /\ Exhausted(c, r)
          \/ /\ back /\ ~Capped(c)
             /\ call' = [call EXCEPT ![c] =
                           [r EXCEPT !.wake = FALSE, !.reissues = @ + 1,
                                     !.issuing = @ \cup {call[c].reissues + 2}]]
             /\ UNCHANGED <<waiting, ttl>>
    /\ UNCHANGED <<machine, alive, sent, responses, world, approver>>

WakeTimeout(c) ==
    /\ call[c].wake /\ IsOpen(c)
    /\ Finish(c, call[c], "rejected")
    /\ UNCHANGED <<machine, alive, sent, responses, world, approver>>

(* handleSignResponse and applyResponse: only from a device whose key is    *)
(* known, for an awaited request, and late is rejected.                     *)
DecidedMutant(m) == m.decision             \* mutant: the ttl is the timer's business
Decided(m) == IF m.req \in expired THEN "expired" ELSE m.decision
ReceiveResponse(m) ==
    LET c == m.req.call
        status == Decided(m)
    IN
    /\ alive
    /\ m.by \in online
    /\ m.req \in waiting
    /\ machine[m.req] = "pending"
    /\ machine' = [machine EXCEPT ![m.req] = status]
    /\ Finish(c, call[c], IF status = "approved" THEN "approved" ELSE "rejected")
    /\ UNCHANGED <<alive, sent, responses, world, approver>>

(* Logout, a wallet switch or the feature turned off. *)
Dispose ==
    /\ alive
    /\ alive' = FALSE
    /\ call' = [c \in Calls |-> IF IsOpen(c) THEN Answered(call[c], "rejected") ELSE call[c]]
    /\ waiting' = {} /\ ttl' = {}
    /\ UNCHANGED <<machine, sent, responses, world, approver>>

-----------------------------------------------------------------------------
(* The approver. *)

(* approverAccepts prunes by expiry before it looks for a replay. *)
FreshMutant(r, kept) == r \notin kept      \* mutant: no expiry check of the request itself
Fresh(r, kept) == r \notin expired /\ r \notin kept
ReceiveRequest(p, r) ==
    LET kept == seen[p] \ expired IN
    /\ r \in sent
    /\ call[r.call].to # {} => p \in call[r.call].to
    /\ IF Fresh(r, kept)
       THEN /\ seen' = [seen EXCEPT ![p] = kept \cup {r}]
            /\ sheets' = sheets \cup {<<p, r>>}
            /\ shown' = [shown EXCEPT ![p][r] = IF @ = 2 THEN @ ELSE @ + 1]
       ELSE seen' = [seen EXCEPT ![p] = kept] /\ UNCHANGED <<sheets, shown>>
    /\ UNCHANGED <<requester, sent, responses, world>>

(* respond *)
UserDecides(p, r, decision) ==
    /\ <<p, r>> \in sheets
    /\ sheets' = sheets \ {<<p, r>>}
    /\ responses' = responses \cup {[req |-> r, by |-> p, decision |-> decision]}
    /\ UNCHANGED <<requester, sent, world, seen, shown>>

PeerRestarts(p) ==
    /\ p \in Restarting
    /\ seen[p] # {} \/ \E r \in Requests : shown[p][r] > 0
    /\ seen' = [seen EXCEPT ![p] = {}]
    /\ sheets' = {s \in sheets : s[1] # p}
    /\ shown' = [shown EXCEPT ![p] = [r \in Requests |-> 0]]
    /\ UNCHANGED <<requester, sent, responses, world>>

-----------------------------------------------------------------------------
Expire(r) ==
    /\ r \in sent \ expired
    /\ expired' = expired \cup {r}
    /\ UNCHANGED <<requester, sent, responses, online, approver>>

(* A DEVICES snapshot. *)
Devices ==
    /\ online' \in SUBSET Peers
    /\ UNCHANGED <<requester, sent, responses, expired, approver>>

Requester ==
    \/ \E c \in Calls : \/ \E to \in {{}, {Phone}} : RequestSignature(c, to)
                        \/ PollTick(c) \/ LookupDone(c) \/ WakeTimeout(c)
                        \/ \E n \in Issues : Signed(c, n) \/ SigningFails(c, n)
    \/ \E r \in Requests : TtlFires(r) \/ WakePending(r)
    \/ \E m \in responses : ReceiveResponse(m)
    \/ Dispose
Approver ==
    \E p \in Peers : \/ PeerRestarts(p)
                     \/ \E r \in Requests : \/ ReceiveRequest(p, r)
                                            \/ \E d \in {"approved", "rejected"} : UserDecides(p, r, d)
World == Devices \/ (\E r \in Requests : Expire(r))

Next == Requester \/ Approver \/ World
Spec == Init /\ [][Next]_vars

(* Timers fire and promises settle; no device or user has to do anything. *)
Fairness ==
    /\ \A c \in Calls : /\ WF_vars(LookupDone(c)) /\ WF_vars(WakeTimeout(c))
                        /\ \A n \in Issues : WF_vars(Signed(c, n))
    /\ \A r \in Requests : WF_vars(TtlFires(r))
FairSpec == Spec /\ Fairness

-----------------------------------------------------------------------------
(* The service keeps the promise of SignatureCalls: one answer a call, an   *)
(* approval only of a live request of this call that a user approved, and   *)
(* nothing sent for a call that has its answer.                             *)
Promise == INSTANCE SignatureCalls WITH
    answer   <- [c \in Calls |-> call[c].pc],
    offered  <- sent,
    approved <- {m.req : m \in {x \in responses : x.decision = "approved"}},
    lapsed   <- expired
KeepsPromise == Promise!Spec

(* An answered call leaves no timer, no poll and no pending entry behind,   *)
(* whichever of its awaits, timers and frames came last.                    *)
NothingLeftBehind ==
    \A c \in Calls : ~IsOpen(c) =>
        /\ ~call[c].wake
        /\ \A r \in waiting \cup ttl : r.call # c

(* An unanswered call has something that will answer it: a request being    *)
(* signed, the ttl of the current request, or the wake window.              *)
SomethingPending ==
    \A c \in Calls : IsOpen(c) =>
        call[c].issuing # {} \/ call[c].wake \/ (Current(c) # {} /\ Current(c) \subseteq ttl)

(* However frames are repeated and the seen-list is pruned, one run of the  *)
(* approver puts a request on its screen once.                              *)
SurfacedOnce == \A p \in Peers, r \in Requests : shown[p][r] <= 1

(* Every call is answered, whatever the relay does. *)
EveryCallAnswered == \A c \in Calls : call[c].pc = "open" ~> call[c].pc \in {"approved", "rejected"}

(* Not kept by the code (README, Disagreements): no run checks it.          *)
(* What handleInbound says of a spurious WAKE_PENDING, that it only extends *)
(* the wait: a live request on a device's screen stays awaited until the    *)
(* call is answered.                                                        *)
ShownStaysAwaited ==
    [][\A s \in sheets :
         s[2] \in waiting \ expired /\ call'[s[2].call].pc = "open" => s[2] \in waiting']_vars
=============================================================================
