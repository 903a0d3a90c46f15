----------------------------- MODULE ProveService -----------------------------
(***************************************************************************)
(* The prover service of a desktop (proveService.ts): it proves one phone  *)
(* transaction at a time.                                                  *)
(*                                                                         *)
(* A PROVE_INIT is verified, passes the gates and claims the job slot;     *)
(* after a health check the phone is sent ACCEPT and sends its payload in  *)
(* chunks; with the last one the proof runs, and its result goes back.     *)
(* The job ends with its result, a failure, a cancel, its timer or the     *)
(* service's dispose, and its keys are wiped.  A cancelled proof is not    *)
(* stopped: deps.prove runs on and its result is dropped.                  *)
(*                                                                         *)
(* The relay may lose, repeat and delay every frame, so an INIT, a cancel  *)
(* and, once the phone holds ACCEPT, a chunk may arrive at any time and    *)
(* again.  Signed frames leave through a queue, one signature at a time.   *)
(* A job is the reqId and nonce of its INIT; payloads are left out.        *)
(***************************************************************************)
EXTENDS Naturals, Sequences

CONSTANTS
    Jobs,        \* jobs a pinned phone asks for
    NoJob,       \* the slot is free
    Chunks,      \* chunks of a payload
    MaxRuns      \* bound: times the payload of one job is complete

ASSUME SlotAssumption == NoJob \notin Jobs
ASSUME CountsAssumption == Chunks \in Nat \ {0} /\ MaxRuns \in Nat

VARIABLES
    verifying,  \* INITs whose signature is being verified
    active,     \* the job in the slot
    health,     \* jobs whose health check is awaited
    cancelled,  \* jobs with the flag of that name
    timers,     \* jobs whose timer runs
    held,       \* jobs whose session keys are in memory
    received,   \* chunks collected of each job
    runs,       \* each runProof: where it waits, in the order they started
    tail,       \* signed frames still to go out
    out,        \* frames of each job that went out
    seen, expired, \* replay list, INITs past expiresAt
    disposed,
    claims      \* ghost: how often a job claimed the slot while the service lived

job   == <<active, cancelled, timers, held, received>>
gates == <<seen, expired>>
vars  == <<verifying, job, health, runs, tail, out, gates, disposed, claims>>

Frames == {"accept", "queued", "proving", "chunks", "result"}
Slots  == Jobs \cup {NoJob}
Stages == {"status", "prove", "result", "done"}
Signed(j, frame, n) == [job |-> j, frame |-> frame, run |-> n]

TypeOK ==
    /\ verifying \subseteq Jobs
    /\ active \in Slots
    /\ health \subseteq Jobs /\ cancelled \subseteq Jobs
    /\ timers \subseteq Jobs /\ held \subseteq Jobs
    /\ received \in [Jobs -> SUBSET (1..Chunks)]
    /\ runs \in [Jobs -> Seq(Stages)] /\ \A j \in Jobs : Len(runs[j]) <= MaxRuns
    /\ tail \in Seq([job : Jobs, frame : Frames, run : 0..MaxRuns])
    /\ out \in [Jobs -> SUBSET Frames]
    /\ seen \subseteq Jobs /\ expired \subseteq Jobs
    /\ disposed \in BOOLEAN
    /\ claims \in [Jobs -> 0..2]

Init ==
    /\ verifying = {} /\ active = NoJob
    /\ health = {} /\ cancelled = {} /\ timers = {} /\ held = {}
    /\ received = [j \in Jobs |-> {}]
    /\ runs = [j \in Jobs |-> <<>>]
    /\ tail = <<>>
    /\ out = [j \in Jobs |-> {}]
    /\ seen = {} /\ expired = {}
    /\ disposed = FALSE
    /\ claims = [j \in Jobs |-> 0]

-----------------------------------------------------------------------------
FreedMutant(j) == NoJob                    \* mutant: any job's end frees the slot
Freed(j) == IF active = j THEN NoJob ELSE active
EndJob(j) ==
    /\ timers' = timers \ {j}
    /\ held' = held \ {j}
    /\ received' = [received EXCEPT ![j] = {}]
    /\ active' = Freed(j)

(* Frames are queued in the order they are issued.  *)
QueueMutant(frames) == frames \o tail      \* mutant: a later signature may finish first
Queue(frames) == tail \o frames

FailJob(j) ==
    /\ EndJob(j)
    /\ cancelled' = cancelled \cup {j}

(* handleInbound with an INIT, up to the awaits of its verification. *)
InitArrives(j) ==
    /\ ~disposed
    /\ j \notin verifying
    /\ verifying' = verifying \cup {j}
    /\ UNCHANGED <<job, health, runs, tail, out, gates, disposed, claims>>

(* handleInit: pinned, fresh, toggle, ledger, size, rate, slot, session.  A   *)
(* gate that looks at settings, at the frame or at the last minute's jobs may *)
(* turn out either way.  The refusal that answers the phone is left out: it   *)
(* waits in the queue like any frame, and nothing waits for it.               *)
FreshMutant(j, kept) == j \notin kept      \* mutant: no expiry check of the INIT itself
Fresh(j, kept) == j \notin expired /\ j \notin kept
HandleInit(j) ==
    LET kept == seen \ expired IN
    /\ j \in verifying
    /\ verifying' = verifying \ {j}
    /\ \/ UNCHANGED <<job, health, seen, claims>>                       \* not pinned
       \/ /\ ~Fresh(j, kept)
          /\ seen' = kept
          /\ UNCHANGED <<job, health, claims>>
       \/ /\ Fresh(j, kept)
          /\ seen' = kept \cup {j}
          /\ \/ UNCHANGED <<job, health, claims>>           \* refused, or no session
             \/ /\ active = NoJob
                /\ active' = j
                /\ held' = held \cup {j}
                /\ timers' = timers \cup {j}
                /\ health' = health \cup {j}
                /\ claims' = [claims EXCEPT ![j] = IF disposed \/ @ = 2 THEN @ ELSE @ + 1]
                /\ UNCHANGED <<cancelled, received>>
    /\ UNCHANGED <<runs, tail, out, expired, disposed>>

HealthAnswers(j) ==
    /\ j \in health
    /\ health' = health \ {j}
    /\ \/ /\ cancelled' = cancelled \cup {j}
          /\ EndJob(j)
          /\ UNCHANGED tail
       \/ /\ tail' = IF j \in cancelled \/ active # j THEN tail
                     ELSE Queue(<<Signed(j, "accept", 0), Signed(j, "queued", 0)>>)
          /\ UNCHANGED job
    /\ UNCHANGED <<verifying, runs, out, gates, disposed, claims>>

(* handleChunk, and runProof up to its first await with the last chunk: the *)
(* chunks are taken out of received, and 'proving' is queued.               *)
Seqs == 1..Chunks
ReceiveChunk(j, k) ==
    /\ ~disposed
    /\ "accept" \in out[j]
    /\ active = j /\ j \notin cancelled
    /\ k \notin received[j]
    /\ LET all == received[j] \cup {k} = 1..Chunks
           n == Len(runs[j]) + 1
       IN \/ FailJob(j) /\ UNCHANGED <<runs, tail>>      \* the tag, or with the last chunk the digest
          \/ /\ ~all
             /\ received' = [received EXCEPT ![j] = @ \cup {k}]
             /\ UNCHANGED <<active, cancelled, timers, held, runs, tail>>
          \/ /\ all
             /\ n <= MaxRuns
             /\ received' = [received EXCEPT ![j] = {}]
             /\ runs' = [runs EXCEPT ![j] = Append(@, "status")]
             /\ tail' = Queue(<<Signed(j, "proving", n)>>)
             /\ UNCHANGED <<active, cancelled, timers, held>>
    /\ UNCHANGED <<verifying, health, out, gates, disposed, claims>>

(* The head of sendTail is signed and sent.  A failure is only logged: the  *)
(* frame is as good as lost by the relay.                                   *)
SendNext ==
    /\ tail # <<>>
    /\ tail' = Tail(tail)
    /\ out' = [out EXCEPT ![Head(tail).job] = @ \cup {Head(tail).frame}]
    /\ UNCHANGED <<verifying, job, health, runs, gates, disposed, claims>>

Gone(j, frame, n) == \A i \in 1..Len(tail) : tail[i] # Signed(j, frame, n)
Stage(j, n, stage) == runs' = [runs EXCEPT ![j][n] = stage]

(* runProof after the await of its 'proving' status. *)
StartProof(j, n) ==
    /\ runs[j][n] = "status"
    /\ Gone(j, "proving", n)
    /\ IF j \in cancelled
       THEN Stage(j, n, "done") /\ EndJob(j) /\ UNCHANGED cancelled
       ELSE Stage(j, n, "prove") /\ UNCHANGED job
    /\ UNCHANGED <<verifying, health, tail, out, gates, disposed, claims>>

(* A cancel or a timeout that landed mid-proof: the result is dropped. *)
WantedMutant(j) == j \notin cancelled      \* mutant: does not ask who holds the slot
Wanted(j) == j \notin cancelled /\ active = j
ProofSettles(j, n) ==
    /\ runs[j][n] = "prove"
    /\ \/ Stage(j, n, "done") /\ FailJob(j) /\ UNCHANGED <<tail, out>>
       \/ /\ ~Wanted(j)
          /\ Stage(j, n, "done") /\ EndJob(j)
          /\ UNCHANGED <<cancelled, tail, out>>
       \/ /\ Wanted(j)
          /\ Stage(j, n, "result")
          /\ out' = [out EXCEPT ![j] = @ \cup {"chunks"}]
          /\ tail' = Queue(<<Signed(j, "result", n)>>)
          /\ UNCHANGED job
    /\ UNCHANGED <<verifying, health, gates, disposed, claims>>

ResultSent(j, n) ==
    /\ runs[j][n] = "result"
    /\ Gone(j, "result", n)
    /\ Stage(j, n, "done")
    /\ EndJob(j)
    /\ UNCHANGED <<verifying, health, cancelled, tail, out, gates, disposed, claims>>

(* After its verification: a cancel that comes for another job, or before its *)
(* own INIT, does nothing.                                                   *)
HandleCancel(j) ==
    /\ active = j
    /\ cancelled' = cancelled \cup {j}
    /\ EndJob(j)
    /\ UNCHANGED <<verifying, health, runs, tail, out, gates, disposed, claims>>

TimeoutMutant(j) ==                        \* mutant: a proof that started is waited for
    /\ j \in timers
    /\ runs[j] = <<>>
    /\ FailJob(j)
    /\ UNCHANGED <<verifying, health, runs, tail, out, gates, disposed, claims>>
Timeout(j) ==
    /\ j \in timers
    /\ FailJob(j)
    /\ UNCHANGED <<verifying, health, runs, tail, out, gates, disposed, claims>>

(* Logout or a wallet switch. *)
Dispose ==
    /\ ~disposed
    /\ disposed' = TRUE
    /\ IF active # NoJob THEN EndJob(active) /\ cancelled' = cancelled \cup {active}
       ELSE UNCHANGED job
    /\ seen' = {}
    /\ UNCHANGED <<verifying, health, runs, tail, out, expired, claims>>

Expire(j) ==
    /\ j \notin expired
    /\ expired' = expired \cup {j}
    /\ UNCHANGED <<verifying, job, health, runs, tail, out, seen, disposed, claims>>

RunStep(j) == \E n \in DOMAIN runs[j] : StartProof(j, n) \/ ProofSettles(j, n) \/ ResultSent(j, n)
Next ==
    \/ \E j \in Jobs : \/ InitArrives(j) \/ HandleInit(j) \/ HealthAnswers(j) \/ HandleCancel(j)
                       \/ \E k \in Seqs : ReceiveChunk(j, k)
                       \/ RunStep(j) \/ Timeout(j) \/ Expire(j)
    \/ SendNext \/ Dispose

Spec == Init /\ [][Next]_vars
(* Only the timer fires, of which there is one at a time: the proof server,  *)
(* the relay and the phone may do nothing.                                   *)
FairSpec == Spec /\ WF_vars(\E j \in Jobs : Timeout(j))

-----------------------------------------------------------------------------
(* The job in the slot, and no other, has its keys in memory and its timer  *)
(* running: a proof that outlives its job frees nobody else's slot and      *)
(* leaves no key material.                                                  *)
KeysOfActiveOnly == held = {active} \ {NoJob} /\ timers = held

(* A repeated INIT never claims the slot a second time, though the replay   *)
(* list is pruned.                                                          *)
ClaimedOnce == \A j \in Jobs : claims[j] <= 1

(* Frames reach the phone in the order of its own state machine: nothing    *)
(* but a refusal before ACCEPT, "queued" never after "proving", as long as  *)
(* the service lives.                                                       *)
FramesInOrder ==
    [][~disposed => \A j \in Jobs : \A frame \in out'[j] \ out[j] :
         /\ frame = "queued" => "proving" \notin out[j]
         /\ frame \in {"proving", "chunks", "result"} => "accept" \in out[j]]_vars

(* A result is sealed only for the job that has the slot, with keys that are  *)
(* still there, however long deps.prove outlives its job. One that was sealed *)
(* and queued by then is still signed and sent, cancelled or not (sendSigned).*)
SealedByLiveJob ==
    [][\A j \in Jobs : \A n \in DOMAIN runs[j] :
         runs[j][n] = "prove" /\ runs'[j][n] = "result" => j \in held /\ j \notin cancelled]_vars

(* Whatever the phone, the relay and the proof server do, the slot is freed. *)
SlotFreed == active # NoJob ~> active = NoJob

(* Not kept by the code (README, Disagreements): no run checks it.          *)
(* "ignores a duplicate chunk rather than double-counting it": the proof of  *)
(* a job is started once.                                                    *)
ProvedOnce == \A j \in Jobs : Len(runs[j]) <= 1

(* Not kept by the code (README, Disagreements): no run checks it.          *)
(* After a logout no key material is left in the worker.                    *)
WipedOnDispose == disposed => held = {}
=============================================================================
