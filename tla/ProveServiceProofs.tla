--------------------------- MODULE ProveServiceProofs ---------------------------
(***************************************************************************)
(* That the prover's keys and timer are those of the job in the slot, that *)
(* no result of a dead job is sealed, that a job claims the slot once and  *)
(* that its frames leave in order, for any number of jobs, chunks and      *)
(* repeated proofs.                                                        *)
(***************************************************************************)
EXTENDS ProveService, TLAPS

(* While the service lives, an INIT that claimed the slot is still listed,  *)
(* unless it has expired.                                                   *)
Listed ==
    \A j \in Jobs : claims[j] <= 1 /\ (claims[j] > 0 /\ ~disposed => j \in seen \cup expired)

IInv == TypeOK /\ KeysOfActiveOnly /\ Listed

(* A stage is set to "result" only where the job is wanted. *)
Seals ==
    \A j \in Jobs : \A n \in DOMAIN runs[j] :
        runs[j][n] = "prove" /\ runs'[j][n] = "result" => j \in held /\ j \notin cancelled

-----------------------------------------------------------------------------
(* Job slots and stages. *)

JobInv ==
    /\ active \in Slots /\ KeysOfActiveOnly
    /\ cancelled \subseteq Jobs /\ held \subseteq Jobs /\ timers \subseteq Jobs
    /\ received \in [Jobs -> SUBSET (1..Chunks)]

(* endJob leaves the slot with the keys and the timer of who is in it. *)
LEMMA EndJobStep ==
    ASSUME JobInv, NEW j \in Jobs, EndJob(j),
           cancelled' = cancelled \/ cancelled' = cancelled \cup {j}
    PROVE  JobInv'
<1>1. j # NoJob
  BY SlotAssumption
<1>2. active' \in Slots /\ KeysOfActiveOnly'
  BY <1>1 DEF JobInv, EndJob, Freed, Slots, KeysOfActiveOnly
<1>3. received' \in [Jobs -> SUBSET (1..Chunks)]
  BY DEF JobInv, EndJob
<1>4. held' \subseteq Jobs /\ timers' \subseteq Jobs /\ cancelled' \subseteq Jobs
  BY DEF JobInv, EndJob
<1> QED BY <1>2, <1>3, <1>4 DEF JobInv

LEMMA SameJobs == ASSUME JobInv, UNCHANGED job PROVE JobInv'
BY DEF JobInv, job, KeysOfActiveOnly

LEMMA StageType ==
    ASSUME runs \in [Jobs -> Seq(Stages)], \A i \in Jobs : Len(runs[i]) <= MaxRuns,
           NEW j \in Jobs, NEW n \in DOMAIN runs[j], NEW stage \in Stages, Stage(j, n, stage)
    PROVE  /\ runs' \in [Jobs -> Seq(Stages)]
           /\ \A i \in Jobs : Len(runs'[i]) <= MaxRuns
           /\ \A i \in Jobs : \A m \in DOMAIN runs[i] :
                  runs'[i][m] = IF i = j /\ m = n THEN stage ELSE runs[i][m]
<1>1. runs[j] \in Seq(Stages) /\ n \in 1..Len(runs[j])
  OBVIOUS
<1>2. [runs[j] EXCEPT ![n] = stage] \in Seq(Stages) /\ Len([runs[j] EXCEPT ![n] = stage]) = Len(runs[j])
  BY <1>1
<1>3. runs' = [runs EXCEPT ![j] = [runs[j] EXCEPT ![n] = stage]]
  BY DEF Stage
<1> QED BY <1>1, <1>2, <1>3

FrameType == [job : Jobs, frame : Frames, run : 0..MaxRuns]

LEMMA QueueType ==
    ASSUME tail \in Seq(FrameType), NEW frames \in Seq(FrameType)
    PROVE  Queue(frames) \in Seq(FrameType)
BY DEF Queue

LEMMA SignedType ==
    ASSUME NEW j \in Jobs, NEW frame \in Frames, NEW n \in 0..MaxRuns
    PROVE  Signed(j, frame, n) \in FrameType
BY DEF Signed, FrameType

-----------------------------------------------------------------------------
(* The types of what is not the job's, and the steps. *)

RestInv ==
    /\ verifying \subseteq Jobs /\ health \subseteq Jobs
    /\ runs \in [Jobs -> Seq(Stages)] /\ \A j \in Jobs : Len(runs[j]) <= MaxRuns
    /\ tail \in Seq(FrameType)
    /\ out \in [Jobs -> SUBSET Frames]
    /\ seen \subseteq Jobs /\ expired \subseteq Jobs
    /\ disposed \in BOOLEAN
    /\ claims \in [Jobs -> 0..2]

LEMMA Parts == IInv <=> JobInv /\ RestInv /\ Listed
BY DEF IInv, TypeOK, JobInv, RestInv, FrameType

(* A step that touches neither the gates nor the stages of proofs. *)
Calm == UNCHANGED <<gates, disposed, claims, runs>>

LEMMA CalmStep ==
    ASSUME IInv, Calm, JobInv', verifying' \subseteq Jobs, health' \subseteq Jobs,
           tail' \in Seq(FrameType), out' \in [Jobs -> SUBSET Frames]
    PROVE  IInv' /\ Seals
<1>1. RestInv'
  BY Parts DEF Calm, gates, RestInv
<1>2. Listed'
  BY DEF Calm, gates, IInv, Listed
<1>3. IInv'
  BY <1>1, <1>2, Parts DEF IInv, TypeOK, JobInv, RestInv, FrameType
<1>4. Seals
  BY DEF Calm, Seals
<1> QED BY <1>3, <1>4

LEMMA InitStep ==
    ASSUME IInv, NEW j \in Jobs, InitArrives(j) \/ HandleInit(j)
    PROVE  IInv' /\ Seals
<1> USE DEF RestInv
<1>1. JobInv /\ RestInv /\ Listed
  BY Parts
<1>2. CASE InitArrives(j)
  <2>1. JobInv'
    BY <1>1, <1>2, SameJobs DEF InitArrives
  <2> QED BY <1>1, <1>2, <2>1, CalmStep DEF InitArrives, Calm
<1>3. CASE HandleInit(j)
  <2> DEFINE kept == seen \ expired
  <2>1. /\ verifying' = verifying \ {j}
        /\ UNCHANGED <<runs, tail, out, expired, disposed>>
        /\ seen' \in {seen, kept, kept \cup {j}}
    BY <1>3 DEF HandleInit
  <2>2. Seals
    BY <2>1 DEF Seals
  <2>3. CASE UNCHANGED <<job, health, claims>>
    <3>1. JobInv'
      BY <1>1, <2>3, SameJobs
    <3>2. RestInv'
      BY <1>1, <2>1, <2>3
    <3>3. Listed'
      BY <1>1, <2>1, <2>3 DEF Listed
    <3> QED BY <2>2, <3>1, <3>2, <3>3, Parts DEF IInv, TypeOK, JobInv, FrameType
  <2>4. CASE ~UNCHANGED <<job, health, claims>>
    <3>1. /\ Fresh(j, kept) /\ active = NoJob /\ active' = j
          /\ seen' = kept \cup {j}
          /\ held' = held \cup {j} /\ timers' = timers \cup {j} /\ health' = health \cup {j}
          /\ claims' = [claims EXCEPT ![j] = IF disposed \/ @ = 2 THEN @ ELSE @ + 1]
          /\ UNCHANGED <<cancelled, received>>
      BY <1>3, <2>4 DEF HandleInit
    <3>2. JobInv'
      BY <1>1, <3>1, SlotAssumption DEF JobInv, KeysOfActiveOnly, Slots
    <3>3. claims[j] \in 0..1 /\ (~disposed => claims[j] = 0)
      BY <1>1, <3>1 DEF Listed, Fresh
    <3>4. claims' = [claims EXCEPT ![j] = IF disposed THEN claims[j] ELSE 1]
      <4>1. (IF disposed \/ claims[j] = 2 THEN claims[j] ELSE claims[j] + 1)
              = IF disposed THEN claims[j] ELSE 1
        BY <3>3
      <4> QED BY <3>1, <4>1
    <3>5. RestInv'
      <4>1. claims' \in [Jobs -> 0..2]
        BY <1>1, <3>3, <3>4
      <4> QED BY <1>1, <2>1, <3>1, <4>1
    <3>6. Listed'
      <4> SUFFICES ASSUME NEW i \in Jobs
                   PROVE  claims'[i] <= 1 /\ (claims'[i] > 0 /\ ~disposed' => i \in seen' \cup expired')
        BY DEF Listed
      <4>1. CASE i = j
        BY <1>1, <2>1, <3>1, <3>3, <3>4, <4>1
      <4>2. CASE i # j
        <5>1. claims'[i] = claims[i]
          BY <1>1, <3>4, <4>2
        <5> QED BY <1>1, <2>1, <3>1, <5>1 DEF Listed
      <4> QED BY <4>1, <4>2
    <3> QED BY <2>2, <3>2, <3>5, <3>6, Parts DEF IInv, TypeOK, JobInv, FrameType
  <2> QED BY <2>3, <2>4
<1> QED BY <1>2, <1>3

LEMMA HealthStep ==
    ASSUME IInv, NEW j \in Jobs, HealthAnswers(j)
    PROVE  IInv' /\ Seals
<1>1. JobInv /\ RestInv
  BY Parts
<1>2. Calm /\ UNCHANGED <<verifying, out>> /\ health' \subseteq health
  BY DEF HealthAnswers, Calm
<1>3. CASE cancelled' = cancelled \cup {j} /\ EndJob(j) /\ UNCHANGED tail
  <2>1. JobInv'
    BY <1>1, <1>3, EndJobStep
  <2> QED BY <1>1, <1>2, <1>3, <2>1, CalmStep DEF RestInv
<1>4. CASE UNCHANGED job /\ tail' \in {tail, Queue(<<Signed(j, "accept", 0), Signed(j, "queued", 0)>>)}
  <2>1. JobInv'
    BY <1>1, <1>4, SameJobs
  <2>2. 0 \in 0..MaxRuns
    BY CountsAssumption
  <2>3. Signed(j, "accept", 0) \in FrameType /\ Signed(j, "queued", 0) \in FrameType
    BY <2>2, SignedType DEF Frames
  <2>4. tail \in Seq(FrameType) /\ <<Signed(j, "accept", 0), Signed(j, "queued", 0)>> \in Seq(FrameType)
    BY <1>1, <2>3 DEF RestInv
  <2>5. tail' \in Seq(FrameType)
    BY <1>4, <2>4, QueueType
  <2> QED BY <1>1, <1>2, <2>1, <2>5, CalmStep DEF RestInv
<1> QED BY <1>3, <1>4 DEF HealthAnswers

LEMMA EndingStep ==
    ASSUME IInv, NEW j \in Jobs, HandleCancel(j) \/ Timeout(j)
    PROVE  IInv' /\ Seals
<1>1. JobInv /\ RestInv
  BY Parts
<1>2. JobInv'
  BY <1>1, EndJobStep DEF HandleCancel, Timeout, FailJob
<1> QED BY <1>1, <1>2, CalmStep DEF HandleCancel, Timeout, Calm, RestInv

LEMMA SendStep ==
    ASSUME IInv, SendNext
    PROVE  IInv' /\ Seals
<1>1. JobInv /\ RestInv
  BY Parts
<1>2. JobInv'
  BY <1>1, SameJobs DEF SendNext
<1>3. Head(tail) \in FrameType /\ Tail(tail) \in Seq(FrameType)
  BY <1>1 DEF SendNext, RestInv
<1>4. out' \in [Jobs -> SUBSET Frames]
  BY <1>1, <1>3 DEF SendNext, RestInv, FrameType
<1> QED BY <1>1, <1>2, <1>3, <1>4, CalmStep DEF SendNext, Calm, RestInv

LEMMA ExpireStep ==
    ASSUME IInv, NEW j \in Jobs, Expire(j)
    PROVE  IInv' /\ Seals
<1>1. JobInv /\ RestInv /\ Listed
  BY Parts
<1>2. JobInv'
  BY <1>1, SameJobs DEF Expire
<1>3. RestInv' /\ Listed' /\ Seals
  BY <1>1 DEF Expire, RestInv, Listed, Seals
<1> QED BY <1>2, <1>3, Parts DEF IInv, TypeOK, JobInv, RestInv, FrameType

LEMMA ChunkStep ==
    ASSUME IInv, NEW j \in Jobs, NEW k \in Seqs, ReceiveChunk(j, k)
    PROVE  IInv' /\ Seals
<1> DEFINE n == Len(runs[j]) + 1
<1>1. JobInv /\ RestInv /\ Listed
  BY Parts
<1>2. UNCHANGED <<verifying, health, out, gates, disposed, claims>>
  BY DEF ReceiveChunk
<1>3. CASE FailJob(j) /\ UNCHANGED <<runs, tail>>
  <2>1. JobInv'
    BY <1>1, <1>3, EndJobStep DEF FailJob
  <2> QED BY <1>1, <1>2, <1>3, <2>1, CalmStep DEF Calm, RestInv
<1>4. CASE /\ received' = [received EXCEPT ![j] = @ \cup {k}]
           /\ UNCHANGED <<active, cancelled, timers, held, runs, tail>>
  <2>1. JobInv'
    BY <1>1, <1>4 DEF JobInv, KeysOfActiveOnly, Seqs
  <2> QED BY <1>1, <1>2, <1>4, <2>1, CalmStep DEF Calm, RestInv
<1>5. CASE /\ n <= MaxRuns
           /\ received' = [received EXCEPT ![j] = {}]
           /\ runs' = [runs EXCEPT ![j] = Append(@, "status")]
           /\ tail' = Queue(<<Signed(j, "proving", n)>>)
           /\ UNCHANGED <<active, cancelled, timers, held>>
  <2>1. JobInv'
    BY <1>1, <1>5 DEF JobInv, KeysOfActiveOnly
  <2>2. runs[j] \in Seq(Stages) /\ Len(runs[j]) \in Nat /\ "status" \in Stages
    BY <1>1 DEF RestInv, Stages
  <2>3. /\ Append(runs[j], "status") \in Seq(Stages) /\ Len(Append(runs[j], "status")) = n
        /\ \A m \in DOMAIN runs[j] : Append(runs[j], "status")[m] = runs[j][m]
    BY <2>2
  <2>4. /\ runs' \in [Jobs -> Seq(Stages)] /\ \A i \in Jobs : Len(runs'[i]) <= MaxRuns
        /\ \A i \in Jobs : \A m \in DOMAIN runs[i] : runs'[i][m] = runs[i][m]
    BY <1>1, <1>5, <2>3 DEF RestInv
  <2>5. n \in 0..MaxRuns
    BY <1>5, <2>2, CountsAssumption
  <2>6. <<Signed(j, "proving", n)>> \in Seq(FrameType)
    <3>1. Signed(j, "proving", n) \in FrameType
      BY <2>5, SignedType DEF Frames
    <3> QED BY <3>1
  <2>7. tail' \in Seq(FrameType)
    BY <1>1, <1>5, <2>6, QueueType DEF RestInv
  <2>8. RestInv'
    BY <1>1, <1>2, <2>4, <2>7 DEF RestInv, gates
  <2>9. Listed'
    BY <1>1, <1>2 DEF Listed, gates
  <2>10. Seals
    BY <2>4 DEF Seals
  <2> QED BY <2>1, <2>8, <2>9, <2>10, Parts DEF IInv, TypeOK, JobInv, RestInv, FrameType
<1> QED BY <1>3, <1>4, <1>5 DEF ReceiveChunk

(* A step that moves one proof to another stage. *)
LEMMA StageStep ==
    ASSUME IInv, NEW j \in Jobs, NEW n \in DOMAIN runs[j], NEW stage \in Stages,
           Stage(j, n, stage), JobInv',
           UNCHANGED <<verifying, health, gates, disposed, claims>>,
           tail' \in Seq(FrameType), out' \in [Jobs -> SUBSET Frames],
           stage = "result" => j \in held /\ j \notin cancelled
    PROVE  IInv' /\ Seals
<1>1. RestInv /\ Listed
  BY Parts
<1>2. /\ runs' \in [Jobs -> Seq(Stages)] /\ \A i \in Jobs : Len(runs'[i]) <= MaxRuns
      /\ \A i \in Jobs : \A m \in DOMAIN runs[i] :
             runs'[i][m] = IF i = j /\ m = n THEN stage ELSE runs[i][m]
  BY <1>1, StageType DEF RestInv
<1>3. RestInv'
  BY <1>1, <1>2 DEF RestInv, gates
<1>4. Listed'
  BY <1>1 DEF Listed, gates
<1>5. Seals
  BY <1>2 DEF Seals
<1> QED BY <1>3, <1>4, <1>5, Parts DEF IInv, TypeOK, JobInv, RestInv, FrameType

LEMMA ProofStep ==
    ASSUME IInv, NEW j \in Jobs, NEW n \in DOMAIN runs[j],
           StartProof(j, n) \/ ProofSettles(j, n) \/ ResultSent(j, n)
    PROVE  IInv' /\ Seals
<1>1. JobInv /\ RestInv /\ {"prove", "result", "done"} \subseteq Stages
  BY Parts DEF Stages
<1>2. UNCHANGED <<verifying, health, gates, disposed, claims>>
  BY DEF StartProof, ProofSettles, ResultSent
<1>3. CASE Stage(j, n, "done") /\ EndJob(j) /\ UNCHANGED <<tail, out>>
           /\ (cancelled' = cancelled \/ cancelled' = cancelled \cup {j})
  <2>1. JobInv'
    BY <1>1, <1>3, EndJobStep
  <2> QED BY <1>1, <1>2, <1>3, <2>1, StageStep DEF RestInv
<1>4. CASE Stage(j, n, "prove") /\ UNCHANGED <<job, tail, out>>
  <2>1. JobInv'
    BY <1>1, <1>4, SameJobs
  <2> QED BY <1>1, <1>2, <1>4, <2>1, StageStep DEF RestInv
<1>5. CASE /\ Wanted(j) /\ Stage(j, n, "result") /\ UNCHANGED job
           /\ out' = [out EXCEPT ![j] = @ \cup {"chunks"}]
           /\ tail' = Queue(<<Signed(j, "result", n)>>)
  <2>1. JobInv'
    BY <1>1, <1>5, SameJobs
  <2>2. j \in held /\ j \notin cancelled
    BY <1>1, <1>5, SlotAssumption DEF Wanted, JobInv, KeysOfActiveOnly
  <2>3. n \in 0..MaxRuns
    <3>1. runs[j] \in Seq(Stages) /\ Len(runs[j]) <= MaxRuns
      BY <1>1 DEF RestInv
    <3>2. n \in 1..Len(runs[j]) /\ Len(runs[j]) \in Nat
      BY <3>1
    <3> QED BY <3>1, <3>2, CountsAssumption
  <2>4. <<Signed(j, "result", n)>> \in Seq(FrameType)
    <3>1. Signed(j, "result", n) \in FrameType
      BY <2>3, SignedType DEF Frames
    <3> QED BY <3>1
  <2>5. tail' \in Seq(FrameType) /\ out' \in [Jobs -> SUBSET Frames]
    BY <1>1, <1>5, <2>4, QueueType DEF RestInv, Frames
  <2> QED BY <1>1, <1>2, <1>5, <2>1, <2>2, <2>5, StageStep
<1>6. CASE StartProof(j, n)
  BY <1>3, <1>4, <1>6 DEF StartProof
<1>7. CASE ProofSettles(j, n)
  BY <1>3, <1>5, <1>7 DEF ProofSettles, FailJob
<1>8. CASE ResultSent(j, n)
  BY <1>3, <1>8 DEF ResultSent
<1> QED BY <1>6, <1>7, <1>8

LEMMA DisposeStep ==
    ASSUME IInv, Dispose
    PROVE  IInv' /\ Seals
<1>1. JobInv /\ RestInv /\ Listed
  BY Parts
<1>2. JobInv'
  <2>1. CASE active = NoJob
    BY <1>1, <2>1, SameJobs DEF Dispose
  <2>2. CASE active # NoJob
    <3>1. active \in Jobs /\ EndJob(active) /\ cancelled' = cancelled \cup {active}
      BY <1>1, <2>2 DEF Dispose, JobInv, Slots
    <3> QED BY <1>1, <3>1, EndJobStep
  <2> QED BY <2>1, <2>2
<1>3. disposed' = TRUE /\ seen' = {} /\ UNCHANGED <<verifying, health, runs, tail, out, expired, claims>>
  BY DEF Dispose
<1>4. RestInv' /\ Listed' /\ Seals
  BY <1>1, <1>3 DEF RestInv, Listed, Seals
<1> QED BY <1>2, <1>4, Parts DEF IInv, TypeOK, JobInv, RestInv, FrameType

LEMMA InitInv == Init => IInv
<1> SUFFICES ASSUME Init PROVE IInv
  OBVIOUS
<1>1. <<>> \in Seq(Stages) /\ Len(<<>>) = 0 /\ <<>> \in Seq([job : Jobs, frame : Frames, run : 0..MaxRuns])
  OBVIOUS
<1>2. TypeOK
  <2>1. runs \in [Jobs -> Seq(Stages)] /\ \A j \in Jobs : Len(runs[j]) <= MaxRuns
    BY <1>1, CountsAssumption DEF Init
  <2>2. tail \in Seq([job : Jobs, frame : Frames, run : 0..MaxRuns])
    BY <1>1 DEF Init
  <2>3. /\ received \in [Jobs -> SUBSET (1..Chunks)] /\ out \in [Jobs -> SUBSET Frames]
        /\ claims \in [Jobs -> 0..2]
    BY DEF Init
  <2> QED BY <2>1, <2>2, <2>3 DEF Init, TypeOK, Slots
<1>3. KeysOfActiveOnly /\ Listed
  BY DEF Init, KeysOfActiveOnly, Listed
<1> QED BY <1>2, <1>3 DEF IInv

LEMMA NextInv == IInv /\ [Next]_vars => IInv' /\ (Seals \/ UNCHANGED vars)
<1> SUFFICES ASSUME IInv, [Next]_vars PROVE IInv' /\ (Seals \/ UNCHANGED vars)
  OBVIOUS
<1>1. CASE UNCHANGED vars
  <2>1. UNCHANGED <<verifying, job, health, runs, tail, out, gates, disposed, claims>>
    BY <1>1 DEF vars
  <2>2. JobInv' /\ RestInv'
    BY <2>1, Parts, SameJobs DEF RestInv, gates
  <2> QED BY <1>1, <2>1, <2>2, Parts DEF Listed, gates, IInv, TypeOK, JobInv, RestInv, FrameType
<1>2. ASSUME NEW j \in Jobs, InitArrives(j) \/ HandleInit(j) PROVE IInv' /\ Seals
  BY <1>2, InitStep
<1>3. ASSUME NEW j \in Jobs, HealthAnswers(j) PROVE IInv' /\ Seals
  BY <1>3, HealthStep
<1>4. ASSUME NEW j \in Jobs, HandleCancel(j) \/ Timeout(j) PROVE IInv' /\ Seals
  BY <1>4, EndingStep
<1>5. ASSUME NEW j \in Jobs, NEW k \in Seqs, ReceiveChunk(j, k) PROVE IInv' /\ Seals
  BY <1>5, ChunkStep
<1>6. ASSUME NEW j \in Jobs, RunStep(j) PROVE IInv' /\ Seals
  BY <1>6, ProofStep DEF RunStep
<1>7. ASSUME NEW j \in Jobs, Expire(j) PROVE IInv' /\ Seals
  BY <1>7, ExpireStep
<1>8. CASE SendNext
  BY <1>8, SendStep
<1>9. CASE Dispose
  BY <1>9, DisposeStep
<1> QED BY <1>1, <1>2, <1>3, <1>4, <1>5, <1>6, <1>7, <1>8, <1>9 DEF Next

THEOREM Inductive == Spec => []IInv
BY InitInv, NextInv, PTL DEF Spec

(* The job in the slot, and no other, has its keys in memory and its timer  *)
(* running.                                                                 *)
THEOREM KeysCorrect == Spec => []KeysOfActiveOnly
BY Inductive, PTL DEF IInv

(* A repeated INIT never claims the slot again while the service lives. *)
THEOREM ClaimsCorrect == Spec => []ClaimedOnce
<1>1. IInv => ClaimedOnce
  BY DEF IInv, Listed, ClaimedOnce
<1> QED BY <1>1, Inductive, PTL

(* No result of a cancelled, timed-out or ended job is sealed. *)
THEOREM SealsCorrect == Spec => SealedByLiveJob
<1>1. IInv /\ [Next]_vars => [Seals]_vars
  BY NextInv
<1>2. Spec => [][Seals]_vars
  BY <1>1, Inductive, PTL DEF Spec
<1> QED BY <1>2 DEF SealedByLiveJob, Seals

(* The variables of the service keep their types. *)
THEOREM TypeCorrect == Spec => []TypeOK
BY Inductive, PTL DEF IInv

-----------------------------------------------------------------------------
(* The order of the frames.  While the service lives, a job that has not    *)
(* passed its health check has nothing running, queued or sent.             *)
Unstarted(j) ==
    /\ runs[j] = <<>> /\ out[j] = {}
    /\ \A i \in 1..Len(tail) : tail[i].job # j
Waiting ==
    ~disposed => \A j \in Jobs : /\ claims[j] = 0 => j \notin health
                                 /\ claims[j] = 0 \/ j \in health => Unstarted(j)

(* Nothing of a proof is queued, or runs, before ACCEPT went out. *)
Accepted ==
    \A j \in Jobs :
        /\ runs[j] # <<>> => "accept" \in out[j]
        /\ \A i \in 1..Len(tail) :
              tail[i].job = j /\ tail[i].frame \in {"proving", "chunks", "result"}
                => "accept" \in out[j]

(* A "queued" that still has to go out has no "proving" of its job before it. *)
QueuedFirst ==
    ~disposed =>
        \A i \in 1..Len(tail) : tail[i].frame = "queued" =>
            /\ "proving" \notin out[tail[i].job]
            /\ \A k \in 1..(i - 1) : tail[k].frame = "proving" => tail[k].job # tail[i].job

OrderInv == Waiting /\ Accepted /\ QueuedFirst

(* What a step may send. *)
InOrder ==
    ~disposed => \A j \in Jobs : \A frame \in out'[j] \ out[j] :
         /\ frame = "queued" => "proving" \notin out[j]
         /\ frame \in {"proving", "chunks", "result"} => "accept" \in out[j]

LEMMA QueueIndex ==
    ASSUME tail \in Seq(FrameType), NEW frames \in Seq(FrameType)
    PROVE  /\ Len(Queue(frames)) = Len(tail) + Len(frames)
           /\ \A i \in 1..Len(tail) : Queue(frames)[i] = tail[i]
           /\ \A i \in (Len(tail) + 1)..Len(Queue(frames)) :
                 i - Len(tail) \in 1..Len(frames) /\ Queue(frames)[i] = frames[i - Len(tail)]
BY DEF Queue

(* Steps that send and queue nothing. *)
LEMMA QuietOrder ==
    ASSUME IInv, OrderInv, UNCHANGED <<tail, out>>, health' \subseteq health,
           claims' = claims, disposed => disposed',
           \A j \in Jobs : runs'[j] = runs[j] \/ runs[j] # <<>>
    PROVE  OrderInv' /\ InOrder
<1>1. Waiting'
  BY DEF OrderInv, Waiting, Unstarted
<1>2. Accepted'
  BY DEF OrderInv, Accepted
<1>3. QueuedFirst'
  BY DEF OrderInv, QueuedFirst
<1>4. InOrder
  BY DEF InOrder
<1> QED BY <1>1, <1>2, <1>3, <1>4 DEF OrderInv

LEMMA ClaimOrder ==
    ASSUME IInv, OrderInv, NEW j \in Jobs, HandleInit(j)
    PROVE  OrderInv' /\ InOrder
<1> DEFINE kept == seen \ expired
<1>1. UNCHANGED <<runs, tail, out, disposed>>
  BY DEF HandleInit
<1>2. CASE UNCHANGED <<health, claims>>
  BY <1>1, <1>2, QuietOrder
<1>3. CASE /\ Fresh(j, kept) /\ health' = health \cup {j}
           /\ claims' = [claims EXCEPT ![j] = IF disposed \/ @ = 2 THEN @ ELSE @ + 1]
  <2>1. ASSUME ~disposed
        PROVE  claims[j] = 0 /\ claims' = [claims EXCEPT ![j] = 1] /\ claims \in [Jobs -> 0..2]
    <3>1. claims \in [Jobs -> 0..2] /\ ~(claims[j] > 0)
      BY <1>3, <2>1 DEF IInv, TypeOK, Listed, Fresh
    <3>2. claims[j] = 0
      BY <3>1
    <3>3. (IF disposed \/ claims[j] = 2 THEN claims[j] ELSE claims[j] + 1) = 1
      BY <2>1, <3>2
    <3> QED BY <1>3, <3>1, <3>2, <3>3
  <2>2. Waiting'
    BY <1>1, <1>3, <2>1 DEF OrderInv, Waiting, Unstarted
  <2>3. Accepted' /\ QueuedFirst' /\ InOrder
    BY <1>1 DEF OrderInv, Accepted, QueuedFirst, InOrder
  <2> QED BY <2>2, <2>3 DEF OrderInv
<1> QED BY <1>2, <1>3 DEF HandleInit

(* A step that queues frames of a job that is past its claim. *)
LEMMA QueueOrder ==
    ASSUME IInv, OrderInv, NEW j \in Jobs, NEW frames \in Seq(FrameType),
           tail' = Queue(frames), claims' = claims, health' \subseteq health,
           UNCHANGED disposed, out \in [Jobs -> SUBSET Frames],
           out' \in {out, [out EXCEPT ![j] = @ \cup {"chunks"}]},
           \A i \in Jobs : i = j \/ runs'[i] = runs[i],
           \A k \in 1..Len(frames) : frames[k].job = j,
           (\E k \in 1..Len(frames) : frames[k].frame \in {"proving", "chunks", "result"})
              => "accept" \in out[j],
           runs'[j] # <<>> \/ out' # out => "accept" \in out[j],
           ~disposed => j \notin health' /\ claims[j] # 0,
           (\E k \in 1..Len(frames) : frames[k].frame = "queued") /\ ~disposed
              => Unstarted(j) /\ \A k \in 1..Len(frames) : frames[k].frame # "proving"
    PROVE  OrderInv' /\ InOrder
<1>1. tail \in Seq(FrameType) /\ Len(tail) \in Nat /\ Len(frames) \in Nat
  BY DEF IInv, TypeOK, FrameType
<1>2. /\ Len(tail') = Len(tail) + Len(frames)
      /\ \A i \in 1..Len(tail) : tail'[i] = tail[i]
      /\ \A i \in (Len(tail) + 1)..Len(tail') :
            i - Len(tail) \in 1..Len(frames) /\ tail'[i] = frames[i - Len(tail)]
  BY <1>1, QueueIndex
<1>3. \A i \in 1..Len(tail') : i \in 1..Len(tail) \/ i \in (Len(tail) + 1)..Len(tail')
  BY <1>1, <1>2
<1>4. \A i \in Jobs : /\ out[i] \subseteq out'[i] /\ out'[i] \ out[i] \subseteq {"chunks"}
                      /\ i # j => out'[i] = out[i]
  OBVIOUS
<1>5. Waiting'
  <2> SUFFICES ASSUME ~disposed, NEW i \in Jobs
               PROVE  /\ claims[i] = 0 => i \notin health'
                      /\ claims[i] = 0 \/ i \in health' => Unstarted(i)'
    BY DEF Waiting
  <2>1. CASE i = j
    BY <2>1
  <2>2. CASE i # j /\ (claims[i] = 0 \/ i \in health')
    <3>1. Unstarted(i) /\ (claims[i] = 0 => i \notin health)
      BY <2>2 DEF OrderInv, Waiting
    <3>2. \A k \in 1..Len(tail') : tail'[k].job # i
      BY <1>2, <1>3, <2>2, <3>1 DEF Unstarted
    <3> QED BY <1>4, <2>2, <3>1, <3>2 DEF Unstarted
  <2> QED BY <2>1, <2>2
<1>6. Accepted'
  <2> SUFFICES ASSUME NEW i \in Jobs
               PROVE  /\ runs'[i] # <<>> => "accept" \in out'[i]
                      /\ \A k \in 1..Len(tail') :
                            tail'[k].job = i /\ tail'[k].frame \in {"proving", "chunks", "result"}
                              => "accept" \in out'[i]
    BY DEF Accepted
  <2>1. runs'[i] # <<>> => "accept" \in out'[i]
    BY <1>4 DEF OrderInv, Accepted
  <2>2. ASSUME NEW k \in 1..Len(tail'), tail'[k].job = i, tail'[k].frame \in {"proving", "chunks", "result"}
        PROVE  "accept" \in out'[i]
    <3>1. CASE k \in 1..Len(tail)
      <4>1. tail[k].job = i /\ tail[k].frame \in {"proving", "chunks", "result"}
        BY <1>2, <2>2, <3>1
      <4>2. "accept" \in out[i]
        BY <3>1, <4>1 DEF OrderInv, Accepted
      <4> QED BY <1>4, <4>2
    <3>2. CASE k \in (Len(tail) + 1)..Len(tail')
      <4> DEFINE m == k - Len(tail)
      <4>1. m \in 1..Len(frames) /\ tail'[k] = frames[m]
        BY <1>2, <3>2
      <4>2. i = j /\ frames[m].frame \in {"proving", "chunks", "result"}
        BY <2>2, <4>1
      <4>3. "accept" \in out[j]
        BY <4>1, <4>2
      <4> QED BY <1>4, <4>2, <4>3
    <3> QED BY <1>3, <3>1, <3>2
  <2> QED BY <2>1, <2>2
<1>7. QueuedFirst'
  <2> SUFFICES ASSUME ~disposed, NEW i \in 1..Len(tail'), tail'[i].frame = "queued"
               PROVE  /\ "proving" \notin out'[tail'[i].job]
                      /\ \A k \in 1..(i - 1) : tail'[k].frame = "proving" => tail'[k].job # tail'[i].job
    BY DEF QueuedFirst
  <2>1. CASE i \in 1..Len(tail)
    <3>1. \A k \in 1..(i - 1) : k \in 1..Len(tail)
      BY <1>1, <2>1
    <3>2. tail[i].job \in Jobs
      <4>1. tail[i] \in FrameType
        BY <1>1, <2>1
      <4> QED BY <4>1 DEF FrameType
    <3>3. /\ "proving" \notin out[tail[i].job]
          /\ \A k \in 1..(i - 1) : tail[k].frame = "proving" => tail[k].job # tail[i].job
      BY <1>2, <2>1 DEF OrderInv, QueuedFirst
    <3>4. tail'[i] = tail[i] /\ \A k \in 1..(i - 1) : tail'[k] = tail[k]
      BY <1>2, <2>1, <3>1
    <3> QED BY <1>4, <3>2, <3>3, <3>4
  <2>2. CASE i \in (Len(tail) + 1)..Len(tail')
    <3> DEFINE m == i - Len(tail)
    <3>1. m \in 1..Len(frames) /\ tail'[i] = frames[m]
      BY <1>2, <2>2
    <3>2. frames[m].frame = "queued"
      BY <3>1
    <3>3. Unstarted(j) /\ \A k \in 1..Len(frames) : frames[k].frame # "proving"
      BY <3>1, <3>2
    <3>4. tail'[i].job = j /\ "proving" \notin out'[j]
      BY <1>4, <3>1, <3>3 DEF Unstarted
    <3>5. ASSUME NEW k \in 1..(i - 1), tail'[k].frame = "proving" PROVE tail'[k].job # j
      <4>1. k \in 1..Len(tail) \/ k \in (Len(tail) + 1)..Len(tail')
        BY <1>1, <1>2, <2>2
      <4>2. k \notin (Len(tail) + 1)..Len(tail')
        BY <1>2, <3>3, <3>5
      <4> QED BY <1>2, <3>3, <4>1, <4>2 DEF Unstarted
    <3> QED BY <3>4, <3>5
  <2> QED BY <1>3, <2>1, <2>2
<1>8. InOrder
  BY <1>4 DEF InOrder
<1> QED BY <1>5, <1>6, <1>7, <1>8 DEF OrderInv

LEMMA SendOrder ==
    ASSUME IInv, OrderInv, SendNext
    PROVE  OrderInv' /\ InOrder
<1> DEFINE head == tail[1]
<1>1. /\ tail \in Seq(FrameType) /\ tail # <<>> /\ Len(tail) \in Nat /\ 1 \in 1..Len(tail)
      /\ head = Head(tail) /\ head.job \in Jobs
      /\ Len(tail') = Len(tail) - 1
      /\ \A i \in 1..Len(tail') : i + 1 \in 1..Len(tail) /\ tail'[i] = tail[i + 1]
  <2>1. tail \in Seq(FrameType) /\ tail # <<>> /\ tail' = Tail(tail)
    BY DEF IInv, TypeOK, FrameType, SendNext
  <2>2. Len(tail) \in Nat /\ 1 \in 1..Len(tail) /\ head = Head(tail) /\ head \in FrameType
    BY <2>1
  <2>3. Len(tail') = Len(tail) - 1 /\ \A i \in 1..Len(tail') : tail'[i] = tail[i + 1]
    BY <2>1
  <2> QED BY <2>1, <2>2, <2>3 DEF FrameType
<1>2. /\ out \in [Jobs -> SUBSET Frames] /\ UNCHANGED <<runs, health, disposed, claims>>
      /\ out' = [out EXCEPT ![head.job] = @ \cup {head.frame}]
  BY <1>1 DEF IInv, TypeOK, SendNext
<1> HIDE DEF head
<1>3. Waiting'
  <2> SUFFICES ASSUME ~disposed, NEW j \in Jobs, claims[j] = 0 \/ j \in health
               PROVE  Unstarted(j)' /\ (claims[j] = 0 => j \notin health)
    BY <1>2 DEF Waiting
  <2>1. Unstarted(j) /\ (claims[j] = 0 => j \notin health) /\ head.job # j
    BY <1>1 DEF OrderInv, Waiting, Unstarted, head
  <2> QED BY <1>1, <1>2, <2>1 DEF Unstarted
<1>4. Accepted'
  BY <1>1, <1>2 DEF OrderInv, Accepted
<1>5. QueuedFirst'
  <2> SUFFICES ASSUME ~disposed, NEW i \in 1..Len(tail'), tail'[i].frame = "queued"
               PROVE  /\ "proving" \notin out'[tail'[i].job]
                      /\ \A k \in 1..(i - 1) : tail'[k].frame = "proving" => tail'[k].job # tail'[i].job
    BY <1>2 DEF QueuedFirst
  <2>1. /\ "proving" \notin out[tail[i + 1].job] /\ tail[i + 1].job \in Jobs
        /\ \A k \in 1..i : tail[k].frame = "proving" => tail[k].job # tail[i + 1].job
    <3>1. /\ i + 1 \in 1..Len(tail) /\ tail[i + 1].frame = "queued"
          /\ tail[i + 1] \in FrameType /\ (i + 1) - 1 = i
      BY <1>1
    <3> QED BY <3>1 DEF OrderInv, QueuedFirst, FrameType
  <2>2. 1 \in 1..i /\ \A k \in 1..(i - 1) : k + 1 \in 1..i /\ k \in 1..Len(tail')
    BY <1>1
  <2>3. "proving" \notin out'[tail'[i].job]
    BY <1>1, <1>2, <2>1, <2>2 DEF head
  <2> QED BY <1>1, <2>1, <2>2, <2>3
<1>6. InOrder
  <2> SUFFICES ASSUME ~disposed, NEW j \in Jobs, NEW frame \in out'[j] \ out[j]
               PROVE  /\ frame = "queued" => "proving" \notin out[j]
                      /\ frame \in {"proving", "chunks", "result"} => "accept" \in out[j]
    BY DEF InOrder
  <2>1. j = head.job /\ frame = head.frame
    BY <1>2
  <2> QED BY <1>1, <2>1 DEF OrderInv, QueuedFirst, Accepted, head
<1> QED BY <1>3, <1>4, <1>5, <1>6 DEF OrderInv

LEMMA HealthOrder ==
    ASSUME IInv, OrderInv, NEW j \in Jobs, HealthAnswers(j)
    PROVE  OrderInv' /\ InOrder
<1> DEFINE frames == <<Signed(j, "accept", 0), Signed(j, "queued", 0)>>
<1>1. /\ j \in health /\ health' = health \ {j}
      /\ UNCHANGED <<runs, out, disposed, claims>> /\ out \in [Jobs -> SUBSET Frames]
  BY DEF HealthAnswers, IInv, TypeOK
<1>2. CASE UNCHANGED tail
  BY <1>1, <1>2, QuietOrder
<1>3. CASE tail' = Queue(frames)
  <2>1. /\ Len(frames) = 2 /\ frames[1] = Signed(j, "accept", 0) /\ frames[2] = Signed(j, "queued", 0)
        /\ frames \in Seq(FrameType)
    <3>1. Signed(j, "accept", 0) \in FrameType /\ Signed(j, "queued", 0) \in FrameType
      BY CountsAssumption, SignedType DEF Frames
    <3> QED BY <3>1
  <2> HIDE DEF frames
  <2>2. \A k \in 1..Len(frames) : frames[k].job = j /\ frames[k].frame \in {"accept", "queued"}
    BY <2>1 DEF Signed
  <2>3. ~disposed => claims[j] # 0 /\ Unstarted(j)
    BY <1>1 DEF OrderInv, Waiting
  <2>4. runs'[j] # <<>> => "accept" \in out[j]
    BY <1>1 DEF OrderInv, Accepted
  <2>5. \A k \in 1..Len(frames) : frames[k].frame \notin {"proving", "chunks", "result"}
    BY <2>2
  <2> QED BY <1>1, <1>3, <2>1, <2>2, <2>3, <2>4, <2>5, QueueOrder
<1> QED BY <1>2, <1>3 DEF HealthAnswers

LEMMA ChunkOrder ==
    ASSUME IInv, OrderInv, NEW j \in Jobs, NEW k \in Seqs, ReceiveChunk(j, k)
    PROVE  OrderInv' /\ InOrder
<1> DEFINE n == Len(runs[j]) + 1
           frames == <<Signed(j, "proving", n)>>
<1>1. "accept" \in out[j] /\ UNCHANGED <<health, out, disposed, claims>>
  BY DEF ReceiveChunk
<1>2. CASE UNCHANGED <<runs, tail>>
  BY <1>1, <1>2, QuietOrder
<1>3. CASE n <= MaxRuns /\ tail' = Queue(frames) /\ runs' = [runs EXCEPT ![j] = Append(@, "status")]
  <2>1. Len(frames) = 1 /\ frames[1] = Signed(j, "proving", n) /\ frames \in Seq(FrameType)
    <3>1. runs \in [Jobs -> Seq(Stages)] /\ Len(runs[j]) \in Nat
      BY DEF IInv, TypeOK
    <3>2. n \in 0..MaxRuns
      BY <1>3, <3>1, CountsAssumption
    <3>3. Signed(j, "proving", n) \in FrameType
      BY <3>2, SignedType DEF Frames
    <3> QED BY <3>3
  <2>2. out \in [Jobs -> SUBSET Frames] /\ \A i \in Jobs : i = j \/ runs'[i] = runs[i]
    BY <1>3 DEF IInv, TypeOK
  <2> HIDE DEF frames
  <2>3. \A i \in 1..Len(frames) : frames[i].job = j /\ frames[i].frame = "proving"
    BY <2>1 DEF Signed
  <2>4. ~disposed => j \notin health' /\ claims[j] # 0
    BY <1>1 DEF OrderInv, Waiting, Unstarted
  <2>5. \A i \in 1..Len(frames) : frames[i].frame # "queued"
    BY <2>3
  <2> QED BY <1>1, <1>3, <2>1, <2>2, <2>3, <2>4, <2>5, QueueOrder
<1> QED BY <1>2, <1>3 DEF ReceiveChunk

LEMMA ProofOrder ==
    ASSUME IInv, OrderInv, NEW j \in Jobs, NEW n \in DOMAIN runs[j],
           StartProof(j, n) \/ ProofSettles(j, n) \/ ResultSent(j, n)
    PROVE  OrderInv' /\ InOrder
<1> DEFINE frames == <<Signed(j, "result", n)>>
<1>1. /\ runs \in [Jobs -> Seq(Stages)] /\ Len(runs[j]) <= MaxRuns /\ out \in [Jobs -> SUBSET Frames]
      /\ UNCHANGED <<health, disposed, claims>>
  BY DEF IInv, TypeOK, StartProof, ProofSettles, ResultSent
<1>2. /\ runs[j] # <<>> /\ n \in 0..MaxRuns
      /\ \A i \in Jobs : i = j \/ runs'[i] = runs[i]
  <2>1. runs[j] # <<>> /\ Len(runs[j]) \in Nat /\ n \in 1..Len(runs[j])
    BY <1>1
  <2>2. \A i \in Jobs : i = j \/ runs'[i] = runs[i]
    BY <1>1 DEF StartProof, ProofSettles, ResultSent, Stage
  <2> QED BY <1>1, <2>1, <2>2, CountsAssumption
<1>3. CASE UNCHANGED <<tail, out>>
  BY <1>1, <1>2, <1>3, QuietOrder
<1>4. CASE tail' = Queue(frames) /\ out' = [out EXCEPT ![j] = @ \cup {"chunks"}]
  <2>1. Len(frames) = 1 /\ frames[1] = Signed(j, "result", n) /\ frames \in Seq(FrameType)
    <3>1. Signed(j, "result", n) \in FrameType
      BY <1>2, SignedType DEF Frames
    <3> QED BY <3>1
  <2> HIDE DEF frames
  <2>2. \A i \in 1..Len(frames) : frames[i].job = j /\ frames[i].frame = "result"
    BY <2>1 DEF Signed
  <2>3. "accept" \in out[j]
    BY <1>2 DEF OrderInv, Accepted
  <2>4. ~disposed => j \notin health' /\ claims[j] # 0
    BY <1>1, <1>2 DEF OrderInv, Waiting, Unstarted
  <2>5. \A i \in 1..Len(frames) : frames[i].frame # "queued"
    BY <2>2
  <2> QED BY <1>1, <1>2, <1>4, <2>1, <2>2, <2>3, <2>4, <2>5, QueueOrder
<1> QED BY <1>3, <1>4 DEF StartProof, ProofSettles, ResultSent

LEMMA NextOrder == IInv /\ OrderInv /\ [Next]_vars => OrderInv' /\ InOrder
<1> SUFFICES ASSUME IInv, OrderInv, [Next]_vars PROVE OrderInv' /\ InOrder
  OBVIOUS
<1>1. ASSUME NEW j \in Jobs, InitArrives(j) PROVE OrderInv' /\ InOrder
  BY <1>1, QuietOrder DEF InitArrives
<1>2. ASSUME NEW j \in Jobs, HandleInit(j) PROVE OrderInv' /\ InOrder
  BY <1>2, ClaimOrder
<1>3. ASSUME NEW j \in Jobs, HealthAnswers(j) PROVE OrderInv' /\ InOrder
  BY <1>3, HealthOrder
<1>4. ASSUME NEW j \in Jobs, HandleCancel(j) \/ Timeout(j) \/ Expire(j)
      PROVE  OrderInv' /\ InOrder
  BY <1>4, QuietOrder DEF HandleCancel, Timeout, Expire
<1>5. ASSUME NEW j \in Jobs, NEW k \in Seqs, ReceiveChunk(j, k) PROVE OrderInv' /\ InOrder
  BY <1>5, ChunkOrder
<1>6. ASSUME NEW j \in Jobs, RunStep(j) PROVE OrderInv' /\ InOrder
  BY <1>6, ProofOrder DEF RunStep
<1>7. CASE SendNext
  BY <1>7, SendOrder
<1>8. CASE Dispose \/ UNCHANGED vars
  BY <1>8, QuietOrder DEF Dispose, vars
<1> QED BY <1>1, <1>2, <1>3, <1>4, <1>5, <1>6, <1>7, <1>8 DEF Next

(* While the service lives the phone is told nothing of a proof before      *)
(* ACCEPT, and never that it is queued after it was told that it proves,    *)
(* however many jobs wait in the queue of signatures.                       *)
THEOREM FramesCorrect == Spec => FramesInOrder
<1>1. Init => OrderInv
  <2> SUFFICES ASSUME Init PROVE OrderInv
    OBVIOUS
  <2>1. tail = <<>> /\ Len(tail) = 0 /\ 1..Len(tail) = {}
    BY DEF Init
  <2> QED BY <2>1 DEF Init, OrderInv, Waiting, Unstarted, Accepted, QueuedFirst
<1>2. IInv /\ OrderInv /\ [Next]_vars => [InOrder]_vars
  BY NextOrder
<1>3. Spec => [][InOrder]_vars
  BY <1>1, <1>2, Inductive, NextOrder, PTL DEF Spec
<1> QED BY <1>3 DEF FramesInOrder, InOrder

==============================================================================
