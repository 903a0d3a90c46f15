--------------------------- MODULE SyncPendingProofs ---------------------------
(***************************************************************************)
(* That a raised flag always has someone left to drop it, that an arm        *)
(* outlives the answers handled before it, and that a flag dropped for an    *)
(* answer has its rows in the store, for any number of arms and rows.        *)
(***************************************************************************)
EXTENDS SyncPending, TLAPS

(* Every release names an arm that was made. *)
Tokens ==
    /\ answers \subseteq 1..gen
    /\ \A i \in 1..Len(applying) : applying[i].token <= gen
    /\ \A i \in 1..Len(tasks) : tasks[i].token <= gen

IInv == TypeOK /\ Tokens /\ RaisedByLatest /\ SomeoneReleases

-----------------------------------------------------------------------------
(* What follows from the bounds. *)
LEMMA Bounds == 0 \in 0..MaxArms /\ 0 \in Rows /\ 0 \in 0..MaxOlder /\ Arms \subseteq 0..MaxArms /\ Rows \subseteq Nat
  BY BoundsAssumption DEF Arms, Rows

(* The loading store's operations keep their types. *)
LEMMA ArmType ==
  ASSUME TypeOK, Arm
  PROVE  /\ gen' \in 0..MaxArms /\ timer' \in 0..MaxArms /\ flag' \in BOOLEAN /\ settle' \in BOOLEAN
         /\ answers' \subseteq Arms /\ due' \in Rows
         /\ gen' = gen + 1 /\ gen' = timer' /\ answers' = answers \cup {gen'}
  <1>1. gen + 1 \in Arms /\ gen + 1 \in 0..MaxArms
    BY BoundsAssumption DEF Arm, TypeOK, Arms
  <1>2. gen' = gen + 1 /\ timer' = gen + 1 /\ flag' = TRUE /\ settle' = FALSE /\ due' = 0
        /\ answers' = answers \cup {gen + 1}
    BY DEF Arm
  <1>3. answers' \subseteq Arms /\ due' \in Rows
    BY <1>1, <1>2, Bounds DEF TypeOK
  <1>4. QED
    BY <1>1, <1>2, <1>3

LEMMA ReleaseType ==
  ASSUME TypeOK, NEW token \in 0..MaxArms, NEW rs \in Rows, Release(token, rs)
  PROVE  flag' \in BOOLEAN /\ settle' \in BOOLEAN /\ due' \in Rows
  <1>1. flag' \in BOOLEAN
    BY DEF Release
  <1>2. settle' \in BOOLEAN
    BY DEF Release, TypeOK
  <1>3. due' \in Rows
    BY Bounds DEF Release, Later, TypeOK
  <1>4. QED
    BY <1>1, <1>2, <1>3

LEMMA SetType ==
  ASSUME TypeOK, NEW value \in BOOLEAN, SetLoadingTxs(value)
  PROVE  loadingTxs' \in BOOLEAN /\ flag' \in BOOLEAN /\ settle' \in BOOLEAN /\ due' \in Rows
  BY Bounds DEF SetLoadingTxs, TypeOK

(* Passes. *)
LEMMA LaterRows ==
  ASSUME NEW a \in Rows, NEW b \in Rows
  PROVE  Later(a, b) \in Rows /\ Later(a, b) >= a /\ Later(a, b) >= b
  BY Bounds DEF Later

LEMMA SupersedeType ==
  ASSUME TypeOK, NEW next \in Pass, Supersede(next)
  PROVE  /\ passes' \in [0..MaxOlder -> Pass] /\ pass' = next
         /\ \A i \in 1..MaxOlder : passes'[i] \in {passes[i], pass}
  BY BoundsAssumption DEF Supersede, TypeOK, pass

LEMMA EndsType ==
  ASSUME TypeOK, NEW i \in 0..MaxOlder, Ends(i)
  PROVE  /\ passes' \in [0..MaxOlder -> Pass]
         /\ passes'[i] = NoPass /\ \A j \in 0..MaxOlder : j # i => passes'[j] = passes[j]
         /\ loadingTxs' \in BOOLEAN /\ flag' \in BOOLEAN /\ settle' \in BOOLEAN /\ due' \in Rows
  <1>1. NoPass \in Pass
    BY Bounds DEF NoPass, Pass
  <1>2. loadingTxs' \in BOOLEAN /\ flag' \in BOOLEAN /\ settle' \in BOOLEAN /\ due' \in Rows
    BY SetType DEF Ends, Superseded, TypeOK
  <1>3. QED
    BY <1>1, <1>2 DEF Ends, TypeOK

LEMMA GoesOnType ==
  ASSUME TypeOK, NEW i \in 0..MaxOlder, NEW at \in {"clearing", "resyncing", "finishing"}, NEW rs \in Rows,
         GoesOn(i, at, rs)
  PROVE  /\ passes' \in [0..MaxOlder -> Pass]
         /\ passes'[i] = [at |-> at, rows |-> rs, old |-> FALSE]
         /\ \A j \in 0..MaxOlder : j # i => passes'[j] = passes[j]
         /\ loadingTxs' \in BOOLEAN /\ flag' \in BOOLEAN /\ settle' \in BOOLEAN /\ due' \in Rows
  <1>1. [at |-> at, rows |-> rs, old |-> FALSE] \in Pass
    BY DEF Pass
  <1>2. QED
    BY <1>1 DEF GoesOn, TypeOK

LEMMA PutsType ==
  ASSUME TypeOK, NEW i \in 0..MaxOlder, Puts(i)
  PROVE  /\ passes' \in [0..MaxOlder -> Pass] /\ shown' \in Rows /\ lost' \in Rows
         /\ loadingTxs' \in BOOLEAN /\ flag' \in BOOLEAN /\ settle' \in BOOLEAN /\ due' \in Rows
  <1>1. passes[i].rows \in Rows /\ shown \in Rows /\ lost \in Rows /\ 0 \in Rows
    BY Bounds DEF TypeOK, Pass
  <1>2. CASE GoesOn(i, "finishing", 0) /\ shown' = passes[i].rows /\ lost' = Later(lost, shown)
    BY <1>1, <1>2, GoesOnType, LaterRows
  <1>3. CASE Ends(i) /\ shown' = 0 /\ lost' = Later(lost, Later(shown, passes[i].rows))
    BY <1>1, <1>3, EndsType, LaterRows
  <1>4. QED
    BY <1>2, <1>3 DEF Puts

(* A release leaves the flag to the pass it waits for, or to the backstop.  *)
LEMMA ReleaseLeaves ==
  ASSUME TypeOK, RaisedByLatest, SomeoneReleases, NEW token \in 0..MaxArms, NEW rs \in Rows, Release(token, rs),
         UNCHANGED <<gen, loadingTxs, pass>>, token = gen \/ timer' = timer
  PROVE  SomeoneReleases'
  <1>1. CASE token = gen
    BY <1>1 DEF Release, SomeoneReleases, RaisedByLatest
  <1>2. CASE token # gen
    BY <1>2 DEF Release, SomeoneReleases, TypeOK
  <1>3. QED
    BY <1>1, <1>2

(* The end of the latest pass drops the flag that waited for it. *)
LEMMA SetLeaves ==
  ASSUME TypeOK, SomeoneReleases, NEW value \in BOOLEAN, SetLoadingTxs(value), UNCHANGED <<gen, timer>>,
         value <=> pass'.at # "none"
  PROVE  SomeoneReleases' /\ RaisedByLatest'
  <1>1. RaisedByLatest'
    BY DEF SetLoadingTxs, RaisedByLatest
  <1>0. settle \in BOOLEAN /\ flag \in BOOLEAN
    BY DEF TypeOK
  <1>2. ASSUME flag' PROVE timer' = gen' \/ (settle' /\ loadingTxs' /\ pass'.at # "none")
    <2>1. flag /\ (value \/ ~settle) /\ (settle' <=> settle /\ value) /\ (loadingTxs' <=> value)
      BY <1>0, <1>2 DEF SetLoadingTxs
    <2>2. timer' = timer /\ gen' = gen
      OBVIOUS
    <2>3. CASE settle
      BY <2>1, <2>3
    <2>4. CASE ~settle
      <3>1. timer = gen
        BY <2>1, <2>4 DEF SomeoneReleases
      <3>2. QED
        BY <2>2, <3>1
    <2>5. QED
      BY <2>3, <2>4
  <1>3. SomeoneReleases'
    BY <1>2 DEF SomeoneReleases
  <1>4. QED
    BY <1>1, <1>3

(* Sequences of records with tokens. *)
LEMMA AppendTask ==
  ASSUME TypeOK, NEW t \in Task
  PROVE  /\ Append(tasks, t) \in Seq(Task)
         /\ Len(Append(tasks, t)) = Len(tasks) + 1
         /\ Append(tasks, t)[Len(tasks) + 1] = t
         /\ \A i \in 1..Len(tasks) : Append(tasks, t)[i] = tasks[i]
         /\ \A i \in 1..(Len(tasks) + 1) : i \in 1..Len(tasks) \/ i = Len(tasks) + 1
  BY DEF TypeOK

LEMMA TailTask ==
  ASSUME TypeOK, tasks # <<>>
  PROVE  /\ Head(tasks) \in Task /\ Head(tasks) = tasks[1] /\ 1 \in 1..Len(tasks)
         /\ Tail(tasks) \in Seq(Task)
         /\ \A i \in 1..Len(Tail(tasks)) : i + 1 \in 1..Len(tasks) /\ Tail(tasks)[i] = tasks[i + 1]
  BY DEF TypeOK

LEMMA TailJob ==
  ASSUME TypeOK, applying # <<>>
  PROVE  /\ Head(applying) \in Job /\ Head(applying) = applying[1] /\ 1 \in 1..Len(applying)
         /\ Tail(applying) \in Seq(Job)
         /\ \A i \in 1..Len(Tail(applying)) : i + 1 \in 1..Len(applying) /\ Tail(applying)[i] = applying[i + 1]
  BY DEF TypeOK

(* A task queued: its token is of an arm made. *)
LEMMA QueueTokens ==
  ASSUME TypeOK, NEW t \in Task, NEW g \in Nat, \A i \in 1..Len(tasks) : tasks[i].token <= g, t.token <= g
  PROVE  \A i \in 1..Len(Append(tasks, t)) : Append(tasks, t)[i].token <= g
  BY AppendTask

(* Answered and Commit. *)
LEMMA AppendJob ==
  ASSUME TypeOK, NEW j \in Job
  PROVE  /\ Append(applying, j) \in Seq(Job)
         /\ \A i \in 1..Len(Append(applying, j)) :
              Append(applying, j)[i] = j \/ (i \in 1..Len(applying) /\ Append(applying, j)[i] = applying[i])
  BY DEF TypeOK

LEMMA CommitJob ==
  ASSUME TypeOK, applying # <<>>, NEW rs \in Rows
  PROVE  LET j == [Head(applying) EXCEPT !.at = "committed", !.rows = rs]
             q == <<j>> \o Tail(applying)
         IN  /\ q \in Seq(Job)
             /\ \A i \in 1..Len(q) : i \in 1..Len(applying) /\ q[i].token = applying[i].token
  <1> DEFINE j == [Head(applying) EXCEPT !.at = "committed", !.rows = rs]
  <1> DEFINE q == <<j>> \o Tail(applying)
  <1>1. j \in Job /\ j.token = applying[1].token
    BY TailJob DEF Job
  <1> HIDE DEF j
  <1>2. q \in Seq(Job) /\ Len(q) = Len(applying) /\ q[1] = j
    BY <1>1, TailJob DEF TypeOK
  <1>3. \A i \in 1..Len(q) : i # 1 => q[i] = applying[i]
    BY <1>1, TailJob DEF TypeOK
  <1>4. QED
    BY <1>1, <1>2, <1>3 DEF j

-----------------------------------------------------------------------------
(* Every step keeps the types. *)
LEMMA TypeStep == ASSUME TypeOK, Tokens, [Next]_vars PROVE TypeOK'
  <1> USE Bounds DEF arm, loader, rows, table
  <1>0. <<>> \in Seq(Task) /\ NoPass \in Pass
    BY DEF NoPass, Pass
  <1>a. /\ committed \in Nat /\ stored \in Rows /\ lost \in Rows /\ committed + 1 \in Nat
        /\ committed \in 0..committed /\ 0 \in 0..committed
    BY BoundsAssumption DEF TypeOK, Rows
  <1>1. CASE UNCHANGED vars
    BY <1>1 DEF vars, TypeOK
  <1>2. CASE OnOpen \/ Resubscribe
    BY <1>2, ArmType DEF OnOpen, Resubscribe, TypeOK
  <1>3. CASE OnClose
    BY <1>3 DEF OnClose, Clear, TypeOK
  <1>4. CASE Answered
    <2>1. gen \in Arms
      <3>1. PICK a \in answers : answers' = answers \ {a}
        BY <1>4 DEF Answered
      <3>2. a \in 1..gen /\ gen \in 0..MaxArms
        BY DEF Tokens, TypeOK
      <3>3. QED
        BY <3>2 DEF Arms
    <2>2. [token |-> gen, at |-> "waiting", rows |-> 0] \in Job
      BY <2>1 DEF Job
    <2>3. applying' \in Seq(Job) /\ answers' \subseteq Arms
      BY <1>4, <2>2, AppendJob DEF Answered, TypeOK
    <2>4. QED
      BY <1>4, <2>3 DEF Answered, TypeOK
  <1>5. CASE Expand
    <2>1. [kind |-> "release", token |-> Token(Head(applying)), rows |-> 0] \in Task
      BY <1>5, TailJob DEF Expand, Token, Task, Job
    <2>2. tasks' \in Seq(Task) /\ applying' \in Seq(Job)
      BY <1>5, <2>1, TailJob, AppendTask DEF Expand
    <2>3. QED
      BY <1>5, <2>2, ArmType DEF Expand, TypeOK
  <1>6. Read \in Task
    BY DEF Read, Task
  <1>b. Append(tasks, Read) \in Seq(Task) /\ tasks \in Seq(Task)
    BY <1>6, AppendTask DEF TypeOK
  <1>c. ASSUME NewRows
        PROVE  committed' \in Rows /\ stored' \in 0..committed' /\ stored' \in Rows /\ old' \in BOOLEAN
               /\ tasks' \in Seq(Task)
    BY <1>a, <1>b, <1>c, BoundsAssumption DEF NewRows, TypeOK, Rows
  <1>d. ASSUME Emptied
        PROVE  committed' \in Rows /\ stored' \in 0..committed' /\ old' \in BOOLEAN /\ lost' \in Rows
               /\ tasks' \in Seq(Task)
    BY <1>a, <1>b, <1>d DEF Emptied, TypeOK
  <1>7. CASE Commit
    <2>1. committed' \in Rows /\ stored' \in 0..committed' /\ stored' \in Rows /\ old' \in BOOLEAN
          /\ tasks' \in Seq(Task)
      BY <1>7, <1>a, <1>b, <1>c DEF Commit, TypeOK
    <2>2. applying' \in Seq(Job)
      BY <1>7, <2>1, CommitJob DEF Commit
    <2>3. QED
      BY <1>7, <2>1, <2>2 DEF Commit, TypeOK
  <1>8. CASE Applied
    <2>1. [kind |-> "release", token |-> Token(Head(applying)), rows |-> Head(applying).rows] \in Task
      BY <1>8, TailJob DEF Applied, Token, Task, Job
    <2>2. tasks' \in Seq(Task) /\ applying' \in Seq(Job)
      BY <1>8, <2>1, TailJob, AppendTask DEF Applied
    <2>3. QED
      BY <1>8, <2>2 DEF Applied, TypeOK
  <1>9. CASE RealtimeRows
    BY <1>9, <1>c DEF RealtimeRows, TypeOK
  <1>e. ASSUME ResyncFrom0
        PROVE  /\ committed' \in Rows /\ stored' \in 0..committed' /\ old' \in BOOLEAN /\ lost' \in Rows
               /\ tasks' \in Seq(Task) /\ gen' \in 0..MaxArms /\ timer' \in 0..MaxArms
               /\ flag' \in BOOLEAN /\ settle' \in BOOLEAN /\ due' \in Rows /\ answers' \subseteq Arms
    <2>1. Emptied
      BY <1>e DEF ResyncFrom0
    <2>2. Arm \/ UNCHANGED <<answers, arm>>
      BY <1>e DEF ResyncFrom0
    <2>3. QED
      BY <1>d, <2>1, <2>2, ArmType DEF TypeOK
  <1>f. CASE Resync
    BY <1>e, <1>f DEF Resync, TypeOK
  <1>10. CASE RunRelease
    <2>1. Head(tasks).token \in 0..MaxArms /\ Head(tasks).rows \in Rows /\ tasks' \in Seq(Task)
      BY <1>10, TailTask DEF RunRelease, Task
    <2>2. flag' \in BOOLEAN /\ settle' \in BOOLEAN /\ due' \in Rows
      BY <1>10, <2>1, ReleaseType DEF RunRelease
    <2>3. QED
      BY <1>10, <2>1, <2>2 DEF RunRelease, TypeOK
  <1>11. CASE Backstop
    <2>1. flag' \in BOOLEAN /\ settle' \in BOOLEAN /\ due' \in Rows
      BY <1>11, ReleaseType DEF Backstop, TypeOK
    <2>2. QED
      BY <1>11, <2>1 DEF Backstop, TypeOK
  <1>12. CASE GiveUp
    <2>1. flag' \in BOOLEAN /\ settle' \in BOOLEAN /\ due' \in Rows
      BY <1>12, ReleaseType DEF GiveUp, TypeOK
    <2>2. QED
      BY <1>12, <2>1 DEF GiveUp, TypeOK
  <1>14. ASSUME StartRead
         PROVE  /\ passes' \in [0..MaxOlder -> Pass]
                /\ loadingTxs' \in BOOLEAN /\ flag' \in BOOLEAN /\ settle' \in BOOLEAN /\ due' \in Rows
    <2>1. [at |-> "reading", rows |-> stored, old |-> old] \in Pass
      BY <1>a DEF Pass, TypeOK
    <2>2. QED
      BY <1>14, <2>1, SupersedeType, SetType DEF StartRead
  <1>15. CASE RunRead
    <2>1. tasks' \in Seq(Task)
      BY <1>15, TailTask DEF RunRead
    <2>2. QED
      BY <1>14, <1>15, <2>1 DEF RunRead, TypeOK
  <1>16. CASE Load
    BY <1>14, <1>16 DEF Load, TypeOK
  <1>17. CASE ReadFails
    <2>1. pass.rows \in Rows
      BY DEF TypeOK, pass, Pass
    <2>2. lost' \in Rows
      BY <1>a, <1>17, <2>1, LaterRows DEF ReadFails
    <2>3. QED
      BY <1>17, <2>2, EndsType DEF ReadFails, TypeOK
  <1>18. CASE PutRows
    BY <1>18, PutsType DEF PutRows, TypeOK
  <1>19. CASE FindOldFormat
    <2>1. pass.rows \in Rows
      BY DEF TypeOK, pass, Pass
    <2>2. QED
      BY <1>19, <2>1, GoesOnType DEF FindOldFormat, TypeOK
  <1>20. CASE Logout
    BY <1>0, <1>20, SupersedeType DEF Logout, Clear, TypeOK
  <1>21. ASSUME NEW i \in 0..MaxOlder, ClearTable(i) PROVE TypeOK'
    <2>1. CASE Emptied /\ GoesOn(i, "resyncing", 0) /\ UNCHANGED shown
      BY <1>d, <1>21, <2>1, GoesOnType DEF ClearTable, TypeOK
    <2>2. CASE Puts(i) /\ UNCHANGED <<tasks, table>>
      BY <1>21, <2>2, PutsType DEF ClearTable, TypeOK
    <2>3. QED
      BY <1>21, <2>1, <2>2 DEF ClearTable
  <1>22. ASSUME NEW i \in 0..MaxOlder, TriggerResync(i) PROVE TypeOK'
    <2>1. passes' \in [0..MaxOlder -> Pass]
      BY <1>22 DEF TriggerResync, TypeOK, Pass
    <2>2. CASE ResyncFrom0
      BY <1>22, <1>e, <2>1, <2>2 DEF TriggerResync, TypeOK
    <2>3. CASE UNCHANGED <<answers, arm, tasks, table, lost>>
      BY <1>22, <2>1, <2>3 DEF TriggerResync, TypeOK
    <2>4. QED
      BY <1>22, <2>2, <2>3 DEF TriggerResync
  <1>23. ASSUME NEW i \in 0..MaxOlder, PassEnds(i) PROVE TypeOK'
    BY <1>23, EndsType DEF PassEnds, TypeOK
  <1> QED
    BY <1>1, <1>2, <1>3, <1>4, <1>5, <1>7, <1>8, <1>9, <1>f, <1>10, <1>11, <1>12, <1>15, <1>16, <1>17, <1>18,
       <1>19, <1>20, <1>21, <1>22, <1>23 DEF Next, Frames, Apply, Tasks, Results, Running

(* Tokens are taken from gen, which only grows. *)
LEMMA TokensStep == ASSUME TypeOK, Tokens, [Next]_vars PROVE Tokens'
  <1> USE DEF arm, loader, rows, table
  <1>0. gen \in Nat
    BY BoundsAssumption DEF TypeOK
  <1>1. ASSUME NEW i \in 1..Len(applying) PROVE applying[i].token \in Nat
    <2>1. applying[i] \in Job
      BY DEF TypeOK
    <2>2. QED
      BY <2>1, BoundsAssumption DEF Job, Arms
  <1>2. ASSUME NEW i \in 1..Len(tasks) PROVE tasks[i].token \in Nat
    <2>1. tasks[i] \in Task
      BY DEF TypeOK
    <2>2. QED
      BY <2>1, BoundsAssumption DEF Task
  <1>3. ASSUME Arm
        PROVE  /\ gen' = gen + 1 /\ answers' \subseteq 1..gen'
               /\ \A i \in 1..Len(applying) : applying[i].token <= gen'
               /\ \A i \in 1..Len(tasks) : tasks[i].token <= gen'
    <2>1. gen' = gen + 1 /\ answers' = answers \cup {gen'}
      BY <1>3 DEF Arm
    <2>2. QED
      BY <2>1, <1>0, <1>1, <1>2 DEF Tokens
  <1>4. ASSUME applying # <<>>
        PROVE  \A i \in 1..Len(Tail(applying)) : Tail(applying)[i].token <= gen
    BY <1>4, TailJob DEF Tokens
  <1>5. ASSUME tasks # <<>>
        PROVE  \A i \in 1..Len(Tail(tasks)) : Tail(tasks)[i].token <= gen
    BY <1>5, TailTask DEF Tokens
  <1>6. ASSUME UNCHANGED <<gen, applying, tasks>>, answers' \subseteq answers PROVE Tokens'
    BY <1>6 DEF Tokens
  <1>7. CASE UNCHANGED vars
    BY <1>6, <1>7 DEF vars
  <1>8. CASE OnOpen \/ Resubscribe
    BY <1>3, <1>8 DEF OnOpen, Resubscribe, Tokens
  <1>9. CASE OnClose \/ Logout
    BY <1>6, <1>9 DEF OnClose, Logout, Clear
  <1>10. CASE Answered
    <2> DEFINE j == [token |-> gen, at |-> "waiting", rows |-> 0]
    <2>1. j \in Job
      <3>1. PICK a \in answers : answers' = answers \ {a}
        BY <1>10 DEF Answered
      <3>2. a \in 1..gen /\ gen \in 0..MaxArms
        BY DEF Tokens, TypeOK
      <3>3. QED
        BY <3>2, Bounds DEF Job, Arms
    <2>2. applying' = Append(applying, j) /\ UNCHANGED <<gen, tasks>> /\ answers' \subseteq answers
      BY <1>10 DEF Answered
    <2>3. \A i \in 1..Len(applying') : applying'[i].token <= gen
      <3>1. j.token = gen
        OBVIOUS
      <3>2. QED
        BY <1>0, <2>1, <2>2, <3>1, AppendJob DEF Tokens
    <2>4. QED
      BY <2>2, <2>3 DEF Tokens
  <1>11. CASE Expand
    <2> DEFINE t == [kind |-> "release", token |-> Token(Head(applying)), rows |-> 0]
    <2>1. t \in Task /\ t.token = applying[1].token /\ applying[1].token <= gen
      BY <1>11, Bounds, TailJob DEF Expand, Token, Task, Job, Tokens
    <2>2. gen' = gen + 1 /\ t.token <= gen' /\ \A i \in 1..Len(tasks) : tasks[i].token <= gen'
      BY <1>0, <1>1, <1>3, <1>11, <2>1, TailJob DEF Expand
    <2>3. \A i \in 1..Len(tasks') : tasks'[i].token <= gen'
      <3>1. tasks' = Append(tasks, t) /\ gen' \in Nat
        BY <1>0, <1>11, <2>2 DEF Expand
      <3> HIDE DEF t
      <3>2. QED
        BY <2>1, <2>2, <3>1, QueueTokens
    <2>4. \A i \in 1..Len(applying') : applying'[i].token <= gen'
      <3>1. applying' = Tail(applying) /\ applying # <<>>
        BY <1>11 DEF Expand
      <3>2. \A i \in 1..Len(Tail(applying)) : Tail(applying)[i].token \in Nat
        BY <1>1, <3>1, TailJob
      <3>3. QED
        BY <1>0, <1>4, <2>2, <3>1, <3>2
    <2>5. QED
      BY <1>3, <1>11, <2>3, <2>4 DEF Expand, Tokens
  <1>12. Read \in Task /\ Read.token = 0 /\ 0 <= gen
    BY <1>0, Bounds DEF Read, Task
  <1>13. \A i \in 1..Len(Append(tasks, Read)) : Append(tasks, Read)[i].token <= gen
    BY <1>0, <1>12, QueueTokens DEF Tokens
  <1>14. CASE Commit
    <2>1. \A i \in 1..Len(tasks') : tasks'[i].token <= gen
      BY <1>13, <1>14 DEF Commit, NewRows, Tokens
    <2>2. stored' \in Rows
      BY <1>14, BoundsAssumption DEF Commit, NewRows, TypeOK, Rows
    <2>3. \A i \in 1..Len(applying') : applying'[i].token <= gen
      BY <1>14, <2>2, CommitJob DEF Commit, Tokens
    <2>4. QED
      BY <1>14, <2>1, <2>3 DEF Commit, Tokens
  <1>15. CASE Applied
    <2> DEFINE t == [kind |-> "release", token |-> Token(Head(applying)), rows |-> Head(applying).rows]
    <2>1. t \in Task /\ t.token <= gen
      BY <1>15, Bounds, TailJob DEF Applied, Token, Task, Job, Tokens
    <2>2. tasks' = Append(tasks, t) /\ applying' = Tail(applying) /\ applying # <<>>
      BY <1>15 DEF Applied
    <2> HIDE DEF t
    <2>3. \A i \in 1..Len(tasks') : tasks'[i].token <= gen
      BY <1>0, <2>1, <2>2, QueueTokens DEF Tokens
    <2>4. QED
      BY <1>4, <1>15, <2>2, <2>3 DEF Applied, Tokens
  <1>16. CASE RealtimeRows
    BY <1>13, <1>16 DEF RealtimeRows, NewRows, Tokens
  <1>19. ASSUME ResyncFrom0, UNCHANGED applying PROVE Tokens'
    <2>1. tasks' = Append(tasks, Read)
      BY <1>19 DEF ResyncFrom0, Emptied
    <2>2. CASE Arm
      <3>1. /\ gen' \in Nat /\ gen <= gen' /\ \A i \in 1..Len(tasks) : tasks[i].token <= gen'
        BY <1>0, <1>3, <2>2
      <3>2. \A i \in 1..Len(Append(tasks, Read)) : Append(tasks, Read)[i].token <= gen'
        BY <1>12, <3>1, <1>0, QueueTokens
      <3>3. QED
        BY <1>3, <1>19, <2>1, <2>2, <3>2 DEF Tokens
    <2>3. CASE UNCHANGED <<answers, arm>>
      BY <1>13, <1>19, <2>1, <2>3 DEF Tokens
    <2>4. QED
      BY <1>19, <2>2, <2>3 DEF ResyncFrom0
  <1>20. ASSUME NEW i \in 0..MaxOlder, Running(i) PROVE Tokens'
    <2>1. CASE ClearTable(i)
      <3>1. UNCHANGED <<answers, gen, applying>> /\ (tasks' = tasks \/ tasks' = Append(tasks, Read))
        BY <2>1 DEF ClearTable, Emptied
      <3>2. QED
        BY <1>13, <3>1 DEF Tokens
    <2>2. CASE TriggerResync(i)
      BY <1>6, <1>19, <2>2 DEF TriggerResync
    <2>3. CASE PassEnds(i)
      BY <1>6, <2>3 DEF PassEnds
    <2>4. QED
      BY <1>20, <2>1, <2>2, <2>3 DEF Running
  <1>17. CASE RunRelease \/ RunRead
    BY <1>5, <1>17 DEF RunRelease, RunRead, Tokens
  <1>18. CASE Backstop \/ GiveUp \/ Load \/ Results
    BY <1>6, <1>18 DEF Backstop, GiveUp, Load, Results, ReadFails, PutRows, FindOldFormat
  <1>21. CASE Resync
    BY <1>19, <1>21 DEF Resync
  <1> QED
    BY <1>7, <1>8, <1>9, <1>10, <1>11, <1>14, <1>15, <1>16, <1>17, <1>18, <1>20, <1>21
    DEF Next, Frames, Apply, Tasks

(* Who is left to drop the flag after each step. *)
LEMMA ReleasesStep ==
  ASSUME TypeOK, RaisedByLatest, SomeoneReleases, [Next]_vars
  PROVE  RaisedByLatest' /\ SomeoneReleases'
  <1> USE DEF arm, loader, rows, table
  <1>1. ASSUME UNCHANGED <<gen, timer, flag, settle, loadingTxs, pass>> PROVE RaisedByLatest' /\ SomeoneReleases'
    BY <1>1 DEF RaisedByLatest, SomeoneReleases
  <1>2. CASE UNCHANGED vars \/ Answered \/ Commit \/ Applied \/ RealtimeRows
    BY <1>1, <1>2 DEF vars, Answered, Commit, Applied, RealtimeRows, pass
  <1>3. CASE OnOpen \/ Resubscribe \/ Expand
    BY <1>3, ArmType DEF OnOpen, Resubscribe, Expand, RaisedByLatest, SomeoneReleases, pass
  <1>4. CASE OnClose
    BY <1>4 DEF OnClose, Clear, RaisedByLatest, SomeoneReleases, pass
  <1>5. CASE RunRelease
    <2>1. Head(tasks).token \in 0..MaxArms /\ Head(tasks).rows \in Rows
      BY <1>5, TailTask DEF RunRelease, Task
    <2>2. QED
      BY <1>5, <2>1, ReleaseLeaves DEF RunRelease, RaisedByLatest, pass
  <1>6. CASE Backstop
    <2>1. timer \in 0..MaxArms /\ 0 \in Rows /\ Release(timer, 0) /\ UNCHANGED <<gen, loadingTxs, pass>> /\ timer' = 0
      BY <1>6, Bounds DEF Backstop, TypeOK, pass
    <2>2. CASE timer = gen
      BY <2>1, <2>2, ReleaseLeaves DEF RaisedByLatest
    <2>3. CASE timer # gen
      BY <2>1, <2>3 DEF Release, TypeOK, SomeoneReleases, RaisedByLatest
    <2>4. QED
      BY <2>2, <2>3
  <1>7. CASE GiveUp
    BY <1>7, Bounds, ReleaseLeaves DEF GiveUp, TypeOK, RaisedByLatest, pass
  <1>8. ASSUME StartRead, UNCHANGED <<gen, timer>> PROVE RaisedByLatest' /\ SomeoneReleases'
    <2>1. pass'.at # "none"
      <3>1. [at |-> "reading", rows |-> stored, old |-> old] \in Pass
        BY BoundsAssumption DEF TypeOK, Pass, Rows
      <3>2. QED
        BY <1>8, <3>1, SupersedeType DEF StartRead
    <2>2. SetLoadingTxs(TRUE)
      BY <1>8 DEF StartRead
    <2>3. QED
      BY <1>8, <2>1, <2>2, SetLeaves
  <1>9. CASE RunRead
    BY <1>1, <1>8, <1>9 DEF RunRead, pass
  <1>10. CASE Load
    BY <1>8, <1>10 DEF Load
  <1>11. ASSUME NEW i \in 0..MaxOlder, Ends(i), UNCHANGED <<gen, timer>> PROVE RaisedByLatest' /\ SomeoneReleases'
    <2>1. CASE i = 0
      <3>1. SetLoadingTxs(FALSE) /\ pass'.at = "none"
        BY <1>11, <2>1, EndsType DEF Ends, NoPass, pass
      <3>2. QED
        BY <1>11, <3>1, SetLeaves
    <2>2. CASE i # 0
      <3>1. 0 \in 0..MaxOlder
        BY Bounds
      <3>2. UNCHANGED <<flag, settle, loadingTxs, pass>>
        BY <1>11, <2>2, <3>1, EndsType DEF Ends, Superseded, pass
      <3>3. QED
        BY <1>1, <1>11, <3>2
    <2>3. QED
      BY <2>1, <2>2
  <1>12. ASSUME UNCHANGED <<gen, timer, flag, settle, loadingTxs>>, (pass'.at = "none") <=> (pass.at = "none")
         PROVE  RaisedByLatest' /\ SomeoneReleases'
    BY <1>12 DEF RaisedByLatest, SomeoneReleases
  <1>14. ASSUME NEW i \in 0..MaxOlder, NEW at \in {"clearing", "resyncing", "finishing"}, NEW rs \in Rows,
                GoesOn(i, at, rs), passes[i].at # "none", UNCHANGED <<gen, timer>>
         PROVE  RaisedByLatest' /\ SomeoneReleases'
    <2>1. 0 \in 0..MaxOlder
      BY Bounds
    <2>2. (pass'.at = "none") <=> (pass.at = "none")
      <3>1. passes'[i].at = at /\ (i # 0 => passes'[0] = passes[0])
        BY <1>14, <2>1 DEF GoesOn, TypeOK
      <3>2. at # "none"
        OBVIOUS
      <3>3. QED
        BY <1>14, <3>1, <3>2 DEF pass
    <2>3. QED
      BY <1>12, <1>14, <2>2 DEF GoesOn
  <1>15. ASSUME NEW i \in 0..MaxOlder, Puts(i), passes[i].at # "none", UNCHANGED <<gen, timer>>
         PROVE  RaisedByLatest' /\ SomeoneReleases'
    <2>1. 0 \in Rows
      BY Bounds
    <2>2. GoesOn(i, "finishing", 0) \/ Ends(i)
      BY <1>15 DEF Puts
    <2>3. QED
      BY <1>11, <1>14, <1>15, <2>1, <2>2
  <1>16. CASE Results
    <2>1. 0 \in 0..MaxOlder /\ pass.rows \in Rows
      BY Bounds DEF TypeOK, Pass, pass
    <2>2. CASE ReadFails
      BY <1>11, <2>1, <2>2 DEF ReadFails
    <2>3. CASE PutRows
      BY <1>15, <2>1, <2>3 DEF PutRows, pass
    <2>4. CASE FindOldFormat
      BY <1>14, <2>1, <2>4 DEF FindOldFormat, pass
    <2>5. QED
      BY <1>16, <2>2, <2>3, <2>4 DEF Results
  <1>17. ASSUME ResyncFrom0, UNCHANGED loadingTxs, (pass'.at = "none") <=> (pass.at = "none")
         PROVE  RaisedByLatest' /\ SomeoneReleases'
    <2>1. CASE Arm
      BY <1>17, <2>1, ArmType DEF RaisedByLatest, SomeoneReleases
    <2>2. CASE UNCHANGED <<answers, arm>>
      BY <1>12, <1>17, <2>2
    <2>3. QED
      BY <1>17, <2>1, <2>2 DEF ResyncFrom0
  <1>18. CASE Resync
    BY <1>17, <1>18 DEF Resync, pass
  <1>19. ASSUME NEW i \in 0..MaxOlder, Running(i) PROVE RaisedByLatest' /\ SomeoneReleases'
    <2>1. 0 \in Rows /\ 0 \in 0..MaxOlder
      BY Bounds
    <2>2. CASE ClearTable(i)
      BY <1>14, <1>15, <2>1, <2>2 DEF ClearTable
    <2>3. CASE TriggerResync(i)
      <3>1. (pass'.at = "none") <=> (pass.at = "none")
        BY <2>1, <2>3 DEF TriggerResync, TypeOK, pass
      <3>2. QED
        BY <1>12, <1>17, <2>3, <3>1 DEF TriggerResync
    <2>4. CASE PassEnds(i)
      BY <1>11, <2>4 DEF PassEnds
    <2>5. QED
      BY <1>19, <2>2, <2>3, <2>4 DEF Running
  <1>13. CASE Logout
    <2>1. NoPass \in Pass
      BY Bounds DEF NoPass, Pass
    <2>2. pass' = NoPass
      BY <1>13, <2>1, SupersedeType DEF Logout
    <2>3. QED
      BY <1>13, <2>2 DEF Logout, Clear, NoPass, RaisedByLatest, SomeoneReleases
  <1> QED
    BY <1>2, <1>3, <1>4, <1>5, <1>6, <1>7, <1>9, <1>10, <1>13, <1>16, <1>18, <1>19 DEF Next, Frames, Apply, Tasks

LEMMA InvInit == Init => IInv
  <1>1. Init => TypeOK
    <2>1. <<>> \in Seq(Job) /\ <<>> \in Seq(Task) /\ NoPass \in Pass
      BY Bounds DEF NoPass, Pass
    <2>2. Init => /\ passes \in [0..MaxOlder -> Pass] /\ committed \in Rows /\ stored \in 0..committed
                  /\ shown \in Rows /\ due \in Rows /\ lost \in Rows
      BY <2>1, Bounds DEF Init
    <2>3. Init => /\ gen \in 0..MaxArms /\ timer \in 0..MaxArms /\ applying \in Seq(Job) /\ tasks \in Seq(Task)
                  /\ open \in BOOLEAN /\ answers \subseteq Arms /\ flag \in BOOLEAN /\ settle \in BOOLEAN
                  /\ old \in BOOLEAN /\ subscribed \in BOOLEAN /\ loadingTxs \in BOOLEAN
      BY <2>1, Bounds DEF Init
    <2>4. QED
      BY <2>2, <2>3 DEF TypeOK
  <1>2. Init => Tokens /\ RaisedByLatest /\ SomeoneReleases
    BY Bounds DEF Init, Tokens, RaisedByLatest, SomeoneReleases, NoPass, pass
  <1>3. QED
    BY <1>1, <1>2 DEF IInv

LEMMA Invariant == Spec => []IInv
  <1>1. IInv /\ [Next]_vars => IInv'
    BY TypeStep, TokensStep, ReleasesStep DEF IInv
  <1>2. QED
    BY <1>1, InvInit, PTL DEF Spec

(* The state is well typed: an answer's token is an arm that was made.      *)
THEOREM TypeCorrect == Spec => []TypeOK
  <1>1. IInv => TypeOK
    BY DEF IInv
  <1>2. QED
    BY <1>1, Invariant, PTL

(* A raised flag has its backstop running or the latest pass to wait for.   *)
THEOREM Releases == Spec => []SomeoneReleases
  <1>1. IInv => SomeoneReleases
    BY DEF IInv
  <1>2. QED
    BY <1>1, Invariant, PTL

(* The tokens about at a new arm are of arms before it. *)
LEMMA OutlivesStep ==
  ASSUME TypeOK, Tokens, [Next]_vars, gen' # gen
  PROVE  \A release \in ToSet(tasks') \cup ToSet(applying') : release.token \in Nat /\ release.token <= gen
  <1> USE DEF arm, loader, rows, table
  <1>1. gen \in Nat
    BY BoundsAssumption DEF TypeOK
  <1>2. ASSUME NEW i \in 1..Len(applying) PROVE applying[i].token \in Nat /\ applying[i].token <= gen
    <2>1. applying[i] \in Job
      BY DEF TypeOK
    <2>2. QED
      BY <2>1, BoundsAssumption DEF Job, Arms, Tokens
  <1>3. ASSUME NEW i \in 1..Len(tasks) PROVE tasks[i].token \in Nat /\ tasks[i].token <= gen
    <2>1. tasks[i] \in Task
      BY DEF TypeOK
    <2>2. QED
      BY <2>1, BoundsAssumption DEF Task, Tokens
  <1>4. OnOpen \/ Resubscribe \/ Expand \/ (ResyncFrom0 /\ UNCHANGED applying)
    BY DEF vars, Next, Frames, Apply, Tasks, Results, Running, OnOpen, Resubscribe, OnClose, Clear, Answered, Expand,
       Commit, Applied, RealtimeRows, Resync, RunRelease, RunRead, Backstop, GiveUp, Load, ReadFails, PutRows,
       FindOldFormat, ClearTable, TriggerResync, PassEnds, Logout
  <1>5. CASE OnOpen \/ Resubscribe
    <2>1. UNCHANGED <<tasks, applying>>
      BY <1>5 DEF OnOpen, Resubscribe
    <2>2. DOMAIN tasks = 1..Len(tasks) /\ DOMAIN applying = 1..Len(applying)
      BY DEF TypeOK
    <2>3. QED
      BY <1>2, <1>3, <2>1, <2>2 DEF ToSet
  <1>6. CASE Expand
    <2> DEFINE t == [kind |-> "release", token |-> Token(Head(applying)), rows |-> 0]
    <2>1. t \in Task /\ t.token = applying[1].token /\ 1 \in 1..Len(applying)
      BY <1>6, Bounds, TailJob DEF Expand, Token, Task, Job
    <2>2. tasks' = Append(tasks, t) /\ applying' = Tail(applying) /\ applying # <<>>
      BY <1>6 DEF Expand
    <2>3. t.token \in Nat /\ t.token <= gen
      BY <2>1, <1>2
    <2> HIDE DEF t
    <2>4. ASSUME NEW i \in DOMAIN tasks' PROVE tasks'[i].token \in Nat /\ tasks'[i].token <= gen
      <3>1. i \in 1..(Len(tasks) + 1)
        BY <2>1, <2>2, <2>4, AppendTask
      <3>2. QED
        BY <1>3, <2>1, <2>2, <2>3, <3>1, AppendTask
    <2>5. ASSUME NEW i \in DOMAIN applying' PROVE applying'[i].token \in Nat /\ applying'[i].token <= gen
      <3>1. i \in 1..Len(Tail(applying))
        BY <2>2, <2>5, TailJob
      <3>2. QED
        BY <1>2, <2>2, <3>1, TailJob
    <2>6. QED
      BY <2>4, <2>5 DEF ToSet
  <1>7. CASE ResyncFrom0 /\ UNCHANGED applying
    <2>1. tasks' = Append(tasks, Read) /\ Read \in Task /\ Read.token \in Nat /\ Read.token <= gen
      BY <1>1, <1>7, Bounds DEF ResyncFrom0, Emptied, Read, Task
    <2>2. ASSUME NEW i \in DOMAIN tasks' PROVE tasks'[i].token \in Nat /\ tasks'[i].token <= gen
      <3>1. i \in 1..(Len(tasks) + 1)
        BY <2>1, <2>2, AppendTask
      <3>2. QED
        BY <1>3, <2>1, <3>1, AppendTask
    <2>3. DOMAIN applying = 1..Len(applying)
      BY DEF TypeOK
    <2>4. QED
      BY <1>2, <1>7, <2>2, <2>3 DEF ToSet
  <1>8. QED
    BY <1>4, <1>5, <1>6, <1>7

(* An arm is not dropped for an answer handled before it: the token of an    *)
(* answer that is applied or about to release is an earlier arm's.           *)
THEOREM ArmsOutlive == Spec => ArmOutlives
  <1>1. TypeOK /\ Tokens /\ [Next]_vars
          => [\A t \in Arms : gen' = t /\ gen < t
                => \A release \in ToSet(tasks') \cup ToSet(applying') : release.token < t]_vars
    <2> SUFFICES ASSUME TypeOK, Tokens, [Next]_vars, NEW t \in Arms, gen' = t, gen < t
                 PROVE  \A release \in ToSet(tasks') \cup ToSet(applying') : release.token < t
      OBVIOUS
    <2>1. gen \in Nat /\ t \in Nat /\ gen' # gen
      BY BoundsAssumption DEF TypeOK, Arms
    <2>2. QED
      BY <2>1, OutlivesStep
  <1>2. IInv => TypeOK /\ Tokens
    BY DEF IInv
  <1>3. QED
    BY <1>1, <1>2, Invariant, PTL DEF Spec, ArmOutlives

-----------------------------------------------------------------------------
(* The rows.  Coming is what the store has, or will have when the pass that   *)
(* has yet to put its rows has done so, or what is lost.  A commit it misses   *)
(* has its read queued, and ahead of the release of the answer that made the   *)
(* commit: the queue is first in, first out, so no release runs between the     *)
(* commit and its read.                                                        *)
Coming == Later(IF pass.at \in {"reading", "clearing"} THEN pass.rows ELSE shown, lost)
Top == Later(stored, lost)
ReadBefore(s, n) == \E j \in 1..(n - 1) : s[j].kind = "read"
QueueCovers(s, k, c) ==
    /\ k <= c \/ ReadBefore(s, Len(s) + 1)
    /\ \A i \in 1..Len(s) : s[i].kind = "release" => s[i].rows <= c \/ ReadBefore(s, i)
Covers == subscribed => QueueCovers(tasks, Top, Coming) /\ due <= Coming
Committed ==
    /\ shown <= committed /\ lost <= committed /\ due <= Top
    /\ \A i \in 0..MaxOlder : passes[i].rows <= committed
    /\ \A i \in 1..Len(applying) : applying[i].rows <= Top
    /\ \A i \in 1..Len(tasks) : tasks[i].rows <= Top
Subscribed == (open => subscribed) /\ (flag => subscribed)
RowsInv == IInv /\ Committed /\ Subscribed /\ Covers

LEMMA Numbers ==
  ASSUME TypeOK
  PROVE  /\ committed \in Nat /\ stored \in Nat /\ stored <= committed /\ shown \in Nat /\ due \in Nat /\ lost \in Nat
         /\ pass.rows \in Nat /\ Coming \in Nat /\ Top \in Nat /\ stored <= Top /\ lost <= Top /\ lost <= Coming
         /\ \A i \in 0..MaxOlder : passes[i].rows \in Nat
         /\ \A i \in 1..Len(tasks) : tasks[i].rows \in Nat /\ tasks[i].kind \in {"read", "release"}
         /\ \A i \in 1..Len(applying) : applying[i].rows \in Nat
  <1>1. Rows \subseteq Nat /\ 0 \in 0..MaxOlder
    BY Bounds
  <1>2. \A i \in 1..Len(tasks) : tasks[i] \in Task
    BY DEF TypeOK
  <1>3. \A i \in 1..Len(applying) : applying[i] \in Job
    BY DEF TypeOK
  <1>4. /\ committed \in Nat /\ stored \in Nat /\ stored <= committed /\ shown \in Nat /\ due \in Nat /\ lost \in Nat
        /\ \A i \in 0..MaxOlder : passes[i].rows \in Nat
    <2>1. committed \in Rows /\ stored \in 0..committed /\ shown \in Rows /\ due \in Rows /\ lost \in Rows
          /\ \A i \in 0..MaxOlder : passes[i] \in Pass
      BY DEF TypeOK
    <2>2. \A i \in 0..MaxOlder : passes[i].rows \in Rows
      BY <2>1 DEF Pass
    <2>3. committed \in Nat /\ shown \in Nat /\ due \in Nat /\ lost \in Nat
      BY <1>1, <2>1
    <2>4. stored \in Nat /\ stored <= committed
      BY <2>1, <2>3
    <2>5. QED
      BY <1>1, <2>2, <2>3, <2>4
  <1>5. pass.rows \in Nat
    BY <1>1, <1>4 DEF pass
  <1>6. Coming \in Nat /\ Top \in Nat /\ stored <= Top /\ lost <= Top /\ lost <= Coming
    BY <1>4, <1>5 DEF Coming, Top, Later
  <1>7. /\ \A i \in 1..Len(tasks) : tasks[i].rows \in Nat /\ tasks[i].kind \in {"read", "release"}
        /\ \A i \in 1..Len(applying) : applying[i].rows \in Nat
    <2>1. (\A t \in Task : t.rows \in Rows /\ t.kind \in {"read", "release"}) /\ \A j \in Job : j.rows \in Rows
      BY DEF Task, Job
    <2>2. QED
      BY <1>1, <1>2, <1>3, <2>1
  <1>8. QED
    BY <1>4, <1>5, <1>6, <1>7

(* What queueing and running do to the cover. *)
LEMMA QueueRead ==
  ASSUME TypeOK, NEW k \in Nat, NEW c \in Nat, NEW l, QueueCovers(tasks, k, c)
  PROVE  QueueCovers(Append(tasks, Read), l, c)
  <1> DEFINE q == Append(tasks, Read)
  <1>0. Read \in Task /\ Read.kind = "read" /\ Len(tasks) \in Nat
    BY Bounds DEF Read, Task, TypeOK
  <1>1. /\ Len(q) = Len(tasks) + 1 /\ q[Len(tasks) + 1] = Read
        /\ \A i \in 1..Len(tasks) : q[i] = tasks[i]
        /\ \A i \in 1..(Len(tasks) + 1) : i \in 1..Len(tasks) \/ i = Len(tasks) + 1
    BY <1>0, AppendTask
  <1> HIDE DEF q
  <1>2. ReadBefore(q, Len(q) + 1)
    BY <1>0, <1>1 DEF ReadBefore
  <1>3. ASSUME NEW i \in 1..Len(q), q[i].kind = "release" PROVE q[i].rows <= c \/ ReadBefore(q, i)
    <2>1. i \in 1..Len(tasks) /\ q[i] = tasks[i]
      BY <1>0, <1>1, <1>3
    <2>2. ReadBefore(tasks, i) => ReadBefore(q, i)
      BY <1>0, <1>1, <2>1 DEF ReadBefore
    <2>3. QED
      BY <1>3, <2>1, <2>2 DEF QueueCovers
  <1>4. QED
    BY <1>2, <1>3 DEF QueueCovers, q

LEMMA QueueRelease ==
  ASSUME TypeOK, NEW k \in Nat, NEW c \in Nat, QueueCovers(tasks, k, c), NEW t \in Task, t.rows <= k
  PROVE  QueueCovers(Append(tasks, t), k, c)
  <1> DEFINE q == Append(tasks, t)
  <1>0. t.rows \in Nat /\ Len(tasks) \in Nat
    <2>1. t.rows \in Rows
      BY DEF Task
    <2>2. t.rows \in Nat
      BY <2>1, Bounds
    <2>3. tasks \in Seq(Task)
      BY DEF TypeOK
    <2>4. QED
      BY <2>2, <2>3
  <1>1. /\ Len(q) = Len(tasks) + 1 /\ q[Len(tasks) + 1] = t
        /\ \A i \in 1..Len(tasks) : q[i] = tasks[i]
        /\ \A i \in 1..(Len(tasks) + 1) : i \in 1..Len(tasks) \/ i = Len(tasks) + 1
    BY AppendTask
  <1> HIDE DEF q
  <1>2. \A i \in 1..(Len(tasks) + 1) : ReadBefore(tasks, i) => ReadBefore(q, i)
    BY <1>0, <1>1 DEF ReadBefore
  <1>3. ReadBefore(tasks, Len(tasks) + 1) => ReadBefore(q, Len(q) + 1) /\ ReadBefore(q, Len(tasks) + 1)
    BY <1>0, <1>1 DEF ReadBefore
  <1>4. ASSUME NEW i \in 1..Len(q), q[i].kind = "release" PROVE q[i].rows <= c \/ ReadBefore(q, i)
    <2>1. CASE i \in 1..Len(tasks)
      BY <1>1, <1>2, <1>4, <2>1 DEF QueueCovers
    <2>2. CASE i = Len(tasks) + 1
      BY <1>0, <1>1, <1>3, <2>2 DEF QueueCovers
    <2>3. QED
      BY <1>1, <2>1, <2>2
  <1>5. QED
    BY <1>3, <1>4 DEF QueueCovers, q

LEMMA RunQueued ==
  ASSUME TypeOK, NEW k \in Nat, NEW c \in Nat, QueueCovers(tasks, k, c),
         tasks # <<>>, Head(tasks).kind = "release"
  PROVE  QueueCovers(Tail(tasks), k, c) /\ Head(tasks).rows <= c
  <1> DEFINE q == Tail(tasks)
  <1>1. /\ Head(tasks) = tasks[1] /\ 1 \in 1..Len(tasks) /\ Len(q) = Len(tasks) - 1 /\ Len(tasks) \in Nat
        /\ \A i \in 1..Len(q) : i + 1 \in 1..Len(tasks) /\ q[i] = tasks[i + 1]
    BY TailTask DEF TypeOK
  <1> HIDE DEF q
  <1>2. ASSUME NEW n \in 1..(Len(q) + 1), ReadBefore(tasks, n + 1) PROVE ReadBefore(q, n)
    <2>1. PICK j \in 1..n : tasks[j].kind = "read"
      BY <1>2 DEF ReadBefore
    <2>2. j # 1
      BY <1>1, <2>1
    <2>3. j - 1 \in 1..(n - 1) /\ j - 1 \in 1..Len(q) /\ q[j - 1] = tasks[j]
      BY <1>1, <2>1, <2>2
    <2>4. QED
      BY <2>1, <2>3 DEF ReadBefore
  <1>3. Head(tasks).rows <= c
    BY <1>1 DEF QueueCovers, ReadBefore
  <1>4. k <= c \/ ReadBefore(q, Len(q) + 1)
    BY <1>1, <1>2 DEF QueueCovers
  <1>5. ASSUME NEW i \in 1..Len(q), q[i].kind = "release" PROVE q[i].rows <= c \/ ReadBefore(q, i)
    BY <1>1, <1>2, <1>5 DEF QueueCovers
  <1>6. QED
    BY <1>3, <1>4, <1>5 DEF QueueCovers, q

(* More is coming: what was covered is. *)
LEMMA MoreComing ==
  ASSUME TypeOK, NEW k \in Nat, NEW l \in Nat, NEW c \in Nat, NEW d \in Nat, QueueCovers(tasks, k, c),
         c <= d, k <= c => l <= d
  PROVE  QueueCovers(tasks, l, d)
  BY Numbers DEF QueueCovers

(* A read that starts sees every commit. *)
LEMMA ReadSeesAll ==
  ASSUME TypeOK, Committed, NEW q, q = tasks \/ (tasks # <<>> /\ q = Tail(tasks))
  PROVE  QueueCovers(q, Top, Top)
  <1>1. \A i \in 1..Len(q) : q[i].rows <= Top
    BY TailTask DEF Committed
  <1>2. QED
    BY <1>1, Numbers DEF QueueCovers

LEMMA LaterIs ==
  ASSUME NEW a \in Nat, NEW b \in Nat
  PROVE  /\ Later(a, b) \in Nat /\ a <= Later(a, b) /\ b <= Later(a, b)
         /\ \A c \in Nat : a <= c /\ b <= c => Later(a, b) <= c
  BY DEF Later

(* What a pass does with its rows, and what clearing the table does: nothing that was on its way  *)
(* is forgotten.                                                                                 *)
LEMMA PutsRows ==
  ASSUME TypeOK, Committed, NEW i \in 0..MaxOlder, Puts(i), passes[i].at \in {"reading", "clearing"},
         UNCHANGED table
  PROVE  /\ shown' \in Nat /\ lost' \in Nat /\ lost <= lost' /\ shown' <= committed /\ lost' <= committed
         /\ Coming' \in Nat /\ Coming <= Coming' /\ Top' \in Nat /\ Top <= Top'
         /\ Top <= Coming => Top' <= Coming'
         /\ \A j \in 0..MaxOlder : passes'[j] = passes[j] \/ passes'[j].rows = 0
  <1> DEFINE rs == passes[i].rows
  <1>0. /\ rs \in Nat /\ shown \in Nat /\ lost \in Nat /\ stored \in Nat /\ committed \in Nat /\ 0 \in Rows
        /\ 0 \in 0..MaxOlder /\ rs <= committed /\ shown <= committed /\ lost <= committed /\ stored' = stored
    BY Numbers, Bounds DEF Committed, table
  <1>1. /\ shown' \in {0, rs} /\ lost' \in Nat /\ lost <= lost' /\ lost' <= committed /\ shown <= lost'
        /\ rs <= Later(shown', lost')
        /\ passes'[i].rows = 0 /\ passes'[i].at \in {"none", "finishing"}
        /\ \A j \in 0..MaxOlder : j # i => passes'[j] = passes[j]
    <2>1. CASE GoesOn(i, "finishing", 0) /\ shown' = rs /\ lost' = Later(lost, shown)
      <3>1. passes'[i] = [at |-> "finishing", rows |-> 0, old |-> FALSE]
            /\ \A j \in 0..MaxOlder : j # i => passes'[j] = passes[j]
        BY <1>0, <2>1, GoesOnType
      <3>2. QED
        BY <1>0, <2>1, <3>1 DEF Later
    <2>2. CASE Ends(i) /\ shown' = 0 /\ lost' = Later(lost, Later(shown, rs))
      <3>1. passes'[i] = NoPass /\ \A j \in 0..MaxOlder : j # i => passes'[j] = passes[j]
        BY <2>2, EndsType
      <3>2. QED
        BY <1>0, <2>2, <3>1 DEF Later, NoPass
    <2>3. QED
      BY <2>1, <2>2 DEF Puts
  <1>2. shown' \in Nat /\ shown' <= committed
    BY <1>0, <1>1
  <1> DEFINE C == IF pass.at \in {"reading", "clearing"} THEN pass.rows ELSE shown
             D == IF pass'.at \in {"reading", "clearing"} THEN pass'.rows ELSE shown'
  <1>3. C \in Nat /\ D \in Nat /\ C <= Later(D, lost')
    <2>1. CASE i = 0
      <3>1. C = rs /\ D = shown'
        BY <1>1, <2>1 DEF pass
      <3>2. QED
        BY <1>0, <1>1, <1>2, <3>1
    <2>2. CASE i # 0
      <3>1. pass' = pass /\ pass.rows \in Nat
        BY <1>0, <1>1, <2>2, Numbers DEF pass
      <3>2. QED
        BY <1>0, <1>1, <1>2, <3>1 DEF Later
    <2>3. QED
      BY <2>1, <2>2
  <1>4. Coming = Later(C, lost) /\ Coming' = Later(D, lost') /\ Top = Later(stored, lost) /\ Top' = Later(stored', lost')
    BY DEF Coming, Top
  <1> HIDE DEF C, D
  <1>5. Coming' \in Nat /\ Coming <= Coming' /\ Top' \in Nat /\ Top <= Top' /\ (Top <= Coming => Top' <= Coming')
    BY <1>0, <1>1, <1>3, <1>4 DEF Later
  <1>6. QED
    BY <1>0, <1>1, <1>2, <1>5

LEMMA EmptiedRows ==
  ASSUME TypeOK, Committed, Emptied, shown' = shown,
         \A j \in 0..MaxOlder : passes'[j].rows \in {passes[j].rows, 0}
  PROVE  /\ lost' = committed /\ Top' = committed /\ Top <= Top' /\ Coming' = committed /\ Coming <= Coming'
  <1>1. /\ shown \in Nat /\ lost \in Nat /\ stored \in Nat /\ committed \in Nat /\ 0 \in 0..MaxOlder
        /\ shown <= committed /\ lost <= committed /\ stored <= committed /\ pass.rows \in Nat
        /\ pass.rows <= committed /\ pass'.rows \in {pass.rows, 0}
    BY Numbers, Bounds DEF Committed, pass
  <1>2. stored' = 0 /\ lost' = committed
    BY DEF Emptied
  <1>3. QED
    BY <1>1, <1>2 DEF Coming, Top, Later

(* Rows, once committed, are in the table or lost. *)
LEMMA KeepsRows ==
  ASSUME TypeOK, Committed, UNCHANGED <<committed, applying>>, Top' \in Nat, Top <= Top',
         due' <= Top', shown' <= committed, lost' <= committed,
         \A i \in 0..MaxOlder : passes'[i].rows <= committed,
         tasks' = tasks \/ tasks' = Append(tasks, Read) \/ (tasks # <<>> /\ tasks' = Tail(tasks))
  PROVE  Committed'
  <1>1. Read \in Task /\ Read.rows = 0
    BY Bounds DEF Read, Task
  <1>2. \A i \in 1..Len(tasks') : tasks'[i] = Read \/ \E j \in 1..Len(tasks) : tasks'[i] = tasks[j]
    BY <1>1, AppendTask, TailTask
  <1>3. \A j \in 1..Len(tasks) : tasks[j].rows <= Top'
    BY Numbers DEF Committed
  <1>4. \A i \in 1..Len(tasks') : tasks'[i].rows <= Top'
    BY <1>1, <1>2, <1>3
  <1>5. \A i \in 1..Len(applying) : applying[i].rows <= Top'
    BY Numbers DEF Committed
  <1>6. QED
    BY <1>4, <1>5 DEF Committed

LEMMA ReleaseDue ==
  ASSUME TypeOK, Committed, NEW token, NEW rs \in Nat, rs <= Top, Release(token, rs)
  PROVE  due' \in Nat /\ due' <= Top
  BY Numbers DEF Release, Committed, Later

LEMMA EndsDue ==
  ASSUME TypeOK, NEW i, Ends(i)
  PROVE  due' \in {due, 0} /\ (settle' => settle /\ due' = due) /\ (flag' => flag)
  <1>1. settle \in BOOLEAN /\ flag \in BOOLEAN
    BY DEF TypeOK
  <1>2. QED
    BY <1>1 DEF Ends, SetLoadingTxs, Superseded

LEMMA PutsDue ==
  ASSUME TypeOK, NEW i, Puts(i)
  PROVE  due' \in {due, 0} /\ (settle' => settle /\ due' = due) /\ (flag' => flag)
  BY EndsDue DEF Puts, GoesOn

LEMMA SupersedeRows ==
  ASSUME TypeOK, Committed, NEW next \in Pass, next.rows <= committed, Supersede(next)
  PROVE  \A i \in 0..MaxOlder : passes'[i].rows <= committed
  <1>1. \A i \in 0..MaxOlder : i = 0 \/ i \in 1..MaxOlder
    BY BoundsAssumption
  <1>2. pass.rows <= committed
    BY Bounds DEF pass, Committed
  <1>3. pass' = next /\ \A i \in 1..MaxOlder : passes'[i] \in {passes[i], pass}
    BY SupersedeType
  <1>4. QED
    BY <1>1, <1>2, <1>3 DEF Committed, pass

LEMMA ResyncArm ==
  ASSUME TypeOK, ResyncFrom0
  PROVE  Emptied /\ due' \in {due, 0} /\ (settle' => settle /\ due' = due)
  BY DEF ResyncFrom0, Arm, arm

(* Nothing that was on its way is forgotten, but by a logout: the read that starts aside, which   *)
(* sees every commit.                                                                            *)
LEMMA ReadRows ==
  ASSUME TypeOK, StartRead, UNCHANGED rows
  PROVE  Coming' = Top /\ Top' = Top /\ settle' = settle /\ due' = due
  <1>1. [at |-> "reading", rows |-> stored, old |-> old] \in Pass
    BY Bounds, BoundsAssumption DEF Pass, TypeOK, Rows
  <1>2. pass' = [at |-> "reading", rows |-> stored, old |-> old]
    BY <1>1, SupersedeType DEF StartRead
  <1>3. settle' = settle /\ due' = due
    BY DEF StartRead, SetLoadingTxs, TypeOK
  <1>4. QED
    BY <1>2, <1>3 DEF Coming, Top, rows, table

Others ==
    \/ UNCHANGED vars \/ Frames \/ Apply \/ RealtimeRows \/ Resync \/ RunRelease
    \/ (RunRead /\ ~subscribed) \/ Backstop \/ GiveUp \/ Results
    \/ \E i \in 0..MaxOlder : Running(i)

LEMMA ComingGrows ==
  ASSUME TypeOK, Committed, Others
  PROVE  /\ Coming' \in Nat /\ Top' \in Nat /\ Coming <= Coming' /\ Top <= Top'
         /\ shown' <= committed' /\ lost' <= committed' /\ committed <= committed'
         /\ \A i \in 0..MaxOlder : passes'[i].rows <= committed
         /\ (Top <= Coming => Top' <= Coming') \/ tasks' = Append(tasks, Read)
  <1> USE DEF arm, loader, rows, table
  <1>0. /\ committed \in Nat /\ stored \in Nat /\ stored <= committed /\ shown \in Nat /\ lost \in Nat
        /\ Coming \in Nat /\ Top \in Nat /\ stored <= Top /\ lost <= Top /\ lost <= Coming
        /\ shown <= committed /\ lost <= committed /\ 0 \in 0..MaxOlder
        /\ \A i \in 0..MaxOlder : passes[i].rows \in Nat /\ passes[i].rows <= committed
    BY Numbers, Bounds DEF Committed
  <1>1. pass = passes[0] /\ pass' = passes'[0] /\ NoPass.rows = 0 /\ NoPass.at = "none"
    BY DEF pass, NoPass
  (* Steps that leave the table, the store and the passes alone. *)
  <1>2. CASE UNCHANGED <<rows, passes>>
    <2>1. Coming' = Coming /\ Top' = Top
      BY <1>2 DEF Coming, Top, pass
    <2>2. QED
      BY <1>0, <1>2, <2>1
  <1>3. ASSUME UNCHANGED rows, NEW i \in 0..MaxOlder, passes'[i].rows \in {passes[i].rows, 0},
               passes'[i].at \in {"reading", "clearing"} <=> passes[i].at \in {"reading", "clearing"},
               passes'[i].at \in {"reading", "clearing"} => passes'[i].rows = passes[i].rows,
               \A j \in 0..MaxOlder : j # i => passes'[j] = passes[j]
        PROVE  /\ Coming' = Coming /\ Top' = Top
               /\ \A j \in 0..MaxOlder : passes'[j].rows <= committed
    <2>1. Coming' = Coming /\ Top' = Top
      BY <1>0, <1>1, <1>3 DEF Coming, Top
    <2>2. \A j \in 0..MaxOlder : passes'[j].rows <= committed
      BY <1>0, <1>3
    <2>3. QED
      BY <2>1, <2>2
  <1>4. CASE FindOldFormat
    <2>1. /\ pass.at = "reading" /\ UNCHANGED rows
          /\ passes'[0] = [at |-> "clearing", rows |-> pass.rows, old |-> FALSE]
          /\ \A j \in 0..MaxOlder : j # 0 => passes'[j] = passes[j]
      <3>1. GoesOn(0, "clearing", pass.rows) /\ pass.rows \in Rows
        BY <1>1, <1>4, Bounds DEF FindOldFormat, TypeOK, Pass
      <3>2. QED
        BY <1>0, <1>4, <3>1, GoesOnType DEF FindOldFormat
    <2>2. QED
      BY <1>0, <1>1, <1>3, <2>1
  <1>5. ASSUME NEW i \in 0..MaxOlder, PassEnds(i)
        PROVE  /\ Coming' = Coming /\ Top' = Top /\ UNCHANGED rows
               /\ \A j \in 0..MaxOlder : passes'[j].rows <= committed
    <2>1. passes'[i] = NoPass /\ \A j \in 0..MaxOlder : j # i => passes'[j] = passes[j]
      BY <1>5, EndsType DEF PassEnds
    <2>2. passes[i].at \in {"finishing", "resynced"} /\ UNCHANGED rows
      BY <1>5 DEF PassEnds
    <2>3. QED
      BY <1>1, <1>3, <2>1, <2>2
  <1>6. CASE ReadFails
    <2>1. /\ pass.at = "reading" /\ passes'[0] = NoPass /\ lost' = Later(lost, pass.rows)
          /\ UNCHANGED <<table, shown>> /\ \A j \in 0..MaxOlder : j # 0 => passes'[j] = passes[j]
      BY <1>0, <1>6, EndsType DEF ReadFails
    <2>2. Coming = Later(pass.rows, lost) /\ Top = Later(stored, lost)
          /\ Coming' = Later(shown, lost') /\ Top' = Later(stored, lost')
      BY <1>1, <2>1 DEF Coming, Top
    <2>3. pass.rows \in Nat /\ pass.rows <= committed
      BY <1>0, <1>1
    <2>4. \A j \in 0..MaxOlder : passes'[j].rows <= committed
      BY <1>0, <1>1, <2>1
    <2>5. QED
      BY <1>0, <2>1, <2>2, <2>3, <2>4 DEF Later
  <1>7. ASSUME NEW i \in 0..MaxOlder, Puts(i), passes[i].at \in {"reading", "clearing"}, UNCHANGED table
        PROVE  /\ Coming' \in Nat /\ Top' \in Nat /\ Coming <= Coming' /\ Top <= Top'
               /\ shown' <= committed' /\ lost' <= committed' /\ committed <= committed'
               /\ \A j \in 0..MaxOlder : passes'[j].rows <= committed
               /\ Top <= Coming => Top' <= Coming'
    <2>1. /\ shown' \in Nat /\ lost' \in Nat /\ shown' <= committed /\ lost' <= committed
          /\ Coming' \in Nat /\ Coming <= Coming' /\ Top' \in Nat /\ Top <= Top'
          /\ Top <= Coming => Top' <= Coming'
          /\ \A j \in 0..MaxOlder : passes'[j] = passes[j] \/ passes'[j].rows = 0
      BY <1>7, PutsRows
    <2>2. committed' = committed
      BY <1>7
    <2>3. QED
      BY <1>0, <2>1, <2>2
  <1>8. CASE PutRows
    <2>1. Puts(0) /\ UNCHANGED table /\ passes[0].at \in {"reading", "clearing"}
      BY <1>1, <1>8 DEF PutRows
    <2>2. QED
      BY <1>0, <1>7, <2>1
  (* The table is cleared. *)
  <1>9. ASSUME Emptied, shown' = shown,
               \A j \in 0..MaxOlder : passes'[j].rows \in {passes[j].rows, 0}
        PROVE  /\ Coming' \in Nat /\ Top' \in Nat /\ Coming <= Coming' /\ Top <= Top'
               /\ shown' <= committed' /\ lost' <= committed' /\ committed <= committed'
               /\ \A j \in 0..MaxOlder : passes'[j].rows <= committed
               /\ tasks' = Append(tasks, Read)
    <2>1. lost' = committed /\ Top' = committed /\ Top <= Top' /\ Coming' = committed /\ Coming <= Coming'
      BY <1>9, EmptiedRows
    <2>2. committed' = committed /\ tasks' = Append(tasks, Read)
      BY <1>9 DEF Emptied
    <2>3. \A j \in 0..MaxOlder : passes'[j].rows <= committed
      BY <1>0, <1>9
    <2>4. QED
      BY <1>0, <1>9, <2>1, <2>2, <2>3
  <1>10. CASE Resync
    <2>1. Emptied /\ shown' = shown /\ passes' = passes
      BY <1>10 DEF Resync, ResyncFrom0
    <2>2. QED
      BY <1>9, <2>1
  <1>11. ASSUME NEW i \in 0..MaxOlder, ClearTable(i)
         PROVE  /\ Coming' \in Nat /\ Top' \in Nat /\ Coming <= Coming' /\ Top <= Top'
                /\ shown' <= committed' /\ lost' <= committed' /\ committed <= committed'
                /\ \A j \in 0..MaxOlder : passes'[j].rows <= committed
                /\ (Top <= Coming => Top' <= Coming') \/ tasks' = Append(tasks, Read)
    <2>1. CASE Emptied /\ GoesOn(i, "resyncing", 0) /\ UNCHANGED shown
      <3>1. passes'[i] = [at |-> "resyncing", rows |-> 0, old |-> FALSE]
            /\ \A j \in 0..MaxOlder : j # i => passes'[j] = passes[j]
        BY <2>1, Bounds, GoesOnType
      <3>2. \A j \in 0..MaxOlder : passes'[j].rows \in {passes[j].rows, 0}
        BY <3>1
      <3>3. QED
        BY <1>9, <2>1, <3>2
    <2>2. CASE Puts(i) /\ UNCHANGED <<tasks, table>>
      <3>1. passes[i].at \in {"reading", "clearing"}
        BY <1>11 DEF ClearTable
      <3>2. QED
        BY <1>7, <2>2, <3>1
    <2>3. QED
      BY <1>11, <2>1, <2>2 DEF ClearTable
  <1>12. ASSUME NEW i \in 0..MaxOlder, TriggerResync(i)
         PROVE  /\ Coming' \in Nat /\ Top' \in Nat /\ Coming <= Coming' /\ Top <= Top'
                /\ shown' <= committed' /\ lost' <= committed' /\ committed <= committed'
                /\ \A j \in 0..MaxOlder : passes'[j].rows <= committed
                /\ (Top <= Coming => Top' <= Coming') \/ tasks' = Append(tasks, Read)
    <2>1. /\ passes[i].at = "resyncing" /\ passes'[i].at = "resynced" /\ passes'[i].rows = passes[i].rows
          /\ \A j \in 0..MaxOlder : j # i => passes'[j] = passes[j]
          /\ shown' = shown
      BY <1>12 DEF TriggerResync, TypeOK, Pass
    <2>2. CASE Emptied
      BY <1>9, <2>1, <2>2
    <2>3. CASE UNCHANGED <<tasks, table, lost>>
      BY <1>0, <1>3, <2>1, <2>3
    <2>4. QED
      BY <1>12, <2>2, <2>3 DEF TriggerResync, ResyncFrom0
  (* New rows. *)
  <1>13. ASSUME NewRows, UNCHANGED <<shown, lost, passes>>
         PROVE  /\ Coming' \in Nat /\ Top' \in Nat /\ Coming <= Coming' /\ Top <= Top'
                /\ shown' <= committed' /\ lost' <= committed' /\ committed <= committed'
                /\ \A j \in 0..MaxOlder : passes'[j].rows <= committed
                /\ tasks' = Append(tasks, Read)
    <2>1. committed' = committed + 1 /\ stored' = committed + 1 /\ tasks' = Append(tasks, Read)
      BY <1>13 DEF NewRows
    <2>2. Coming' = Coming /\ Top' = Later(committed + 1, lost) /\ Top = Later(stored, lost)
      BY <1>13, <2>1 DEF Coming, Top, pass
    <2>3. QED
      BY <1>0, <1>13, <2>1, <2>2 DEF Later
  <1>14. CASE RealtimeRows
    BY <1>13, <1>14 DEF RealtimeRows
  <1>15. CASE Commit
    <2>1. CASE NewRows
      BY <1>13, <1>15, <2>1 DEF Commit
    <2>2. CASE UNCHANGED <<table, tasks>>
      BY <1>2, <1>15, <2>2 DEF Commit
    <2>3. QED
      BY <1>15, <2>1, <2>2 DEF Commit
  <1>16. CASE UNCHANGED vars \/ Frames \/ Expand \/ Applied \/ RunRelease \/ Backstop \/ GiveUp
    BY <1>2, <1>16 DEF vars, Frames, OnOpen, Resubscribe, OnClose, Answered, Expand, Applied, RunRelease,
       Backstop, GiveUp
  <1>17. CASE RunRead /\ ~subscribed
    BY <1>2, <1>17 DEF RunRead
  <1>19. ASSUME NEW i \in 0..MaxOlder, Running(i)
         PROVE  /\ Coming' \in Nat /\ Top' \in Nat /\ Coming <= Coming' /\ Top <= Top'
                /\ shown' <= committed' /\ lost' <= committed' /\ committed <= committed'
                /\ \A j \in 0..MaxOlder : passes'[j].rows <= committed
                /\ (Top <= Coming => Top' <= Coming') \/ tasks' = Append(tasks, Read)
    <2>1. CASE PassEnds(i)
      BY <1>0, <1>5, <2>1
    <2>2. QED
      BY <1>11, <1>12, <1>19, <2>1 DEF Running
  <1> QED
    BY <1>4, <1>6, <1>8, <1>10, <1>14, <1>15, <1>16, <1>17, <1>19 DEF Others, Apply, Results

LEMMA CommittedStep == ASSUME TypeOK, Tokens, Committed, [Next]_vars PROVE Committed'
  <1> USE DEF arm, loader, rows, table
  <1>0. /\ committed \in Nat /\ stored \in Nat /\ stored <= committed /\ Top \in Nat /\ due \in Nat
        /\ due <= Top /\ shown <= committed /\ lost <= committed /\ 0 <= Top /\ 0 <= committed
    BY Numbers DEF Committed
  <1>1. ASSUME Others, UNCHANGED <<committed, applying>>, due' \in Nat, due' <= Top,
               tasks' = tasks \/ tasks' = Append(tasks, Read) \/ (tasks # <<>> /\ tasks' = Tail(tasks))
        PROVE  Committed'
    <2>1. /\ Top' \in Nat /\ Top <= Top' /\ shown' <= committed /\ lost' <= committed
          /\ \A i \in 0..MaxOlder : passes'[i].rows <= committed
      BY <1>1, ComingGrows
    <2>2. due' <= Top'
      BY <1>0, <1>1, <2>1
    <2>3. QED
      BY <1>1, <2>1, <2>2, KeepsRows
  <1>2. ASSUME due' \in {due, 0} PROVE due' \in Nat /\ due' <= Top
    BY <1>0, <1>2
  <1>3. CASE UNCHANGED vars \/ OnOpen \/ Resubscribe \/ OnClose
    BY <1>1, <1>2, <1>3 DEF Others, vars, Frames, OnOpen, Resubscribe, OnClose, Arm, Clear
  <1>4. CASE Resync
    <2>1. ResyncFrom0 /\ applying' = applying
      BY <1>4 DEF Resync
    <2>2. QED
      BY <1>1, <1>2, <1>4, <2>1, ResyncArm DEF Others, Emptied
  <1>5. CASE RunRelease
    <2>1. /\ tasks # <<>> /\ tasks' = Tail(tasks) /\ Release(Head(tasks).token, Head(tasks).rows)
          /\ UNCHANGED <<applying, rows>>
      BY <1>5 DEF RunRelease
    <2>2. Head(tasks).rows \in Nat /\ Head(tasks).rows <= Top
      BY <2>1, TailTask, Numbers DEF Committed
    <2>3. due' \in Nat /\ due' <= Top
      BY <2>1, <2>2, ReleaseDue
    <2>4. QED
      BY <1>1, <1>5, <2>1, <2>3 DEF Others
  <1>6. CASE Backstop \/ GiveUp
    <2>1. PICK token : Release(token, 0)
      BY <1>6 DEF Backstop, GiveUp
    <2>2. due' \in Nat /\ due' <= Top
      BY <1>0, <2>1, ReleaseDue
    <2>3. QED
      BY <1>1, <1>6, <2>2 DEF Others, Backstop, GiveUp
  <1>7. CASE RunRead /\ ~subscribed
    BY <1>1, <1>2, <1>7 DEF Others, RunRead
  <1>8. CASE Results
    <2>1. CASE ReadFails
      BY <1>1, <1>2, <1>8, <2>1, EndsDue DEF Others, ReadFails
    <2>2. CASE PutRows
      BY <1>1, <1>2, <1>8, <2>2, PutsDue DEF Others, PutRows
    <2>3. CASE FindOldFormat
      BY <1>1, <1>2, <1>8, <2>3 DEF Others, FindOldFormat, GoesOn
    <2>4. QED
      BY <1>8, <2>1, <2>2, <2>3 DEF Results
  <1>9. ASSUME NEW i \in 0..MaxOlder, Running(i) PROVE Committed'
    <2>0. Others
      BY <1>9 DEF Others
    <2>1. CASE ClearTable(i)
      <3>1. due' \in {due, 0}
        BY <2>1, PutsDue DEF ClearTable, GoesOn
      <3>2. applying' = applying /\ committed' = committed /\ (tasks' = tasks \/ tasks' = Append(tasks, Read))
        BY <2>1 DEF ClearTable, Emptied
      <3>3. QED
        BY <1>1, <1>2, <2>0, <3>1, <3>2
    <2>2. CASE TriggerResync(i)
      <3>1. due' \in {due, 0}
        BY <2>2, ResyncArm DEF TriggerResync
      <3>2. applying' = applying /\ committed' = committed /\ (tasks' = tasks \/ tasks' = Append(tasks, Read))
        BY <2>2, ResyncArm DEF TriggerResync, Emptied
      <3>3. QED
        BY <1>1, <1>2, <2>0, <3>1, <3>2
    <2>3. CASE PassEnds(i)
      BY <1>1, <1>2, <2>0, <2>3, EndsDue DEF PassEnds
    <2>4. QED
      BY <1>9, <2>1, <2>2, <2>3 DEF Running
  (* A read that starts, and a logout. *)
  <1>10. ASSUME StartRead, UNCHANGED <<rows, applying>>, tasks' = tasks \/ (tasks # <<>> /\ tasks' = Tail(tasks))
         PROVE  Committed'
    <2>1. Top' = Top /\ due' = due
      BY <1>10, ReadRows
    <2>2. [at |-> "reading", rows |-> stored, old |-> old] \in Pass
      BY BoundsAssumption DEF Pass, TypeOK, Rows
    <2>3. \A i \in 0..MaxOlder : passes'[i].rows <= committed
      BY <1>0, <1>10, <2>2, SupersedeRows DEF StartRead
    <2>4. QED
      BY <1>0, <1>10, <2>1, <2>3, KeepsRows
  <1>11. CASE Load \/ (RunRead /\ subscribed)
    BY <1>10, <1>11 DEF Load, RunRead
  <1>12. CASE Logout
    <2>1. NoPass \in Pass /\ NoPass.rows = 0 /\ Supersede(NoPass)
      BY <1>12, Bounds DEF Logout, NoPass, Pass
    <2>2. \A i \in 0..MaxOlder : passes'[i].rows <= committed
      BY <1>0, <2>1, SupersedeRows
    <2>3. Top' = Top /\ due' = 0 /\ shown' = 0 /\ lost' = lost /\ UNCHANGED <<committed, applying, tasks>>
      BY <1>12 DEF Logout, Clear, Top
    <2>4. QED
      BY <1>0, <2>2, <2>3, KeepsRows
  (* The answers. *)
  <1>13. ASSUME UNCHANGED <<rows, passes>>, due' \in {due, 0},
                \A i \in 1..Len(applying') : applying'[i].rows <= Top,
                \A i \in 1..Len(tasks') : tasks'[i].rows <= Top
         PROVE  Committed'
    <2>1. Top' = Top
      BY <1>13 DEF Top
    <2>2. QED
      BY <1>0, <1>2, <1>13, <2>1 DEF Committed
  <1>14. CASE Answered
    <2> DEFINE j == [token |-> gen, at |-> "waiting", rows |-> 0]
    <2>1. j \in Job
      <3>1. gen \in Arms
        <4>1. PICK a \in answers : TRUE
          BY <1>14 DEF Answered
        <4>2. a \in 1..gen /\ gen \in 0..MaxArms
          BY <4>1 DEF TypeOK, Tokens
        <4>3. QED
          BY <4>2, BoundsAssumption DEF Arms
      <3>2. QED
        BY <3>1, Bounds DEF Job
    <2>2. j.rows = 0 /\ applying' = Append(applying, j) /\ UNCHANGED <<tasks, rows, passes, due>>
      BY <1>14 DEF Answered
    <2> HIDE DEF j
    <2>3. \A i \in 1..Len(applying') : applying'[i].rows <= Top
      BY <1>0, <2>1, <2>2, AppendJob DEF Committed
    <2>4. QED
      BY <1>13, <2>2, <2>3 DEF Committed
  <1>15. CASE Expand \/ Applied
    <2> DEFINE rs == IF Head(applying).at = "waiting" THEN 0 ELSE Head(applying).rows
    <2> DEFINE t == [kind |-> "release", token |-> Token(Head(applying)), rows |-> rs]
    <2>1. applying # <<>> /\ applying' = Tail(applying) /\ UNCHANGED <<rows, passes>> /\ due' \in {due, 0}
          /\ tasks' = Append(tasks, t)
      BY <1>15 DEF Expand, Applied, Arm
    <2>2. Head(applying) \in Job /\ Head(applying).rows <= Top
      BY <2>1, TailJob DEF Committed
    <2>3. t \in Task /\ t.rows <= Top
      BY <1>0, <2>2, Bounds DEF Job, Task, Token
    <2> HIDE DEF t
    <2>4. \A i \in 1..Len(tasks') : tasks'[i].rows <= Top
      BY <2>1, <2>3, AppendTask DEF Committed
    <2>5. \A i \in 1..Len(applying') : applying'[i].rows <= Top
      BY <2>1, TailJob DEF Committed
    <2>6. QED
      BY <1>13, <2>1, <2>4, <2>5
  (* New rows. *)
  <1>16. ASSUME NewRows, UNCHANGED <<shown, lost, passes, due>>
         PROVE  /\ Top' \in Nat /\ Top <= Top' /\ stored' <= Top' /\ committed' = committed + 1
                /\ due' <= Top' /\ shown' <= committed' /\ lost' <= committed'
                /\ \A i \in 0..MaxOlder : passes'[i].rows <= committed'
                /\ \A i \in 1..Len(tasks') : tasks'[i].rows <= Top'
    <2>1. committed' = committed + 1 /\ stored' = committed + 1 /\ tasks' = Append(tasks, Read)
      BY <1>16 DEF NewRows
    <2>2. Top = Later(stored, lost) /\ Top' = Later(committed + 1, lost) /\ lost \in Nat /\ shown \in Nat
      BY <1>16, <2>1, Numbers DEF Top
    <2>3. Top' \in Nat /\ Top <= Top' /\ stored' <= Top'
      BY <1>0, <2>1, <2>2 DEF Later
    <2>4. Read \in Task /\ Read.rows = 0
      BY Bounds DEF Read, Task
    <2>5. \A i \in 1..Len(tasks') : tasks'[i] = Read \/ (i \in 1..Len(tasks) /\ tasks'[i] = tasks[i])
      BY <2>1, <2>4, AppendTask
    <2>6. \A i \in 1..Len(tasks') : tasks'[i].rows <= Top'
      BY <1>0, <2>3, <2>4, <2>5, Numbers DEF Committed
    <2>7. \A i \in 0..MaxOlder : passes'[i].rows <= committed'
      BY <1>0, <1>16, <2>1, Numbers DEF Committed
    <2>8. QED
      BY <1>0, <1>16, <2>1, <2>2, <2>3, <2>6, <2>7
  <1>17. CASE RealtimeRows
    <2>1. NewRows /\ UNCHANGED <<shown, lost, passes, due, applying>>
      BY <1>17 DEF RealtimeRows
    <2>2. \A i \in 1..Len(applying') : applying'[i].rows <= Top'
      BY <1>0, <1>16, <2>1, Numbers DEF Committed
    <2>3. QED
      BY <1>16, <2>1, <2>2 DEF Committed
  <1>18. CASE Commit
    <2> DEFINE j == [Head(applying) EXCEPT !.at = "committed", !.rows = stored']
    <2>0. applying # <<>> /\ applying' = <<j>> \o Tail(applying) /\ UNCHANGED <<shown, lost, passes, due>>
      BY <1>18 DEF Commit
    <2>1. /\ Top' \in Nat /\ Top <= Top' /\ stored' <= Top' /\ stored' \in Nat
          /\ committed' \in Nat /\ committed <= committed'
          /\ due' <= Top' /\ shown' <= committed' /\ lost' <= committed'
          /\ \A i \in 0..MaxOlder : passes'[i].rows <= committed'
          /\ \A i \in 1..Len(tasks') : tasks'[i].rows <= Top'
      <3>1. CASE NewRows
        <4>1. stored' = committed + 1
          BY <3>1 DEF NewRows
        <4>2. /\ Top' \in Nat /\ Top <= Top' /\ stored' <= Top' /\ committed' = committed + 1
              /\ due' <= Top' /\ shown' <= committed' /\ lost' <= committed'
              /\ \A i \in 0..MaxOlder : passes'[i].rows <= committed'
              /\ \A i \in 1..Len(tasks') : tasks'[i].rows <= Top'
          BY <1>16, <2>0, <3>1
        <4>3. QED
          BY <1>0, <4>1, <4>2
      <3>2. CASE UNCHANGED <<table, tasks>>
        <4>1. Top' = Top
          BY <2>0, <3>2 DEF Top
        <4>2. QED
          BY <1>0, <2>0, <3>2, <4>1, Numbers DEF Committed
      <3>3. QED
        BY <1>18, <3>1, <3>2 DEF Commit
    <2>2. j.rows = stored'
      BY <2>0, TailJob DEF Job
    <2> HIDE DEF j
    <2>3. \A i \in 1..Len(applying') : applying'[i] = j \/ (i \in 1..Len(applying) /\ applying'[i] = applying[i])
      BY <2>0, TailJob DEF TypeOK
    <2>4. \A i \in 1..Len(applying') : applying'[i].rows <= Top'
      BY <1>0, <2>1, <2>2, <2>3, Numbers DEF Committed
    <2>5. QED
      BY <2>1, <2>4 DEF Committed
  <1> QED
    BY <1>3, <1>4, <1>5, <1>6, <1>7, <1>8, <1>9, <1>11, <1>12, <1>14, <1>15, <1>17, <1>18
    DEF Next, Frames, Apply, Tasks

(* The flag is up only while someone is logged in. *)
LEMMA SubscribedStep == ASSUME TypeOK, Subscribed, [Next]_vars PROVE Subscribed'
  <1> USE DEF arm, loader, rows, table, Subscribed
  <1>1. CASE UNCHANGED vars \/ Answered \/ Commit \/ Applied \/ RealtimeRows \/ FindOldFormat
    BY <1>1 DEF vars, Answered, Commit, Applied, RealtimeRows, FindOldFormat, GoesOn
  <1>2. CASE OnOpen \/ Resubscribe \/ Expand \/ OnClose \/ Logout
    BY <1>2 DEF OnOpen, Resubscribe, Expand, Arm, OnClose, Logout, Clear
  <1>3. CASE RunRelease \/ Backstop \/ GiveUp
    <2>1. ASSUME NEW t, NEW rs, Release(t, rs) PROVE flag' => flag
      BY <2>1 DEF Release
    <2>2. (flag' => flag) /\ UNCHANGED <<open, subscribed>>
      BY <1>3, <2>1 DEF RunRelease, Backstop, GiveUp
    <2>3. QED
      BY <2>2
  <1>4. CASE RunRead \/ Load
    <2>1. ASSUME NEW v, SetLoadingTxs(v) PROVE flag' => flag
      BY <2>1 DEF SetLoadingTxs
    <2>2. (flag' => flag) /\ UNCHANGED open /\ (subscribed' = subscribed \/ subscribed' = TRUE)
      BY <1>4, <2>1 DEF RunRead, Load, StartRead
    <2>3. QED
      BY <2>2
  <1>5. ASSUME ResyncFrom0, UNCHANGED <<open, subscribed>> PROVE Subscribed'
    BY <1>5 DEF ResyncFrom0, Arm
  <1>6. CASE Resync
    BY <1>5, <1>6 DEF Resync
  <1>7. CASE ReadFails \/ PutRows
    <2>1. (flag' => flag) /\ UNCHANGED <<open, subscribed>>
      BY <1>7, EndsDue, PutsDue DEF ReadFails, PutRows
    <2>2. QED
      BY <2>1
  <1>8. ASSUME NEW i \in 0..MaxOlder, Running(i) PROVE Subscribed'
    <2>1. CASE TriggerResync(i)
      BY <1>5, <2>1 DEF TriggerResync
    <2>2. CASE ClearTable(i) \/ PassEnds(i)
      <3>1. (flag' => flag) /\ UNCHANGED <<open, subscribed>>
        BY <2>2, EndsDue, PutsDue DEF ClearTable, PassEnds, GoesOn
      <3>2. QED
        BY <3>1
    <2>3. QED
      BY <1>8, <2>1, <2>2 DEF Running
  <1> QED
    BY <1>1, <1>2, <1>3, <1>4, <1>6, <1>7, <1>8 DEF Next, Frames, Apply, Tasks, Results

LEMMA CoversStep ==
  ASSUME TypeOK, Committed, RaisedByLatest, Covers, [Next]_vars
  PROVE  Covers'
  <1> USE DEF arm, loader, rows, table
  <1>0. Top \in Nat /\ due \in Nat /\ Coming \in Nat
    BY Numbers
  (* Steps that leave the queue alone, or add a read. *)
  <1>1. ASSUME Others, subscribed' = subscribed, tasks' = tasks \/ tasks' = Append(tasks, Read),
               due' \in {due, 0}
        PROVE  Covers'
    <2>1. Coming' \in Nat /\ Top' \in Nat /\ Coming <= Coming'
          /\ ((Top <= Coming => Top' <= Coming') \/ tasks' = Append(tasks, Read))
      BY <1>1, ComingGrows
    <2>2. ASSUME subscribed PROVE QueueCovers(tasks', Top', Coming')
      <3>1. QueueCovers(tasks, Top, Coming)
        BY <2>2 DEF Covers
      <3>2. CASE tasks' = Append(tasks, Read)
        <4>1. QueueCovers(tasks, Coming', Coming')
          BY <1>0, <2>1, <3>1, MoreComing
        <4>2. QED
          BY <2>1, <3>2, <4>1, QueueRead
      <3>3. CASE tasks' = tasks /\ (Top <= Coming => Top' <= Coming')
        BY <1>0, <2>1, <3>1, <3>3, MoreComing
      <3>4. QED
        BY <1>1, <2>1, <3>2, <3>3
    <2>3. ASSUME subscribed PROVE due' <= Coming'
      BY <1>0, <1>1, <2>1, <2>3, Numbers DEF Covers
    <2>4. QED
      BY <1>1, <2>2, <2>3 DEF Covers
  <1>2. ASSUME NEW token, Release(token, 0)
        PROVE  due' \in {due, 0}
    BY <1>0, <1>2 DEF Release, TypeOK, Later
  <1>3. CASE UNCHANGED vars \/ OnOpen \/ Resubscribe \/ OnClose \/ Answered
    BY <1>1, <1>3 DEF Others, Frames, vars, OnOpen, Resubscribe, Arm, OnClose, Clear, Answered
  <1>4. CASE Backstop \/ GiveUp
    <2>1. UNCHANGED <<tasks, subscribed>> /\ due' \in {due, 0}
      BY <1>2, <1>4 DEF Backstop, GiveUp
    <2>2. QED
      BY <1>1, <1>4, <2>1 DEF Others
  <1>5. CASE Results
    <2>1. UNCHANGED <<tasks, subscribed>> /\ due' \in {due, 0}
      BY <1>5, EndsDue, PutsDue DEF Results, ReadFails, PutRows, FindOldFormat, GoesOn
    <2>2. QED
      BY <1>1, <1>5, <2>1 DEF Others
  <1>6. CASE Resync
    <2>1. tasks' = Append(tasks, Read) /\ subscribed' = subscribed /\ due' \in {due, 0}
      BY <1>6, ResyncArm DEF Resync, Emptied
    <2>2. QED
      BY <1>1, <1>6, <2>1 DEF Others
  <1>7. ASSUME NEW i \in 0..MaxOlder, Running(i) PROVE Covers'
    <2>1. (tasks' = tasks \/ tasks' = Append(tasks, Read)) /\ subscribed' = subscribed
          /\ due' \in {due, 0}
      <3>1. CASE ClearTable(i)
        BY <3>1, PutsDue DEF ClearTable, Emptied, GoesOn
      <3>2. CASE TriggerResync(i)
        BY <3>2, ResyncArm DEF TriggerResync, Emptied
      <3>3. CASE PassEnds(i)
        BY <3>3, EndsDue DEF PassEnds
      <3>4. QED
        BY <1>7, <3>1, <3>2, <3>3 DEF Running
    <2>2. QED
      BY <1>1, <1>7, <2>1 DEF Others
  <1>8. CASE Logout
    BY <1>8 DEF Logout, Covers
  (* A read that starts. *)
  <1>9. ASSUME StartRead, tasks' = tasks \/ (tasks # <<>> /\ tasks' = Tail(tasks)), UNCHANGED rows
        PROVE  Covers'
    <2>1. Coming' = Top /\ Top' = Top /\ due' = due
      BY <1>9, ReadRows
    <2>2. QueueCovers(tasks', Top, Top)
      BY <1>9, ReadSeesAll
    <2>3. QED
      BY <2>1, <2>2 DEF Covers, Committed
  <1>10. CASE Load
    BY <1>9, <1>10 DEF Load
  <1>11. CASE RunRead
    <2>1. CASE subscribed
      BY <1>9, <1>11, <2>1 DEF RunRead
    <2>2. CASE ~subscribed
      BY <1>11, <2>2 DEF RunRead, Covers
    <2>3. QED
      BY <2>1, <2>2
  <1>12. CASE RunRelease
    <2>1. /\ tasks # <<>> /\ Head(tasks).kind = "release" /\ tasks' = Tail(tasks)
          /\ UNCHANGED <<rows, subscribed, passes>>
          /\ Release(Head(tasks).token, Head(tasks).rows)
      BY <1>12 DEF RunRelease
    <2>2. Coming' = Coming /\ Top' = Top
      BY <2>1 DEF Coming, Top, pass
    <2>3. due' \in {due, 0, Later(due, Head(tasks).rows)}
      BY <2>1 DEF Release
    <2>4. ASSUME subscribed PROVE QueueCovers(tasks', Top, Coming) /\ due' <= Coming
      <3>1. QueueCovers(tasks, Top, Coming) /\ due <= Coming
        BY <2>4 DEF Covers
      <3>2. QueueCovers(tasks', Top, Coming) /\ Head(tasks).rows <= Coming
        BY <1>0, <2>1, <3>1, RunQueued
      <3>3. QED
        BY <1>0, <2>3, <3>1, <3>2 DEF Later
    <2>5. QED
      BY <2>1, <2>2, <2>4 DEF Covers
  (* A task queued: the read a commit causes, or a release of what was committed. *)
  <1>13. CASE Commit \/ RealtimeRows
    <2>1. UNCHANGED <<subscribed, due, settle>>
      BY <1>13 DEF Commit, RealtimeRows
    <2>2. tasks' = tasks \/ tasks' = Append(tasks, Read)
      BY <1>13 DEF Commit, RealtimeRows, NewRows
    <2>3. QED
      BY <1>1, <1>13, <2>1, <2>2 DEF Others, Apply
  <1>14. CASE Expand \/ Applied
    <2> DEFINE rs == IF Head(applying).at = "waiting" THEN 0 ELSE Head(applying).rows
    <2> DEFINE t == [kind |-> "release", token |-> Token(Head(applying)), rows |-> rs]
    <2>1. /\ applying # <<>> /\ UNCHANGED <<rows, passes, subscribed>> /\ tasks' = Append(tasks, t)
          /\ due' \in {due, 0}
      BY <1>14 DEF Expand, Applied, Arm
    <2>2. Head(applying) \in Job /\ Head(applying).rows <= Top
      BY <2>1, TailJob DEF Committed
    <2>3. t \in Task /\ t.rows <= Top
      <3>1. 0 <= Top
        BY <1>0
      <3>2. QED
        BY <2>2, <3>1, Bounds DEF Job, Task, Token
    <2>4. Coming' = Coming /\ Top' = Top
      BY <2>1 DEF Coming, Top, pass
    <2> HIDE DEF t
    <2>5. subscribed => QueueCovers(tasks', Top, Coming)
      BY <1>0, <2>1, <2>3, QueueRelease DEF Covers
    <2>6. subscribed => due' <= Coming
      BY <1>0, <2>1 DEF Covers
    <2>7. QED
      BY <2>1, <2>4, <2>5, <2>6 DEF Covers
  <1> QED
    BY <1>3, <1>4, <1>5, <1>6, <1>7, <1>8, <1>10, <1>11, <1>12, <1>13, <1>14
    DEF Next, Frames, Apply, Tasks

LEMMA RowsInvariant == Spec => []RowsInv
  <1>1. Init => Committed /\ Subscribed /\ Covers
    BY Bounds DEF Init, Committed, Subscribed, Covers, NoPass, Top, Later
  <1>2. RowsInv /\ [Next]_vars => Committed' /\ Subscribed' /\ Covers'
    BY CommittedStep, SubscribedStep, CoversStep DEF RowsInv, IInv
  <1>3. RowsInv /\ [Next]_vars => IInv'
    BY TypeStep, TokensStep, ReleasesStep DEF RowsInv, IInv
  <1>4. QED
    BY <1>1, <1>2, <1>3, InvInit, PTL DEF Spec, RowsInv

LEMMA DropStep ==
  ASSUME RowsInv, RaisedByLatest', TypeOK', [Next]_vars, flag, ~flag'
  PROVE  /\ ByRelease => HasRows(Head(tasks).rows)
         /\ ByPass => HasRows(due)
  <1> USE DEF arm, loader, rows, table
  <1>0. TypeOK /\ Committed /\ subscribed /\ (loadingTxs <=> pass.at # "none") /\ flag \in BOOLEAN
    BY DEF RowsInv, IInv, Subscribed, RaisedByLatest, TypeOK
  <1>1. QueueCovers(tasks, Top, Coming) /\ due <= Coming
    BY <1>0 DEF RowsInv, Covers
  <1>2. shown' \in Nat /\ lost' \in Nat
    BY Bounds DEF TypeOK
  <1>3. ASSUME NEW rs \in Nat, pass'.at = "none", rs <= Coming' PROVE HasRows(rs)
    <2>1. Coming' = Later(shown', lost')
      BY <1>3 DEF Coming
    <2>2. QED
      BY <1>2, <1>3, <2>1 DEF HasRows, Later
  <1>4. CASE RunRelease
    <2>1. /\ tasks # <<>> /\ Head(tasks).kind = "release" /\ Release(Head(tasks).token, Head(tasks).rows)
          /\ UNCHANGED <<shown, lost, passes, loadingTxs>>
      BY <1>4 DEF RunRelease
    <2>2. ~loadingTxs /\ Coming' = Coming
      BY <2>1 DEF Release, TypeOK, Coming, pass
    <2>3. pass'.at = "none"
      BY <1>0, <2>1, <2>2 DEF pass
    <2>4. Head(tasks).rows <= Coming /\ Head(tasks).rows \in Nat
      BY <1>0, <1>1, <2>1, Numbers, RunQueued, TailTask
    <2>5. HasRows(Head(tasks).rows)
      BY <1>3, <2>2, <2>3, <2>4
    <2>6. QED
      BY <2>1, <2>2, <2>5 DEF ByPass
  <1>5. ASSUME tasks' = tasks \/ (\E t \in Task : tasks' = Append(tasks, t)) PROVE ~ByRelease
    <2>1. tasks \in Seq(Task)
      BY <1>0 DEF TypeOK
    <2>2. tasks # <<>> => Len(Tail(tasks)) = Len(tasks) - 1 /\ Len(tasks) \in Nat
      BY <2>1
    <2>3. Len(tasks') = Len(tasks) \/ Len(tasks') = Len(tasks) + 1
      BY <1>5, <2>1
    <2>4. QED
      BY <2>2, <2>3 DEF ByRelease
  <1>6. CASE Backstop \/ GiveUp
    BY <1>5, <1>6 DEF Backstop, GiveUp, ByPass
  <1>7. CASE OnClose \/ Logout
    BY <1>5, <1>7 DEF OnClose, Logout, ByPass
  (* The end of a pass. *)
  <1>8. ASSUME Others, tasks' = tasks PROVE (ByRelease => HasRows(Head(tasks).rows)) /\ (ByPass => HasRows(due))
    <2>1. ~ByRelease
      BY <1>5, <1>8
    <2>2. ASSUME ByPass PROVE HasRows(due)
      <3>1. settle /\ ~loadingTxs'
        BY <2>2 DEF ByPass
      <3>2. pass'.at = "none"
        BY <3>1 DEF RaisedByLatest
      <3>3. Coming \in Nat /\ Coming' \in Nat /\ Coming <= Coming' /\ due \in Nat
        BY <1>0, <1>8, ComingGrows, Numbers
      <3>4. due <= Coming'
        BY <1>1, <3>1, <3>3
      <3>5. QED
        BY <1>3, <3>2, <3>3, <3>4
    <2>3. QED
      BY <2>1, <2>2
  <1>9. CASE Results
    BY <1>8, <1>9 DEF Others, Results, ReadFails, PutRows, FindOldFormat
  <1>10. ASSUME NEW i \in 0..MaxOlder, Running(i)
         PROVE  (ByRelease => HasRows(Head(tasks).rows)) /\ (ByPass => HasRows(due))
    <2>0. Others
      BY <1>10 DEF Others
    <2>1. CASE tasks' = tasks
      BY <1>8, <2>0, <2>1
    <2>2. CASE tasks' # tasks
      <3>1. ~PassEnds(i)
        BY <2>2 DEF PassEnds
      <3>2. flag' = flag \/ flag' = TRUE
        BY <1>10, <2>2, <3>1 DEF Running, ClearTable, GoesOn, TriggerResync, ResyncFrom0, Arm
      <3>3. QED
        BY <3>2
    <2>3. QED
      BY <2>1, <2>2
  <1>11. CASE UNCHANGED vars \/ OnOpen \/ Resubscribe \/ Answered \/ Apply \/ RealtimeRows
    BY <1>11 DEF vars, OnOpen, Resubscribe, Answered, Apply, Expand, Arm, Commit, Applied, RealtimeRows
  <1>12. CASE Resync \/ RunRead \/ Load
    <2>1. flag' = flag \/ flag' = TRUE
      BY <1>0, <1>12 DEF Resync, ResyncFrom0, Arm, RunRead, Load, StartRead, SetLoadingTxs
    <2>2. QED
      BY <2>1
  <1> QED
    BY <1>4, <1>6, <1>7, <1>9, <1>10, <1>11, <1>12 DEF Next, Frames, Tasks

(* A flag dropped for an answer has that answer's rows in the store: by its    *)
(* release, which never overtakes the read its commit caused, or by the pass   *)
(* that the release waited for, never by an older one.  The rows are those     *)
(* that were not cleared, and that no pass failed to put or took back.          *)
THEOREM RowsFirst == Spec => RowsShown
  <1>1. RowsInv /\ RowsInv' /\ [Next]_vars
          => [flag /\ ~flag'
                => /\ ByRelease => HasRows(Head(tasks).rows)
                   /\ ByPass => HasRows(due)]_vars
    BY DropStep DEF RowsInv, IInv
  <1>2. QED
    BY <1>1, RowsInvariant, PTL DEF Spec, RowsShown
=============================================================================
