------------------------ MODULE SecretMigrationProofs ------------------------
(***************************************************************************)
(* What holds of the stored secrets for every set of passwords, passes and *)
(* fields:                                                                 *)
(*  - the wallets row and the config secrets follow the password, for      *)
(*    wallets whose root key was never stored nested (for the others TLC   *)
(*    finds the lockout);                                                  *)
(*  - a mnemonic that does not derive the root key is never migrated;      *)
(*  - while the flag stands, no writer weakens a format, and "nothing left *)
(*    to do" is remembered only when it is true.                           *)
(***************************************************************************)
EXTENDS SecretMigration, TLAPS

(* A pass that reports, or rewrites a nested key, belongs to a logged-in WalletBg. *)
Kinds ==
    \A t \in Passes :
        /\ task[t].kind = "session" => mem # NoMem
        /\ task[t].pc \in {"nested", "nestedMem", "report"} => task[t].kind = "session"

TypeInv == TypeOK /\ Kinds

LEMMA IdlePassType == IdlePass \in Pass /\ IdlePass.kind = "login" /\ IdlePass.pc = "idle"
BY PasswordsAssumption DEF IdlePass, Pass, PassPC, Modes, Outcomes, NothingPlanned, PlannedFormats

LEMMA NoRotationType == NoRotation \in Rotation /\ NoRotation.pc = "idle"
BY PasswordsAssumption DEF NoRotation, Rotation, Formats, PlannedFormats

LEMMA BlobType ==
    /\ \A b \in Blob : b.fmt \in Formats /\ b.pw \in Passwords
    /\ \A fmt \in Formats, p \in Passwords : [fmt |-> fmt, pw |-> p] \in Blob
BY DEF Blob

LEMMA RowType ==
    /\ RowFields \subseteq Fields /\ Root \in RowFields
    /\ \A store \in [Fields -> Blob] : Row(store) \in [RowFields -> Blob]
BY DEF Row, Fields, RowFields

LEMMA ResealType == ASSUME NEW blob PROVE Reseal(blob) \in Formats /\ Reseal(blob) # "legacy"
BY DEF Reseal, Formats

(* The updates of one pass, as the actions write them. *)
LEMMA PassMoves == ASSUME NEW r \in Pass, NEW pc \in PassPC PROVE [r EXCEPT !.pc = pc] \in Pass
BY DEF Pass

LEMMA PassStarts ==
    ASSUME NEW pc \in PassPC, NEW kind \in {"login", "session"}, NEW p \in Passwords
    PROVE  /\ [IdlePass EXCEPT !.pc = pc, !.pw = p] \in Pass
           /\ [IdlePass EXCEPT !.pc = pc, !.kind = kind, !.pw = p] \in Pass
BY IdlePassType DEF Pass

LEMMA PassPlans ==
    ASSUME NEW r \in Pass, NEW pc \in PassPC, NEW plan \in [Fields -> PlannedFormats]
    PROVE  [r EXCEPT !.pc = pc, !.expected = plan] \in Pass
BY DEF Pass

LEMMA PassReports ==
    ASSUME NEW r \in Pass, NEW outcome \in Outcomes, NEW written \in BOOLEAN
    PROVE  /\ Reported(r, outcome, written) \in Pass
           /\ Reported(r, outcome, written).pc = "report"
           /\ Reported(r, outcome, written).kind = r.kind
<1>1. NothingPlanned \in [Fields -> PlannedFormats]
  BY DEF NothingPlanned, PlannedFormats
<1>2. (outcome \in Done) \in BOOLEAN
  OBVIOUS
<1> QED BY <1>1, <1>2 DEF Reported, Pass, PassPC

LEMMA InitType == Init => TypeInv
<1> SUFFICES ASSUME Init PROVE TypeInv
  OBVIOUS
<1>1. TypeOK
  <2>1. db \in [Fields -> Blob]
    BY PasswordsAssumption DEF Init, Blob
  <2> QED BY <2>1, RowType, PasswordsAssumption, IdlePassType, NoRotationType DEF Init, TypeOK
<1>2. Kinds
  BY IdlePassType DEF Init, Kinds
<1> QED BY <1>1, <1>2 DEF TypeInv

(* How a pass ends keeps the types. *)
LEMMA EndType ==
    ASSUME TypeInv, NEW t \in Passes, NEW outcome \in Outcomes, NEW written \in BOOLEAN,
           task[t].pc # "idle", End(t, outcome, written), UNCHANGED mem
    PROVE  /\ task' \in [Passes -> Pass]
           /\ lock' \in Passes \cup {NoPass}
           /\ Kinds'
<1>1. task' \in [Passes -> Pass] /\ lock' \in Passes \cup {NoPass}
  <2> DEFINE r == IF task[t].kind = "login" THEN IdlePass
                  ELSE Reported(task[t], outcome, written)
  <2>1. r \in Pass
    BY IdlePassType, PassReports DEF TypeInv, TypeOK
  <2>2. task' = [task EXCEPT ![t] = r] /\ task \in [Passes -> Pass]
    BY DEF End, TypeInv, TypeOK
  <2> QED BY <2>1, <2>2 DEF End, TypeInv, TypeOK
<1>2. Kinds'
  <2>1. task[t] \in Pass
    BY DEF TypeInv, TypeOK
  <2> QED BY <2>1, IdlePassType, PassReports DEF TypeInv, TypeOK, Kinds, End, Pass
<1> QED BY <1>1, <1>2

(* So does a pass that moves to another step of the same kind. *)
LEMMA GotoType ==
    ASSUME TypeInv, NEW t \in Passes, NEW pc \in PassPC,
           pc \in {"nested", "nestedMem", "report"} => task[t].kind = "session",
           Goto(t, pc), mem # NoMem => mem' # NoMem
    PROVE  task' \in [Passes -> Pass] /\ Kinds'
<1>1. task' \in [Passes -> Pass]
  BY PassMoves DEF TypeInv, TypeOK, Goto
<1>2. Kinds'
  BY DEF TypeInv, TypeOK, Kinds, Goto, Pass
<1> QED BY <1>1, <1>2

LEMMA SealedType ==
    ASSUME TypeOK, NEW t \in Passes
    PROVE  Sealed(t) \in Blob /\ Sealed(t).fmt \in {"standard", "gpw2"}
BY BlobType DEF TypeOK, Pass, Sealed, Formats

LEMMA NextType == TypeInv /\ [Next]_vars => TypeInv'
<1> SUFFICES ASSUME TypeInv, [Next]_vars PROVE TypeInv'
  OBVIOUS
<1> USE DEF TypeInv
<1>1. ASSUME NEW t \in Passes, NEW p \in Passwords, Login(t, p) PROVE TypeInv'
  <2>1. Row(db) \in [RowFields -> Blob] /\ Row(db) # NoMem
    BY NonesAssumption, RowType DEF TypeOK
  <2>2. TypeOK'
    BY <1>1, <2>1, IdlePassType DEF Login, TypeOK, Pass, PassPC, pageVars
  <2>3. Kinds'
    BY <1>1, <2>1, IdlePassType DEF Login, TypeOK, Kinds, Pass
  <2> QED BY <2>2, <2>3
<1>2. ASSUME NEW t \in Passes, NEW p \in Passwords, UsePassword(t, p) PROVE TypeInv'
  <2>1. TypeOK'
    BY <1>2, IdlePassType DEF UsePassword, TypeOK, Pass, PassPC, pageVars
  <2>2. Kinds'
    BY <1>2, IdlePassType DEF UsePassword, TypeOK, Kinds, Pass
  <2> QED BY <2>1, <2>2
<1>3. ASSUME NEW t \in Passes, ReadFlag(t) PROVE TypeInv'
  <2>1. task' \in [Passes -> Pass] /\ Kinds'
    <3>1. CASE task' = [task EXCEPT ![t].pc = "queue", ![t].mode = "gpw2"]
      BY <1>3, <3>1 DEF ReadFlag, TypeOK, Kinds, Pass, PassPC, Modes
    <3>2. CASE task' = [task EXCEPT ![t] = IdlePass]
      BY <1>3, <3>2, IdlePassType DEF ReadFlag, TypeOK, Kinds
    <3>3. CASE Goto(t, "nested") /\ task[t].kind = "session"
      BY <1>3, <3>3, GotoType DEF ReadFlag, PassPC
    <3>4. CASE Goto(t, "queue")
      BY <1>3, <3>4, GotoType DEF ReadFlag, PassPC
    <3> QED BY <1>3, <3>1, <3>2, <3>3, <3>4 DEF ReadFlag
  <2> QED BY <1>3, <2>1 DEF ReadFlag, TypeOK, pageVars
<1>4. ASSUME NEW t \in Passes, RewriteNestedKey(t) PROVE TypeInv'
  <2>1. task[t].kind = "session" /\ task[t].pw \in Passwords
    BY <1>4 DEF RewriteNestedKey, Kinds, TypeOK, Pass
  <2>2. task' \in [Passes -> Pass] /\ Kinds'
    BY <1>4, <2>1, GotoType DEF RewriteNestedKey, PassPC
  <2>3. db' \in [Fields -> Blob]
    BY <1>4, <2>1, BlobType DEF RewriteNestedKey, TypeOK, Formats
  <2> QED BY <1>4, <2>2, <2>3 DEF RewriteNestedKey, TypeOK, pageVars
<1>5. ASSUME NEW t \in Passes, KeepNestedKey(t) PROVE TypeInv'
  <2>1. task[t].kind = "session" /\ task[t].pw \in Passwords /\ mem # NoMem
    BY <1>5 DEF KeepNestedKey, Kinds, TypeOK, Pass
  <2>2. mem' \in [RowFields -> Blob] /\ mem' # NoMem
    BY <1>5, <2>1, NonesAssumption, BlobType DEF KeepNestedKey, TypeOK, Formats
  <2>3. task' \in [Passes -> Pass] /\ Kinds'
    BY <1>5, <2>2, GotoType DEF KeepNestedKey, PassPC
  <2> QED BY <1>5, <2>2, <2>3 DEF KeepNestedKey, TypeOK, pageVars
<1>6. ASSUME NEW t \in Passes, Enter(t) PROVE TypeInv'
  <2>1. task' \in [Passes -> Pass] /\ lock' \in Passes \cup {NoPass} /\ Kinds'
    <3>1. CASE lock' = t /\ Goto(t, "readRow")
      BY <1>6, <3>1, GotoType DEF Enter, PassPC
    <3>2. CASE End(t, "disabled", FALSE)
      BY <1>6, <3>2, EndType DEF Enter, Outcomes
    <3> QED BY <1>6, <3>1, <3>2 DEF Enter
  <2> QED BY <1>6, <2>1 DEF Enter, TypeOK, pageVars
<1>7. ASSUME NEW t \in Passes, ReadRow(t) PROVE TypeInv'
  <2> DEFINE plan == [f \in Fields |->
                        IF f \in RowFields /\ NeedsUpgrade(task[t].mode, f, db[f])
                        THEN db[f].fmt ELSE "none"]
  <2>1. plan \in [Fields -> PlannedFormats]
    BY BlobType DEF TypeOK, PlannedFormats
  <2>2. task' \in [Passes -> Pass] /\ lock' \in Passes \cup {NoPass} /\ Kinds'
    <3>1. CASE End(t, "thrown", FALSE) \/ End(t, "decrypt_fail", FALSE)
        \/ End(t, "equivalence_fail", FALSE)
      BY <1>7, <3>1, EndType DEF ReadRow, Outcomes
    <3>2. CASE task' = [task EXCEPT ![t].pc = "readConfig", ![t].expected = plan]
               /\ UNCHANGED lock
      <4>1. [task[t] EXCEPT !.pc = "readConfig", !.expected = plan] \in Pass
        BY <2>1, PassPlans DEF TypeOK, PassPC
      <4>2. task' \in [Passes -> Pass]
        BY <3>2, <4>1 DEF TypeOK
      <4>3. Kinds'
        BY <1>7, <3>2 DEF ReadRow, TypeOK, Kinds, Pass
      <4> QED BY <3>2, <4>2, <4>3 DEF TypeOK
    <3> QED BY <1>7, <3>1, <3>2 DEF ReadRow
  <2> QED BY <1>7, <2>2 DEF ReadRow, TypeOK, pageVars
<1>8. ASSUME NEW t \in Passes, ReadConfig(t) PROVE TypeInv'
  <2>1. PlanConfig(t) \in [Fields -> PlannedFormats]
    BY BlobType DEF TypeOK, PlanConfig, Pass, PlannedFormats
  <2>2. task' \in [Passes -> Pass] /\ lock' \in Passes \cup {NoPass} /\ Kinds'
    <3>1. CASE End(t, "write_error", FALSE) \/ End(t, "already-current", FALSE)
      BY <1>8, <3>1, EndType DEF ReadConfig, Outcomes
    <3>2. CASE /\ \E pc \in {"casRow", "casConfig"} :
                     task' = [task EXCEPT ![t].expected = PlanConfig(t), ![t].pc = pc]
               /\ UNCHANGED lock
      BY <1>8, <2>1, <3>2 DEF ReadConfig, TypeOK, Kinds, Pass, PassPC
    <3> QED BY <1>8, <3>1, <3>2 DEF ReadConfig
  <2> QED BY <1>8, <2>2 DEF ReadConfig, TypeOK, pageVars

<1>9. ASSUME NEW t \in Passes, CasRow(t) PROVE TypeInv'
  <2>1. task' \in [Passes -> Pass] /\ lock' \in Passes \cup {NoPass} /\ Kinds'
    <3>1. CASE End(t, "cas_conflict", FALSE) \/ End(t, "write_error", FALSE)
      BY <1>9, <3>1, EndType DEF CasRow, Outcomes
    <3>2. CASE Goto(t, "checkRow") /\ UNCHANGED lock
      BY <1>9, <3>2, GotoType DEF CasRow, TypeOK, PassPC
    <3> QED BY <1>9, <3>1, <3>2 DEF CasRow
  <2>2. db' \in [Fields -> Blob]
    BY <1>9, SealedType DEF CasRow, Write, TypeOK
  <2> QED BY <1>9, <2>1, <2>2 DEF CasRow, TypeOK, pageVars
<1>10. ASSUME NEW t \in Passes, CheckRow(t) PROVE TypeInv'
  <2>1. task' \in [Passes -> Pass] /\ lock' \in Passes \cup {NoPass} /\ Kinds'
    <3>1. CASE End(t, "readback_fail", FALSE) \/ End(t, "migrated", TRUE)
      BY <1>10, <3>1, EndType DEF CheckRow, Outcomes
    <3>2. CASE Goto(t, "casConfig") /\ UNCHANGED lock
      BY <1>10, <3>2, GotoType DEF CheckRow, TypeOK, PassPC
    <3> QED BY <1>10, <3>1, <3>2 DEF CheckRow
  <2> QED BY <1>10, <2>1 DEF CheckRow, TypeOK, pageVars
<1>11. ASSUME NEW t \in Passes, CasConfig(t) PROVE TypeInv'
  <2>0. RowWritten(t) \in BOOLEAN
    BY DEF RowWritten
  <2>1. task' \in [Passes -> Pass] /\ lock' \in Passes \cup {NoPass} /\ Kinds'
    <3>1. CASE End(t, "cas_conflict", RowWritten(t)) \/ End(t, "write_error", RowWritten(t))
      BY <1>11, <2>0, <3>1, EndType DEF CasConfig, Outcomes
    <3>2. CASE Goto(t, "checkConfig") /\ UNCHANGED lock
      BY <1>11, <3>2, GotoType DEF CasConfig, TypeOK, PassPC
    <3> QED BY <1>11, <3>1, <3>2 DEF CasConfig
  <2>2. db' \in [Fields -> Blob]
    BY <1>11, SealedType DEF CasConfig, Write, TypeOK
  <2> QED BY <1>11, <2>1, <2>2 DEF CasConfig, TypeOK, pageVars
<1>12. ASSUME NEW t \in Passes, CheckConfig(t) PROVE TypeInv'
  <2>0. RowWritten(t) \in BOOLEAN
    BY DEF RowWritten
  <2>1. task' \in [Passes -> Pass] /\ lock' \in Passes \cup {NoPass} /\ Kinds'
    BY <1>12, <2>0, EndType DEF CheckConfig, Outcomes
  <2> QED BY <1>12, <2>1 DEF CheckConfig, TypeOK, pageVars
<1>13. ASSUME NEW t \in Passes, Report(t) PROVE TypeInv'
  <2>1. mem \in [RowFields -> Blob]
    BY <1>13 DEF Report, Kinds, TypeOK
  <2>2. mem' \in [RowFields -> Blob] /\ mem' # NoMem
    BY <1>13, <2>1, SealedType, NonesAssumption DEF Report
  <2>3. claim' \in {"none", "standard", "gpw2"}
    BY <1>13, SealedType DEF Report, TypeOK
  <2>4. task' \in [Passes -> Pass] /\ Kinds'
    BY <1>13, <2>2, IdlePassType DEF Report, TypeOK, Kinds
  <2> QED BY <1>13, <2>2, <2>3, <2>4 DEF Report, TypeOK, pageVars
<1>14. ASSUME \E old, new \in Passwords : PrepareRow(old, new) PROVE TypeInv'
  <2> PICK old \in Passwords, new \in Passwords : PrepareRow(old, new)
    BY <1>14
  <2>1. [f \in RowFields |-> Reseal(page[f])] \in [RowFields -> Formats]
    BY ResealType
  <2>2. rot' \in Rotation
    BY <2>1, NoRotationType DEF PrepareRow, Rotation
  <2> QED BY <2>2 DEF PrepareRow, TypeOK, Kinds, workerVars
<1>15. ASSUME PrepareConfig PROVE TypeInv'
  <2>1. [f \in ConfigFields |-> IF db[f].pw = rot.old THEN Reseal(db[f]) ELSE "none"]
            \in [ConfigFields -> PlannedFormats]
    BY ResealType DEF PlannedFormats
  <2>2. rot' \in Rotation
    BY <1>15, <2>1 DEF PrepareConfig, TypeOK, Rotation
  <2> QED BY <1>15, <2>2 DEF PrepareConfig, TypeOK, Kinds, workerVars
<1>16. ASSUME RotateRow PROVE TypeInv'
  <2>1. db' \in [Fields -> Blob] /\ current' \in Passwords
    <3>1. rot.row \in [RowFields -> Formats] /\ rot.new \in Passwords
      BY DEF TypeOK, Rotation
    <3> QED BY <1>16, <3>1, BlobType DEF RotateRow, TypeOK
  <2>2. rot' \in Rotation
    BY <1>16, NoRotationType DEF RotateRow, TypeOK, Rotation
  <2> QED BY <1>16, <2>1, <2>2 DEF RotateRow, TypeOK, Kinds, workerVars
<1>17. ASSUME RotateConfig PROVE TypeInv'
  <2>1. db' \in [Fields -> Blob]
    BY <1>17, BlobType DEF RotateConfig, TypeOK, Rotation, PlannedFormats
  <2>2. rot' \in Rotation
    BY <1>17, NoRotationType DEF RotateConfig, Rotation
  <2> QED BY <1>17, <2>1, <2>2 DEF RotateConfig, TypeOK, Kinds, workerVars, LeftBehind
<1>18. ASSUME ReloadPage PROVE TypeInv'
  <2>1. rot' \in Rotation
    BY <1>18 DEF ReloadPage, TypeOK, Rotation
  <2> QED BY <1>18, <2>1, RowType DEF ReloadPage, TypeOK, Kinds, workerVars
<1>19. ASSUME RefreshWorker PROVE TypeInv'
  <2>1. mem' \in [RowFields -> Blob] \cup {NoMem} /\ (mem # NoMem => mem' # NoMem)
    BY <1>19, NonesAssumption, RowType DEF RefreshWorker, TypeOK
  <2> QED BY <1>19, <2>1, NoRotationType DEF RefreshWorker, TypeOK, Kinds
<1>20. ASSUME PageRefreshed PROVE TypeInv'
  BY <1>20, RowType DEF PageRefreshed, TypeOK, Kinds, workerVars
<1>21. ASSUME PageClosed PROVE TypeInv'
  BY <1>21, NoRotationType, RowType DEF PageClosed, TypeOK, Kinds, workerVars, LeftBehind
<1>22. ASSUME WorkerKilled PROVE TypeInv'
  BY <1>22, IdlePassType DEF WorkerKilled, TypeOK, Kinds, pageVars
<1>23. ASSUME FlipFlag PROVE TypeInv'
  BY <1>23 DEF FlipFlag, TypeOK, Kinds, workerVars, pageVars
<1>24. ASSUME UNCHANGED vars PROVE TypeInv'
  BY <1>24 DEF vars, TypeOK, Kinds
<1> QED
  BY <1>1, <1>2, <1>3, <1>4, <1>5, <1>6, <1>7, <1>8, <1>9, <1>10, <1>11, <1>12, <1>13,
     <1>14, <1>15, <1>16, <1>17, <1>18, <1>19, <1>20, <1>21, <1>22, <1>23, <1>24
     DEF Next, PassStep, RotationStep

(* Every variable keeps its type, and a pass that will touch WalletBg has one. *)
THEOREM TypeCorrect == Spec => []TypeInv
BY InitType, NextType, PTL DEF Spec

-----------------------------------------------------------------------------
(* No root key is, or is about to be, handled as a nested one. *)
NeverNested ==
    /\ db[Root].fmt # "legacy"
    /\ mem # NoMem => mem[Root].fmt # "legacy"
    /\ \A t \in Passes : task[t].pc \notin {"nested", "nestedMem"}
    /\ rot.row[Root] # "legacy"

(* A pass's swap moves formats forward and leaves every password as it is:  *)
(* what it compares with was sealed under the password it seals under.      *)
LEMMA SwapKeepsPasswords ==
    TypeInv => \A t \in Passes, F \in {RowFields, ConfigFields} :
        Matches(t, F) /\ Write(t, F)
            => \A f \in Fields : /\ db'[f].pw = db[f].pw
                                 /\ db'[f].fmt = "legacy" => db[f].fmt = "legacy"
<1> SUFFICES ASSUME TypeInv, NEW t \in Passes, NEW F \in {RowFields, ConfigFields},
                    Matches(t, F), Write(t, F), NEW f \in Fields
             PROVE  /\ db'[f].pw = db[f].pw
                    /\ db'[f].fmt = "legacy" => db[f].fmt = "legacy"
  OBVIOUS
<1>1. CASE f \in Planned(t, F)
  <2>1. db'[f] = Sealed(t) /\ db[f] = [fmt |-> task[t].expected[f], pw |-> task[t].pw]
    BY <1>1 DEF Matches, Write
  <2> QED BY <2>1, SealedType DEF Sealed, TypeInv
<1>2. CASE f \notin Planned(t, F)
  BY <1>2 DEF Write
<1> QED BY <1>1, <1>2

LEMMA InitLockout ==
    ASSUME "legacy" \notin RootFormats
    PROVE  Init => NeverNested /\ RowOpensWithCurrentPassword /\ ConfigFollowsPassword
<1> SUFFICES ASSUME Init
             PROVE  NeverNested /\ RowOpensWithCurrentPassword /\ ConfigFollowsPassword
  OBVIOUS
<1>1. \A f \in Fields : db[f].pw = current
  BY DEF Init
<1>2. NeverNested
  BY IdlePassType, RowType DEF Init, NeverNested, NoRotation
<1> QED
  BY <1>1, <1>2, RowType DEF RowOpensWithCurrentPassword, ConfigFollowsPassword, Fields

LEMMA EndKeepsNested ==
    ASSUME TypeInv, NEW t \in Passes, NEW outcome, NEW written, End(t, outcome, written),
           UNCHANGED <<mem, rot>>, NeverNested, db'[Root].fmt # "legacy"
    PROVE  NeverNested'
<1>1. Reported(task[t], outcome, written).pc = "report"
  BY DEF Reported, TypeInv, TypeOK, Pass
<1> QED BY <1>1, IdlePassType DEF End, NeverNested, TypeInv, TypeOK

LEMMA GotoKeepsNested ==
    ASSUME TypeInv, NEW t \in Passes, NEW pc \in PassPC \ {"nested", "nestedMem"}, Goto(t, pc),
           UNCHANGED <<mem, rot>>, NeverNested, db'[Root].fmt # "legacy"
    PROVE  NeverNested'
BY DEF Goto, NeverNested, TypeInv, TypeOK, Pass

LEMMA NextNested == TypeInv /\ TypeInv' /\ NeverNested /\ [Next]_vars => NeverNested'
<1> SUFFICES ASSUME TypeInv, TypeInv', NeverNested, [Next]_vars PROVE NeverNested'
  OBVIOUS
<1> USE RowType
<1>0. Root \in Fields /\ task \in [Passes -> Pass]
  BY DEF TypeInv, TypeOK
<1>1. ASSUME NEW t \in Passes, NEW p \in Passwords, Login(t, p) \/ UsePassword(t, p)
      PROVE  NeverNested'
  <2>1. \A u \in Passes : task'[u].pc \notin {"nested", "nestedMem"}
    <3> DEFINE login == [IdlePass EXCEPT !.pc = "flag", !.pw = p]
               use == [IdlePass EXCEPT !.pc = "flag", !.kind = "session", !.pw = p]
    <3>1. login.pc = "flag" /\ use.pc = "flag"
      BY IdlePassType DEF Pass
    <3>2. task' = [task EXCEPT ![t] = login] \/ task' = [task EXCEPT ![t] = use]
      BY <1>1 DEF Login, UsePassword
    <3> HIDE DEF login, use
    <3> QED BY <1>0, <3>1, <3>2 DEF NeverNested
  <2> QED BY <1>1, <2>1 DEF Login, UsePassword, NeverNested, Row, pageVars
<1>2. ASSUME NEW t \in Passes, ReadFlag(t) PROVE NeverNested'
  <2>1. mem[Root].fmt = "legacy" => task[t].kind # "session"
    BY DEF NeverNested, TypeInv, Kinds
  <2>2. CASE task' = [task EXCEPT ![t].pc = "queue", ![t].mode = "gpw2"]
    BY <1>0, <1>2, <2>2 DEF ReadFlag, NeverNested, Pass, pageVars
  <2>3. CASE task' = [task EXCEPT ![t] = IdlePass]
    BY <1>0, <1>2, <2>3, IdlePassType DEF ReadFlag, NeverNested, pageVars
  <2>4. CASE Goto(t, "queue")
    BY <1>2, <2>4, GotoKeepsNested DEF ReadFlag, NeverNested, PassPC, pageVars
  <2> QED BY <1>2, <2>1, <2>2, <2>3, <2>4 DEF ReadFlag
<1>3. ASSUME NEW t \in Passes, RewriteNestedKey(t) \/ KeepNestedKey(t) PROVE NeverNested'
  BY <1>3 DEF RewriteNestedKey, KeepNestedKey, NeverNested
<1>4. ASSUME NEW t \in Passes, Enter(t) PROVE NeverNested'
  BY <1>4, EndKeepsNested, GotoKeepsNested DEF Enter, NeverNested, PassPC, pageVars
<1>5. ASSUME NEW t \in Passes, ReadRow(t) PROVE NeverNested'
  <2>1. CASE End(t, "thrown", FALSE) \/ End(t, "decrypt_fail", FALSE)
        \/ End(t, "equivalence_fail", FALSE)
    BY <1>5, <2>1, EndKeepsNested DEF ReadRow, NeverNested, pageVars
  <2>2. CASE \E plan : task' = [task EXCEPT ![t].pc = "readConfig", ![t].expected = plan]
    BY <1>0, <1>5, <2>2 DEF ReadRow, NeverNested, pageVars, Pass
  <2> QED BY <1>5, <2>1, <2>2 DEF ReadRow
<1>6. ASSUME NEW t \in Passes, ReadConfig(t) PROVE NeverNested'
  <2>1. CASE End(t, "write_error", FALSE) \/ End(t, "already-current", FALSE)
    BY <1>6, <2>1, EndKeepsNested DEF ReadConfig, NeverNested, pageVars
  <2>2. CASE \E pc \in {"casRow", "casConfig"} :
               task' = [task EXCEPT ![t].expected = PlanConfig(t), ![t].pc = pc]
    BY <1>0, <1>6, <2>2 DEF ReadConfig, NeverNested, pageVars, Pass
  <2> QED BY <1>6, <2>1, <2>2 DEF ReadConfig
<1>7. ASSUME NEW t \in Passes, CasRow(t) \/ CasConfig(t) PROVE NeverNested'
  <2>1. db'[Root].fmt # "legacy" /\ UNCHANGED <<mem, rot>>
    <3>1. CASE UNCHANGED db
      BY <1>7, <3>1 DEF CasRow, CasConfig, NeverNested, pageVars
    <3>2. CASE \E F \in {RowFields, ConfigFields} : Matches(t, F) /\ Write(t, F)
      <4> PICK F \in {RowFields, ConfigFields} : Matches(t, F) /\ Write(t, F)
        BY <3>2
      <4>1. \A f \in Fields : db'[f].fmt = "legacy" => db[f].fmt = "legacy"
        BY SwapKeepsPasswords
      <4> QED BY <1>0, <1>7, <4>1 DEF CasRow, CasConfig, NeverNested, pageVars
    <3> QED BY <1>7, <3>1, <3>2 DEF CasRow, CasConfig
  <2> QED BY <1>7, <2>1, EndKeepsNested, GotoKeepsNested DEF CasRow, CasConfig, PassPC
<1>8. ASSUME NEW t \in Passes, CheckRow(t) \/ CheckConfig(t) PROVE NeverNested'
  BY <1>8, EndKeepsNested, GotoKeepsNested DEF CheckRow, CheckConfig, NeverNested, PassPC, pageVars
<1>9. ASSUME NEW t \in Passes, Report(t) PROVE NeverNested'
  <2>1. mem # NoMem /\ \A u \in Passes : task'[u].pc \notin {"nested", "nestedMem"}
    BY <1>0, <1>9, IdlePassType DEF Report, NeverNested, TypeInv, Kinds
  <2>2. mem'[Root].fmt # "legacy"
    BY <1>9, <2>1, SealedType DEF Report, NeverNested, TypeInv
  <2> QED BY <1>9, <2>1, <2>2 DEF Report, NeverNested, pageVars
<1>10. ASSUME NEW old \in Passwords, NEW new \in Passwords, PrepareRow(old, new) PROVE NeverNested'
  BY <1>10, ResealType DEF PrepareRow, NeverNested, NoRotation, workerVars
<1>11. ASSUME PrepareConfig PROVE NeverNested'
  <2>1. rot'.row = rot.row
    BY <1>11 DEF PrepareConfig, TypeInv, TypeOK, Rotation
  <2> QED BY <1>11, <2>1 DEF PrepareConfig, NeverNested, workerVars
<1>12. ASSUME RotateRow PROVE NeverNested'
  <2>1. rot'.row[Root] # "legacy"
    BY <1>12 DEF RotateRow, NeverNested, NoRotation, TypeInv, TypeOK, Rotation
  <2> QED BY <1>12, <2>1 DEF RotateRow, NeverNested, workerVars
<1>13. ASSUME RotateConfig PROVE NeverNested'
  <2>1. Root \notin ConfigFields
    BY FieldsAssumption
  <2> QED BY <1>0, <1>13, <2>1 DEF RotateConfig, NeverNested, NoRotation, workerVars
<1>14. ASSUME ReloadPage PROVE NeverNested'
  BY <1>14 DEF ReloadPage, NeverNested, workerVars, TypeInv, TypeOK, Rotation
<1>15. ASSUME RefreshWorker PROVE NeverNested'
  BY <1>15 DEF RefreshWorker, NeverNested, NoRotation, Row
<1>16. ASSUME PageRefreshed \/ PageClosed \/ FlipFlag \/ UNCHANGED vars PROVE NeverNested'
  BY <1>16 DEF PageRefreshed, PageClosed, FlipFlag, vars, workerVars, pageVars, NeverNested, NoRotation
<1>17. ASSUME WorkerKilled PROVE NeverNested'
  BY <1>17, IdlePassType DEF WorkerKilled, NeverNested, pageVars
<1> QED
  BY <1>1, <1>2, <1>3, <1>4, <1>5, <1>6, <1>7, <1>8, <1>9, <1>10, <1>11, <1>12, <1>13,
     <1>14, <1>15, <1>16, <1>17
     DEF Next, PassStep, RotationStep

(* The two kinds of writers, and what they do to the passwords. *)
LEMMA PassKeepsPasswords ==
    ASSUME TypeInv, NeverNested, NEW t \in Passes, PassStep(t)
    PROVE  /\ \A f \in Fields : db'[f].pw = db[f].pw
           /\ UNCHANGED <<current, rot, orphaned>>
<1>1. \/ UNCHANGED db
      \/ \E F \in {RowFields, ConfigFields} : Matches(t, F) /\ Write(t, F)
  BY DEF PassStep, ReadFlag, RewriteNestedKey, KeepNestedKey, Enter, ReadRow, ReadConfig,
         CasRow, CheckRow, CasConfig, CheckConfig, Report, NeverNested
<1>2. UNCHANGED <<current, rot, orphaned>>
  BY DEF PassStep, ReadFlag, RewriteNestedKey, KeepNestedKey, Enter, ReadRow, ReadConfig,
         CasRow, CheckRow, CasConfig, CheckConfig, Report, pageVars
<1>3. ASSUME NEW F \in {RowFields, ConfigFields}, Matches(t, F), Write(t, F) PROVE \A f \in Fields : db'[f].pw = db[f].pw
  BY <1>3, SwapKeepsPasswords
<1> QED BY <1>1, <1>2, <1>3

LEMMA NextLockout ==
    ASSUME TypeInv, NeverNested, RowOpensWithCurrentPassword, ConfigFollowsPassword, [Next]_vars
    PROVE  RowOpensWithCurrentPassword' /\ ConfigFollowsPassword'
<1> USE DEF RowOpensWithCurrentPassword, ConfigFollowsPassword
<1>0. RowFields \subseteq Fields /\ ConfigFields \subseteq Fields /\ RowFields \cap ConfigFields = {}
  BY FieldsAssumption DEF Fields, RowFields, ConfigFields
<1>1. ASSUME NEW t \in Passes, PassStep(t)
      PROVE  RowOpensWithCurrentPassword' /\ ConfigFollowsPassword'
  BY <1>0, <1>1, PassKeepsPasswords
<1>2. ASSUME RotateRow
      PROVE  RowOpensWithCurrentPassword' /\ ConfigFollowsPassword'
  <2>1. CASE db' = db /\ current' = current
    BY <1>2, <2>1 DEF RotateRow, NoRotation
  <2>2. CASE /\ db' = [f \in Fields |-> IF f \in RowFields
                                        THEN [fmt |-> rot.row[f], pw |-> rot.new] ELSE db[f]]
             /\ current' = rot.new
             /\ rot' = [rot EXCEPT !.pc = "written"]
    <3>1. \A f \in RowFields : db'[f].pw = rot.new
      BY <1>0, <2>2
    <3>2. rot'.pc = "written"
      BY <2>2 DEF TypeInv, TypeOK, Rotation
    <3> QED BY <2>2, <3>1, <3>2
  <2> QED BY <1>2, <2>1, <2>2 DEF RotateRow
<1>3. ASSUME RotateConfig
      PROVE  RowOpensWithCurrentPassword' /\ ConfigFollowsPassword'
  <2>1. \A f \in RowFields : db'[f] = db[f]
    BY <1>0, <1>3 DEF RotateConfig, TypeInv, TypeOK
  <2>2. \A f \in ConfigFields : db'[f].pw = current \/ f \in orphaned'
    BY <1>3 DEF RotateConfig, LeftBehind
  <2> QED BY <1>3, <2>1, <2>2 DEF RotateConfig
<1>4. ASSUME PageClosed
      PROVE  RowOpensWithCurrentPassword' /\ ConfigFollowsPassword'
  BY <1>4 DEF PageClosed, LeftBehind, workerVars
<1>5. ASSUME NEW t \in Passes, NEW p \in Passwords, Login(t, p) \/ UsePassword(t, p)
      PROVE  RowOpensWithCurrentPassword' /\ ConfigFollowsPassword'
  BY <1>5 DEF Login, UsePassword, pageVars
<1>6. ASSUME NEW old \in Passwords, NEW new \in Passwords, PrepareRow(old, new)
      PROVE  RowOpensWithCurrentPassword' /\ ConfigFollowsPassword'
  BY <1>6 DEF PrepareRow
<1>7. ASSUME PrepareConfig \/ ReloadPage \/ RefreshWorker
      PROVE  RowOpensWithCurrentPassword' /\ ConfigFollowsPassword'
  BY <1>7 DEF PrepareConfig, ReloadPage, RefreshWorker
<1>8. ASSUME PageRefreshed \/ WorkerKilled \/ FlipFlag \/ UNCHANGED vars
      PROVE  RowOpensWithCurrentPassword' /\ ConfigFollowsPassword'
  BY <1>8 DEF PageRefreshed, WorkerKilled, FlipFlag, vars, pageVars
<1> QED
  BY <1>1, <1>2, <1>3, <1>4, <1>5, <1>6, <1>7, <1>8 DEF Next, RotationStep

LockoutInv ==
    TypeInv /\ NeverNested /\ RowOpensWithCurrentPassword /\ ConfigFollowsPassword

LEMMA LockoutKept ==
  ASSUME "legacy" \notin RootFormats
  PROVE  Spec => []LockoutInv
<1>1. Init => LockoutInv
  BY InitType, InitLockout DEF LockoutInv
<1>2. LockoutInv /\ [Next]_vars => LockoutInv'
  BY NextType, NextNested, NextLockout DEF LockoutInv
<1> QED BY <1>1, <1>2, PTL DEF Spec

(* The compare-and-swap does what it is there for: however many passes are  *)
(* in flight across a password change, the wallets row opens with the       *)
(* password last chosen.                                                    *)
THEOREM NoLockout ==
    ASSUME "legacy" \notin RootFormats
    PROVE  Spec => []RowOpensWithCurrentPassword
<1>1. LockoutInv => RowOpensWithCurrentPassword
  BY DEF LockoutInv
<1> QED BY <1>1, LockoutKept, PTL

(* The config rows, which no transaction spans with the wallets row, follow  *)
(* it but for those a change reported as left behind.                       *)
THEOREM ConfigFollows ==
    ASSUME "legacy" \notin RootFormats
    PROVE  Spec => []ConfigFollowsPassword
<1>1. LockoutInv => ConfigFollowsPassword
  BY DEF LockoutInv
<1> QED BY <1>1, LockoutKept, PTL

-----------------------------------------------------------------------------
(* What one step of a pass may touch: the page has no part in it, the other *)
(* passes stand still, and the database changes by a swap or by the rewrite *)
(* of a nested root key.                                                    *)
LEMMA PassEffect ==
    ASSUME NEW t \in Passes, PassStep(t)
    PROVE  /\ UNCHANGED <<flag, paired, current, page, rot, orphaned>>
           /\ \/ UNCHANGED db
              \/ /\ task[t].pc = "nested"
                 /\ db' = [db EXCEPT ![Root] = [fmt |-> "standard", pw |-> task[t].pw]]
              \/ task[t].pc = "casRow" /\ Matches(t, RowFields) /\ Write(t, RowFields)
              \/ task[t].pc = "casConfig" /\ Matches(t, ConfigFields) /\ Write(t, ConfigFields)
<1>1. CASE ReadFlag(t) \/ KeepNestedKey(t) \/ Enter(t) \/ ReadRow(t) \/ ReadConfig(t)
           \/ CheckRow(t) \/ CheckConfig(t) \/ Report(t)
  BY <1>1 DEF ReadFlag, KeepNestedKey, Enter, ReadRow, ReadConfig, CheckRow, CheckConfig,
              Report, pageVars
<1>2. CASE RewriteNestedKey(t) \/ CasRow(t) \/ CasConfig(t)
  BY <1>2 DEF RewriteNestedKey, CasRow, CasConfig, pageVars
<1> QED BY <1>1, <1>2 DEF PassStep

(* How a pass's own record moves: it goes idle, ends with what it planned   *)
(* or nothing, or takes one step keeping its password.                      *)
LEMMA PassRecord ==
    ASSUME TypeInv, NEW t \in Passes, PassStep(t)
    PROVE  /\ task[t].pc # "idle"
           /\ \A u \in Passes \ {t} : task'[u] = task[u]
           /\ \/ task'[t] = IdlePass
              \/ /\ task'[t].pw = task[t].pw
                 /\ \/ task'[t].mode = task[t].mode
                    \/ task[t].pc = "flag" /\ flag /\ task'[t].mode = "gpw2"
                 /\ flag /\ task[t].pc = "flag" => task'[t].mode = "gpw2"
                 /\ \/ task'[t].expected = task[t].expected
                    \/ task'[t].pc = "report" /\ task'[t].expected = NothingPlanned
                    \/ task[t].pc = "readRow" /\ ReadRow(t)
                    \/ task[t].pc = "readConfig" /\ ReadConfig(t)
<1>0. task \in [Passes -> Pass] /\ task[t] \in Pass /\ task[t].pc # "idle"
  BY DEF TypeInv, TypeOK, PassStep, ReadFlag, RewriteNestedKey, KeepNestedKey, Enter, ReadRow,
         ReadConfig, CasRow, CheckRow, CasConfig, CheckConfig, Report
<1>1. \A outcome, written :
         End(t, outcome, written) =>
           /\ \A u \in Passes \ {t} : task'[u] = task[u]
           /\ \/ task'[t] = IdlePass
              \/ /\ task'[t].pw = task[t].pw /\ task'[t].mode = task[t].mode
                 /\ task'[t].pc = "report"
                 /\ \/ task'[t].expected = task[t].expected
                    \/ task'[t].expected = NothingPlanned
  BY <1>0 DEF End, Reported, Pass
<1>2. \A pc : Goto(t, pc) =>
           /\ \A u \in Passes \ {t} : task'[u] = task[u]
           /\ task'[t].pw = task[t].pw /\ task'[t].mode = task[t].mode
           /\ task'[t].expected = task[t].expected
  BY <1>0 DEF Goto, Pass
<1>3. CASE ReadFlag(t)
  <2>1. CASE task' = [task EXCEPT ![t].pc = "queue", ![t].mode = "gpw2"] /\ flag
    BY <1>0, <1>3, <2>1 DEF ReadFlag, Pass
  <2>2. CASE task' = [task EXCEPT ![t] = IdlePass]
    BY <1>0, <2>2
  <2>3. CASE ~flag /\ (Goto(t, "nested") \/ Goto(t, "queue"))
    <3>1. /\ \A u \in Passes \ {t} : task'[u] = task[u]
          /\ task'[t].pw = task[t].pw /\ task'[t].mode = task[t].mode
          /\ task'[t].expected = task[t].expected
      BY <1>2, <2>3
    <3> QED BY <1>0, <1>3, <2>3, <3>1
  <2> QED BY <1>3, <2>1, <2>2, <2>3 DEF ReadFlag
<1>4. CASE RewriteNestedKey(t) \/ KeepNestedKey(t)
  BY <1>2, <1>4 DEF RewriteNestedKey, KeepNestedKey
<1>5. CASE Enter(t)
  BY <1>1, <1>2, <1>5 DEF Enter
<1>6. CASE ReadRow(t)
  <2>1. CASE \E plan : task' = [task EXCEPT ![t].pc = "readConfig", ![t].expected = plan]
    BY <1>0, <1>6, <2>1 DEF ReadRow, Pass
  <2>2. CASE \E outcome : End(t, outcome, FALSE)
    BY <1>1, <1>6, <2>2 DEF ReadRow
  <2> QED BY <1>6, <2>1, <2>2 DEF ReadRow
<1>7. CASE ReadConfig(t)
  <2>1. CASE \E pc \in {"casRow", "casConfig"} :
               task' = [task EXCEPT ![t].expected = PlanConfig(t), ![t].pc = pc]
    <3>1. /\ \A u \in Passes \ {t} : task'[u] = task[u]
          /\ task'[t].pw = task[t].pw /\ task'[t].mode = task[t].mode
      BY <1>0, <2>1 DEF Pass
    <3> QED BY <1>7, <3>1 DEF ReadConfig
  <2>2. CASE \E outcome : End(t, outcome, FALSE)
    BY <1>1, <1>7, <2>2 DEF ReadConfig
  <2> QED BY <1>7, <2>1, <2>2 DEF ReadConfig
<1>8. CASE CasRow(t) \/ CheckRow(t)
  BY <1>1, <1>2, <1>8 DEF CasRow, CheckRow
<1>9. CASE CasConfig(t) \/ CheckConfig(t)
  BY <1>1, <1>2, <1>9 DEF CasConfig, CheckConfig
<1>10. CASE Report(t)
  BY <1>0, <1>10 DEF Report
<1> QED BY <1>3, <1>4, <1>5, <1>6, <1>7, <1>8, <1>9, <1>10 DEF PassStep

(* What WalletBg's copy becomes in a step of a pass, and which passes get   *)
(* to a nested root key.                                                    *)
LEMMA PassMem ==
    ASSUME TypeInv, NEW t \in Passes, PassStep(t)
    PROVE  /\ \/ UNCHANGED mem
              \/ /\ task[t].pc = "nestedMem"
                 /\ mem' = [mem EXCEPT ![Root] = [fmt |-> "standard", pw |-> task[t].pw]]
              \/ /\ task[t].pc = "report"
                 /\ mem' = [f \in RowFields |->
                       IF task[t].written /\ f \in Planned(t, RowFields) THEN Sealed(t) ELSE mem[f]]
           /\ task'[t].pc \in {"nested", "nestedMem"} =>
                 \/ task[t].pc = "nested"
                 \/ ~flag /\ mem[Root].fmt = "legacy" /\ task[t].kind = "session"
<1>0. task \in [Passes -> Pass] /\ task[t] \in Pass
  BY DEF TypeInv, TypeOK
<1>1. \A outcome, written : End(t, outcome, written) => task'[t].pc \notin {"nested", "nestedMem"}
  BY <1>0, IdlePassType DEF End, Reported, Pass
<1>2. \A pc : Goto(t, pc) => task'[t].pc = pc
  BY <1>0 DEF Goto, Pass
<1>3. CASE ReadFlag(t)
  <2>1. CASE task' = [task EXCEPT ![t].pc = "queue", ![t].mode = "gpw2"]
    BY <1>0, <1>3, <2>1 DEF ReadFlag, Pass
  <2>2. CASE task' = [task EXCEPT ![t] = IdlePass]
    BY <1>0, <1>3, <2>2, IdlePassType DEF ReadFlag
  <2> QED BY <1>2, <1>3, <2>1, <2>2 DEF ReadFlag
<1>4. CASE ReadRow(t) \/ ReadConfig(t)
  <2>1. UNCHANGED mem
    BY <1>4 DEF ReadRow, ReadConfig
  <2>2. CASE \E plan, pc : /\ pc \notin {"nested", "nestedMem"}
                           /\ task' = [task EXCEPT ![t].pc = pc, ![t].expected = plan]
    <3> PICK plan, pc : /\ pc \notin {"nested", "nestedMem"}
                        /\ task' = [task EXCEPT ![t].pc = pc, ![t].expected = plan]
      BY <2>2
    <3>1. task'[t].pc = pc
      BY <1>0 DEF Pass
    <3> QED BY <2>1, <3>1
  <2>3. CASE \E pc : /\ pc \notin {"nested", "nestedMem"}
                     /\ task' = [task EXCEPT ![t].expected = PlanConfig(t), ![t].pc = pc]
    <3> PICK pc : /\ pc \notin {"nested", "nestedMem"}
                  /\ task' = [task EXCEPT ![t].expected = PlanConfig(t), ![t].pc = pc]
      BY <2>3
    <3>1. task'[t].pc = pc
      BY <1>0 DEF Pass
    <3> QED BY <2>1, <3>1
  <2>4. CASE \E outcome : End(t, outcome, FALSE)
    BY <1>1, <2>1, <2>4
  <2>5. CASE ReadRow(t)
    BY <2>2, <2>4, <2>5 DEF ReadRow
  <2>6. CASE ReadConfig(t)
    BY <2>3, <2>4, <2>6 DEF ReadConfig
  <2> QED BY <1>4, <2>5, <2>6
<1>5. CASE RewriteNestedKey(t) \/ KeepNestedKey(t)
  BY <1>2, <1>5 DEF RewriteNestedKey, KeepNestedKey
<1>6. CASE Enter(t) \/ CasRow(t) \/ CheckRow(t) \/ CasConfig(t) \/ CheckConfig(t)
  BY <1>1, <1>2, <1>6 DEF Enter, CasRow, CheckRow, CasConfig, CheckConfig
<1>7. CASE Report(t)
  BY <1>0, <1>7, IdlePassType DEF Report
<1> QED BY <1>3, <1>4, <1>5, <1>6, <1>7 DEF PassStep

(* A pass that is started keeps nothing of the one before it. *)
LEMMA Started ==
    ASSUME TypeInv, NEW t \in Passes, NEW p \in Passwords, Login(t, p) \/ UsePassword(t, p)
    PROVE  /\ \A u \in Passes \ {t} : task'[u] = task[u]
           /\ task'[t].pc = "flag" /\ task'[t].mode = "legacy" /\ task'[t].pw = p
           /\ task'[t].expected = NothingPlanned
           /\ UNCHANGED <<flag, paired, db, current, claim, page, rot, orphaned>>
<1>1. task \in [Passes -> Pass]
  BY DEF TypeInv, TypeOK
<1>2. CASE Login(t, p)
  BY <1>1, <1>2 DEF Login, IdlePass, pageVars
<1>3. CASE UsePassword(t, p)
  BY <1>1, <1>3 DEF UsePassword, IdlePass, pageVars
<1> QED BY <1>2, <1>3

(* A pass that would seal gpw2 is past the check of the key only for a      *)
(* mnemonic that derives it.                                                *)
Sealing == {"readConfig", "casRow", "checkRow", "casConfig", "checkConfig"}
Verified ==
    RowTexts # {} =>
        \A t \in Passes : task[t].mode = "gpw2" /\ task[t].pc \in Sealing => paired

LEMMA NextVerified ==
    ASSUME TypeInv, Verified, [Next]_vars
    PROVE  Verified'
<1> SUFFICES ASSUME RowTexts # {}, NEW u \in Passes, task'[u].mode = "gpw2",
                    task'[u].pc \in Sealing
             PROVE  paired'
  BY DEF Verified
<1>0. task \in [Passes -> Pass] /\ IdlePass.pc \notin Sealing
  BY IdlePassType DEF TypeInv, TypeOK, Sealing
<1>1. ASSUME NEW t \in Passes, NEW p \in Passwords, Login(t, p) \/ UsePassword(t, p)
      PROVE  paired'
  BY <1>1, Started DEF Verified, Sealing
<1>2. ASSUME NEW t \in Passes, PassStep(t) PROVE paired'
  <2>1. CASE u # t
    BY <1>2, <2>1, PassEffect, PassRecord DEF Verified
  <2>2. CASE u = t /\ task[t].pc \in Sealing
    BY <1>0, <1>2, <2>2, PassEffect, PassRecord DEF Verified, Sealing
  <2>3. CASE u = t /\ task[t].pc \notin Sealing
    <3>1. ReadRow(t)
      <4>1. \A outcome, written : End(t, outcome, written) => task'[t].pc \notin Sealing
        BY <1>0, IdlePassType DEF End, Reported, Pass, Sealing
      <4>2. \A pc : Goto(t, pc) => task'[t].pc = pc
        BY <1>0 DEF Goto, Pass
      <4>3. ~ReadFlag(t)
        <5>1. CASE task' = [task EXCEPT ![t].pc = "queue", ![t].mode = "gpw2"]
          BY <1>0, <2>3, <5>1 DEF Pass, Sealing
        <5> QED BY <1>0, <2>3, <4>2, <5>1 DEF ReadFlag, Sealing
      <4> QED BY <1>0, <1>2, <2>3, <4>1, <4>2, <4>3
              DEF PassStep, RewriteNestedKey, KeepNestedKey, Enter, ReadConfig, CasRow,
                  CheckRow, CasConfig, CheckConfig, Report, Sealing
    <3>2. ~Mismatch(t) /\ task'[t].mode = task[t].mode
      <4>1. \A outcome, written : End(t, outcome, written) => task'[t].pc \notin Sealing
        BY <1>0, IdlePassType DEF End, Reported, Pass, Sealing
      <4> QED BY <1>0, <2>3, <3>1, <4>1 DEF ReadRow, Pass
    <3>3. paired
      BY <2>3, <3>2 DEF Mismatch
    <3> QED BY <1>2, <3>3, PassEffect
  <2> QED BY <2>1, <2>2, <2>3
<1>3. ASSUME RotationStep PROVE paired'
  <2>1. UNCHANGED <<task, paired>>
    BY <1>3 DEF RotationStep, PrepareRow, PrepareConfig, RotateRow, RotateConfig, ReloadPage,
                RefreshWorker, workerVars
  <2> QED BY <2>1 DEF Verified
<1>4. ASSUME PageRefreshed \/ PageClosed \/ FlipFlag \/ UNCHANGED vars PROVE paired'
  BY <1>4 DEF PageRefreshed, PageClosed, FlipFlag, vars, Verified, workerVars
<1>5. ASSUME WorkerKilled PROVE paired'
  BY <1>0, <1>5 DEF WorkerKilled
<1> QED BY <1>1, <1>2, <1>3, <1>4, <1>5 DEF Next

(* The gate of the upgrade, for every number of passes and however the flag *)
(* moves: with a mnemonic that does not derive the root key no pass writes  *)
(* gpw2.                                                                    *)
THEOREM GateHolds == Spec => EquivalenceGate
<1>1. Init => Verified
  BY IdlePassType DEF Init, Verified, Sealing
<1>2. TypeInv /\ Verified /\ [Next]_vars => Verified'
  BY NextVerified
<1>3. ASSUME TypeInv, Verified, [Next]_vars
      PROVE  [~paired /\ RowTexts # {} /\ rot' = rot
                => \A f \in Fields : db'[f].fmt = "gpw2" => db[f].fmt = "gpw2"]_vars
  <2> SUFFICES ASSUME ~paired, RowTexts # {}, rot' = rot, ~UNCHANGED vars,
                      NEW f \in Fields, db'[f].fmt = "gpw2"
               PROVE  db[f].fmt = "gpw2"
    OBVIOUS
  <2>1. CASE UNCHANGED db
    BY <2>1
  <2>2. ASSUME NEW t \in Passes, PassStep(t) PROVE db[f].fmt = "gpw2"
    <3>1. CASE task[t].pc = "nested"
               /\ db' = [db EXCEPT ![Root] = [fmt |-> "standard", pw |-> task[t].pw]]
      BY <1>3, <3>1 DEF TypeInv, TypeOK
    <3>2. CASE task[t].pc \in {"casRow", "casConfig"}
               /\ \E F \in {RowFields, ConfigFields} : Write(t, F)
      <4>1. Sealed(t).fmt = "standard"
        BY <1>3, <3>2 DEF Verified, Sealing, Sealed
      <4> QED BY <3>2, <4>1 DEF Write
    <3> QED BY <2>1, <2>2, <3>1, <3>2, PassEffect
  <2>3. ~RotateRow /\ ~RotateConfig
    <3>1. rot \in Rotation /\ [NoRotation EXCEPT !.pc = "committed"].pc = "committed"
      BY <1>3, NoRotationType DEF TypeInv, TypeOK, Rotation
    <3>2. [rot EXCEPT !.pc = "written"].pc = "written"
      BY <3>1 DEF Rotation
    <3> QED BY <3>1, <3>2, NoRotationType DEF RotateRow, RotateConfig
  <2>4. ASSUME NEW t \in Passes, NEW p \in Passwords, Login(t, p) \/ UsePassword(t, p)
        PROVE  UNCHANGED db
    BY <2>4 DEF Login, UsePassword
  <2>5. ASSUME RotationStep \/ PageRefreshed \/ PageClosed \/ WorkerKilled \/ FlipFlag
        PROVE  UNCHANGED db
    BY <2>3, <2>5 DEF RotationStep, PrepareRow, PrepareConfig, ReloadPage, RefreshWorker,
                      PageRefreshed, PageClosed, WorkerKilled, FlipFlag
  <2> QED BY <1>3, <2>1, <2>2, <2>4, <2>5 DEF Next
<1> QED BY <1>1, <1>2, <1>3, TypeCorrect, PTL DEF Spec, EquivalenceGate

-----------------------------------------------------------------------------
(* With the flag standing still, every writer is in step with it.           *)
Obedient(t) ==
    /\ ~flag => task[t].mode = "legacy"
    /\ flag => task[t].pc \in {"idle", "flag"} \/ task[t].mode = "gpw2"
    /\ flag => task[t].pc \notin {"nested", "nestedMem"}

(* What a password change is about to store is never weak. *)
PlansStrong ==
    /\ \A f \in RowFields : rot.row[f] # "legacy" /\ (flag => rot.row[f] = "gpw2")
    /\ \A f \in ConfigFields : /\ rot.config[f] # "legacy"
                               /\ flag => rot.config[f] \in {"none", "gpw2"}

(* With the flag off no field enters or leaves gpw2, so every copy of the   *)
(* row and every plan, however stale, agrees with it on which fields are.   *)
Agrees(fmt, f) == fmt = "gpw2" <=> db[f].fmt = "gpw2"
CopiesAgree ==
    \A f \in RowFields :
        /\ Agrees(page[f].fmt, f)
        /\ mem # NoMem => Agrees(mem[f].fmt, f)
        /\ rot.pc \in {"prepared", "ready"} => Agrees(rot.row[f], f)
PlansAgree ==
    /\ \A f \in ConfigFields : rot.config[f] # "none" => Agrees(rot.config[f], f)
    /\ \A t \in Passes :
          /\ \A f \in Fields : task[t].expected[f] # "none" => db[f].fmt # "gpw2"
          /\ task[t].pc \in {"nested", "nestedMem"} => db[Root].fmt # "gpw2"
FlagStands ==
    /\ \A t \in Passes : Obedient(t)
    /\ PlansStrong
    /\ ~flag => CopiesAgree /\ PlansAgree

(* Every writer moves the formats forward: to gpw2 under the flag, out of   *)
(* the legacy formats and no further without it.                            *)
Forward(f) ==
    /\ flag => db'[f].fmt \in {db[f].fmt, "gpw2"}
    /\ ~flag => (db'[f].fmt = "gpw2" <=> db[f].fmt = "gpw2")
    /\ db'[f].fmt = "legacy" => db[f].fmt = "legacy"

LEMMA NextForward ==
    ASSUME TypeInv, FlagStands, [Next]_vars
    PROVE  \A f \in Fields : Forward(f)
<1> SUFFICES ASSUME NEW f \in Fields PROVE Forward(f)
  OBVIOUS
<1>0. /\ db \in [Fields -> Blob] /\ RowFields \cap ConfigFields = {}
      /\ Fields = RowFields \cup ConfigFields /\ Root \in RowFields
  BY FieldsAssumption DEF TypeInv, TypeOK, Fields, RowFields, ConfigFields
<1>1. CASE UNCHANGED db
  BY <1>1 DEF Forward
<1>2. ASSUME NEW t \in Passes, PassStep(t) PROVE Forward(f)
  <2>1. CASE task[t].pc = "nested"
             /\ db' = [db EXCEPT ![Root] = [fmt |-> "standard", pw |-> task[t].pw]]
    <3>1. ~flag /\ db[Root].fmt # "gpw2"
      BY <2>1 DEF FlagStands, Obedient, PlansAgree
    <3> QED BY <1>0, <2>1, <3>1 DEF Forward
  <2>2. ASSUME NEW F \in {RowFields, ConfigFields}, Matches(t, F), Write(t, F),
               task[t].pc \in {"casRow", "casConfig"}
        PROVE  Forward(f)
    <3>1. CASE f \in Planned(t, F)
      <4>1. db'[f].fmt = IF flag THEN "gpw2" ELSE "standard"
        BY <2>2, <3>1 DEF Write, Sealed, FlagStands, Obedient
      <4>2. ~flag => db[f].fmt # "gpw2"
        BY <3>1 DEF FlagStands, PlansAgree, Planned
      <4> QED BY <4>1, <4>2 DEF Forward
    <3>2. CASE f \notin Planned(t, F)
      BY <2>2, <3>2 DEF Write, Forward
    <3> QED BY <3>1, <3>2
  <2> QED BY <1>1, <1>2, <2>1, <2>2, PassEffect
<1>3. ASSUME RotateRow PROVE Forward(f)
  <2>1. CASE /\ rot.pc = "ready" /\ f \in RowFields
             /\ db' = [g \in Fields |-> IF g \in RowFields
                                        THEN [fmt |-> rot.row[g], pw |-> rot.new] ELSE db[g]]
    BY <2>1 DEF FlagStands, PlansStrong, CopiesAgree, Agrees, Forward
  <2>2. CASE db'[f] = db[f]
    BY <2>2 DEF Forward
  <2> QED BY <1>1, <1>3, <2>1, <2>2 DEF RotateRow
<1>4. ASSUME RotateConfig PROVE Forward(f)
  <2>1. CASE /\ f \in ConfigFields /\ rot.config[f] # "none"
             /\ db' = [g \in Fields |-> IF g \in ConfigFields /\ rot.config[g] # "none"
                                        THEN [fmt |-> rot.config[g], pw |-> rot.new] ELSE db[g]]
    BY <2>1 DEF FlagStands, PlansStrong, PlansAgree, Agrees, Forward
  <2>2. CASE db'[f] = db[f]
    BY <2>2 DEF Forward
  <2> QED BY <1>1, <1>4, <2>1, <2>2 DEF RotateConfig
<1>5. ASSUME NEW t \in Passes, NEW p \in Passwords, Login(t, p) \/ UsePassword(t, p)
      PROVE  UNCHANGED db
  BY <1>5 DEF Login, UsePassword
<1>6. ASSUME NEW old \in Passwords, NEW new \in Passwords, PrepareRow(old, new)
      PROVE  UNCHANGED db
  BY <1>6 DEF PrepareRow
<1>7. ASSUME \/ PrepareConfig \/ ReloadPage \/ RefreshWorker \/ PageRefreshed \/ PageClosed
             \/ WorkerKilled \/ FlipFlag \/ UNCHANGED vars
      PROVE  UNCHANGED db
  BY <1>7 DEF PrepareConfig, ReloadPage, RefreshWorker, PageRefreshed, PageClosed, WorkerKilled,
              FlipFlag, vars
<1> QED BY <1>1, <1>2, <1>3, <1>4, <1>5, <1>6, <1>7 DEF Next, RotationStep

LEMMA NextObedient ==
    ASSUME FlagFlips = FALSE, TypeInv, FlagStands, [Next]_vars
    PROVE  UNCHANGED flag /\ \A t \in Passes : Obedient(t)'
<1>0. /\ IdlePass.mode = "legacy" /\ IdlePass.pc = "idle"
      /\ \A t \in Passes : Obedient(t)
  BY IdlePassType DEF IdlePass, FlagStands
<1>1. ASSUME NEW t \in Passes, PassStep(t)
      PROVE  UNCHANGED flag /\ \A u \in Passes : Obedient(u)'
  <2>1. UNCHANGED flag
    BY <1>1, PassEffect
  <2>2. ASSUME NEW u \in Passes \ {t} PROVE Obedient(u)'
    BY <1>0, <1>1, <2>1, <2>2, PassRecord DEF Obedient
  <2>3. Obedient(t)'
    BY <1>0, <1>1, <2>1, PassRecord, PassMem DEF Obedient
  <2> QED BY <2>1, <2>2, <2>3
<1>2. ASSUME NEW t \in Passes, NEW p \in Passwords, Login(t, p) \/ UsePassword(t, p)
      PROVE  UNCHANGED flag /\ \A u \in Passes : Obedient(u)'
  <2>1. UNCHANGED flag /\ Obedient(t)'
    BY <1>2, Started DEF Obedient
  <2>2. ASSUME NEW u \in Passes \ {t} PROVE Obedient(u)'
    BY <1>0, <1>2, <2>2, Started DEF Obedient
  <2> QED BY <2>1, <2>2
<1>3. ASSUME WorkerKilled
      PROVE  UNCHANGED flag /\ \A u \in Passes : Obedient(u)'
  BY <1>0, <1>3 DEF WorkerKilled, Obedient
<1>4. CASE UNCHANGED <<flag, task>>
  BY <1>0, <1>4 DEF Obedient
<1>5. ASSUME NEW old \in Passwords, NEW new \in Passwords, PrepareRow(old, new)
      PROVE  UNCHANGED <<flag, task>>
  BY <1>5 DEF PrepareRow, workerVars
<1>6. ASSUME \/ PrepareConfig \/ RotateRow \/ RotateConfig \/ ReloadPage \/ RefreshWorker
             \/ PageRefreshed \/ PageClosed \/ UNCHANGED vars
      PROVE  UNCHANGED <<flag, task>>
  BY <1>6 DEF PrepareConfig, RotateRow, RotateConfig, ReloadPage, RefreshWorker, PageRefreshed,
              PageClosed, vars, workerVars
<1>7. ~FlipFlag
  BY DEF FlipFlag
<1> QED BY <1>1, <1>2, <1>3, <1>4, <1>5, <1>6, <1>7 DEF Next, RotationStep

LEMMA NextPlansStrong ==
    ASSUME FlagFlips = FALSE, TypeInv, FlagStands, [Next]_vars
    PROVE  PlansStrong'
<1>0. UNCHANGED flag /\ PlansStrong /\ rot \in Rotation /\ NoRotation \in Rotation
  BY NextObedient, NoRotationType DEF FlagStands, TypeInv, TypeOK
<1>1. CASE rot'.row = rot.row /\ rot'.config = rot.config
  BY <1>0, <1>1 DEF PlansStrong
<1>2. \A r : rot' = [NoRotation EXCEPT !.pc = r] => PlansStrong'
  BY DEF NoRotation, PlansStrong
<1>3. rot' = NoRotation => PlansStrong'
  BY DEF NoRotation, PlansStrong
<1>4. \A blob : Reseal(blob) # "legacy" /\ (flag => Reseal(blob) = "gpw2")
  BY DEF Reseal
<1>5. ASSUME NEW old \in Passwords, NEW new \in Passwords, PrepareRow(old, new) PROVE PlansStrong'
  <2>1. /\ rot'.row = [f \in RowFields |-> Reseal(page[f])]
        /\ rot'.config = [f \in ConfigFields |-> "none"]
    BY <1>5 DEF PrepareRow, NoRotation
  <2> QED BY <1>0, <1>4, <2>1 DEF PlansStrong
<1>6. ASSUME PrepareConfig PROVE PlansStrong'
  <2>1. CASE rot' = [rot EXCEPT !.pc = "ready"]
    BY <1>0, <1>1, <2>1 DEF Rotation
  <2>2. CASE rot' = [rot EXCEPT !.pc = "ready",
                         !.config = [f \in ConfigFields |->
                             IF db[f].pw = rot.old THEN Reseal(db[f]) ELSE "none"]]
    <3>1. /\ rot'.row = rot.row
          /\ rot'.config = [f \in ConfigFields |->
                               IF db[f].pw = rot.old THEN Reseal(db[f]) ELSE "none"]
      BY <1>0, <2>2 DEF Rotation
    <3> QED BY <1>0, <1>4, <3>1 DEF PlansStrong
  <2> QED BY <1>6, <2>1, <2>2 DEF PrepareConfig
<1>7. ASSUME RotateRow \/ RotateConfig \/ ReloadPage \/ RefreshWorker \/ PageClosed PROVE PlansStrong'
  <2>1. CASE \E pc : rot' = [rot EXCEPT !.pc = pc]
    BY <1>0, <1>1, <2>1 DEF Rotation
  <2> QED BY <1>2, <1>3, <1>7, <2>1 DEF RotateRow, RotateConfig, ReloadPage, RefreshWorker, PageClosed
<1>8. ASSUME NEW t \in Passes, PassStep(t) PROVE PlansStrong'
  BY <1>1, <1>8, PassEffect
<1>9. ASSUME NEW t \in Passes, NEW p \in Passwords, Login(t, p) \/ UsePassword(t, p) PROVE PlansStrong'
  BY <1>1, <1>9, Started
<1>10. ASSUME PageRefreshed \/ WorkerKilled \/ FlipFlag \/ UNCHANGED vars PROVE PlansStrong'
  BY <1>1, <1>10 DEF PageRefreshed, WorkerKilled, FlipFlag, vars, pageVars
<1> QED BY <1>5, <1>6, <1>7, <1>8, <1>9, <1>10 DEF Next, RotationStep

(* What copies and plans take from the database, they take unweakened. *)
LEMMA ResealAgrees ==
    ASSUME ~flag, NEW blob PROVE Reseal(blob) = "gpw2" <=> blob.fmt = "gpw2"
BY DEF Reseal

LEMMA NextAgrees ==
    ASSUME FlagFlips = FALSE, TypeInv, FlagStands, [Next]_vars, ~flag
    PROVE  CopiesAgree' /\ PlansAgree'
<1>0. /\ RowFields \subseteq Fields /\ ConfigFields \subseteq Fields /\ Root \in RowFields
      /\ RowFields \cap ConfigFields = {}
  BY FieldsAssumption DEF Fields, RowFields, ConfigFields
<1>1. \A f \in Fields : db'[f].fmt = "gpw2" <=> db[f].fmt = "gpw2"
  BY NextForward DEF Forward
<1>2. CopiesAgree /\ PlansAgree /\ rot \in Rotation /\ task \in [Passes -> Pass]
  BY DEF FlagStands, TypeInv, TypeOK
<1>3. \A f \in Fields : \A fmt : Agrees(fmt, f)' <=> Agrees(fmt, f)
  BY <1>1 DEF Agrees
<1>4. ASSUME NEW t \in Passes, PassStep(t) PROVE CopiesAgree' /\ PlansAgree'
  <2>1. UNCHANGED <<page, rot>>
    BY <1>4, PassEffect
  <2>2. ASSUME mem' # NoMem, NEW f \in RowFields PROVE Agrees(mem'[f].fmt, f)
    <3>1. CASE UNCHANGED mem
      BY <1>2, <2>2, <3>1 DEF CopiesAgree
    <3>2. CASE /\ task[t].pc = "nestedMem"
               /\ mem' = [mem EXCEPT ![Root] = [fmt |-> "standard", pw |-> task[t].pw]]
      <4>1. mem \in [RowFields -> Blob] /\ mem # NoMem
        BY <3>2, NonesAssumption DEF TypeInv, TypeOK, Kinds
      <4>2. db[Root].fmt # "gpw2" /\ Agrees(mem[f].fmt, f)
        BY <1>2, <3>2, <4>1 DEF PlansAgree, CopiesAgree
      <4> QED BY <3>2, <4>1, <4>2 DEF Agrees
    <3>3. CASE /\ task[t].pc = "report"
               /\ mem' = [g \in RowFields |->
                    IF task[t].written /\ g \in Planned(t, RowFields) THEN Sealed(t) ELSE mem[g]]
      <4>1. mem # NoMem
        BY <3>3 DEF TypeInv, Kinds
      <4>2. Agrees(mem[f].fmt, f)
        BY <1>2, <4>1 DEF CopiesAgree
      <4>3. CASE f \in Planned(t, RowFields) /\ mem'[f] = Sealed(t)
        <5>1. Sealed(t).fmt = "standard"
          BY DEF Sealed, FlagStands, Obedient
        <5>2. db[f].fmt # "gpw2"
          BY <1>0, <1>2, <4>3 DEF Planned, PlansAgree
        <5> QED BY <4>3, <5>1, <5>2 DEF Agrees
      <4> QED BY <3>3, <4>2, <4>3
    <3> QED BY <1>4, <3>1, <3>2, <3>3, PassMem
  <2>3. CopiesAgree'
    BY <1>0, <1>2, <1>3, <2>1, <2>2 DEF CopiesAgree
  <2>4. ASSUME NEW u \in Passes
        PROVE  /\ \A f \in Fields : task'[u].expected[f] # "none" => db[f].fmt # "gpw2"
               /\ task'[u].pc \in {"nested", "nestedMem"} => db[Root].fmt # "gpw2"
    <3>1. CASE u # t
      BY <1>2, <1>4, <3>1, PassRecord DEF PlansAgree
    <3>2. CASE u = t
      <4>1. task'[t].pc \in {"nested", "nestedMem"} => db[Root].fmt # "gpw2"
        <5>1. mem[Root].fmt = "legacy" /\ task[t].kind = "session" => db[Root].fmt # "gpw2"
          BY <1>0, <1>2 DEF CopiesAgree, Agrees, TypeInv, Kinds
        <5> QED BY <1>2, <1>4, <5>1, PassMem DEF PlansAgree
      <4>2. CASE task'[t].expected \in {task[t].expected, NothingPlanned}
        BY <1>2, <3>2, <4>1, <4>2 DEF PlansAgree, NothingPlanned
      <4>3. CASE task'[t] = IdlePass
        BY <3>2, <4>1, <4>3 DEF IdlePass, NothingPlanned
      <4>4. \A f : ~NeedsUpgrade("legacy", f, db[f]) \/ db[f].fmt = "legacy"
        BY DEF NeedsUpgrade
      <4>5. task[t].mode = "legacy"
        BY DEF FlagStands, Obedient
      <4>6. CASE ReadRow(t)
        <5> DEFINE plan == [f \in Fields |->
                              IF f \in RowFields /\ NeedsUpgrade(task[t].mode, f, db[f])
                              THEN db[f].fmt ELSE "none"]
        <5>1. CASE task'[t].expected = plan
          BY <3>2, <4>1, <4>4, <4>5, <5>1
        <5>2. CASE \E outcome : End(t, outcome, FALSE)
          <6>1. task'[t] = IdlePass \/ task'[t].expected = NothingPlanned
            BY <1>2, <5>2 DEF End, Reported, Pass
          <6> QED BY <4>2, <4>3, <6>1
        <5>3. task' = [task EXCEPT ![t].pc = "readConfig", ![t].expected = plan]
                => task'[t].expected = plan
          BY <1>2 DEF Pass
        <5> QED BY <4>6, <5>1, <5>2, <5>3 DEF ReadRow
      <4>7. CASE ReadConfig(t)
        <5>1. CASE task'[t].expected = PlanConfig(t)
          <6>1. \A f \in Fields : PlanConfig(t)[f] # "none" => db[f].fmt # "gpw2"
            BY <1>2, <4>4, <4>5 DEF PlanConfig, PlansAgree
          <6> QED BY <3>2, <4>1, <5>1, <6>1
        <5>2. CASE \E outcome : End(t, outcome, FALSE)
          <6>1. task'[t] = IdlePass \/ task'[t].expected = NothingPlanned
            BY <1>2, <5>2 DEF End, Reported, Pass
          <6> QED BY <4>2, <4>3, <6>1
        <5>3. \A pc : task' = [task EXCEPT ![t].expected = PlanConfig(t), ![t].pc = pc]
                => task'[t].expected = PlanConfig(t)
          BY <1>2 DEF Pass
        <5> QED BY <4>7, <5>1, <5>2, <5>3 DEF ReadConfig
      <4> QED BY <1>4, <4>2, <4>3, <4>6, <4>7, PassRecord
    <3> QED BY <3>1, <3>2
  <2>5. PlansAgree'
    BY <1>0, <1>1, <1>2, <1>3, <2>1, <2>4 DEF PlansAgree
  <2> QED BY <2>3, <2>5
<1>5. ASSUME UNCHANGED task
      PROVE  \A t \in Passes :
                /\ \A f \in Fields : task'[t].expected[f] # "none" => db'[f].fmt # "gpw2"
                /\ task'[t].pc \in {"nested", "nestedMem"} => db'[Root].fmt # "gpw2"
  BY <1>0, <1>1, <1>2, <1>5 DEF PlansAgree
<1>6. ASSUME NEW copy, copy = Row(db) PROVE \A f \in RowFields : Agrees(copy[f].fmt, f)
  BY <1>6 DEF Row, Agrees
<1>7. ASSUME NEW t \in Passes, NEW p \in Passwords, Login(t, p) \/ UsePassword(t, p)
      PROVE  CopiesAgree' /\ PlansAgree'
  <2>1. UNCHANGED <<page, rot, db>> /\ mem' \in {mem, Row(db)}
    BY <1>7, Started DEF Login, UsePassword
  <2>2. CopiesAgree'
    BY <1>2, <1>3, <1>6, <2>1 DEF CopiesAgree, Row, Agrees
  <2>3. PlansAgree'
    BY <1>2, <1>3, <1>7, <2>1, Started DEF PlansAgree, NothingPlanned, Agrees
  <2> QED BY <2>2, <2>3
<1>8. ASSUME NEW old \in Passwords, NEW new \in Passwords, PrepareRow(old, new)
      PROVE  CopiesAgree' /\ PlansAgree'
  <2>1. /\ UNCHANGED <<page, mem, db, task>>
        /\ rot'.row = [f \in RowFields |-> Reseal(page[f])]
        /\ rot'.config = [f \in ConfigFields |-> "none"]
    BY <1>8 DEF PrepareRow, NoRotation, workerVars
  <2>2. CopiesAgree'
    BY <1>2, <2>1, ResealAgrees DEF CopiesAgree, Agrees
  <2> QED BY <1>5, <2>1, <2>2 DEF PlansAgree
<1>9. ASSUME PrepareConfig PROVE CopiesAgree' /\ PlansAgree'
  <2>1. /\ UNCHANGED <<page, mem, db, task>> /\ rot.pc = "prepared" /\ rot'.row = rot.row
        /\ \/ rot'.config = rot.config
           \/ rot'.config = [f \in ConfigFields |->
                                IF db[f].pw = rot.old THEN Reseal(db[f]) ELSE "none"]
    BY <1>2, <1>9 DEF PrepareConfig, Rotation, workerVars
  <2>2. CopiesAgree'
    BY <1>2, <2>1 DEF CopiesAgree, Agrees
  <2>3. \A f \in ConfigFields : rot'.config[f] # "none" => Agrees(rot'.config[f], f)
    BY <1>2, <2>1, ResealAgrees DEF PlansAgree, Agrees
  <2> QED BY <1>5, <2>1, <2>2, <2>3 DEF PlansAgree, Agrees
<1>10. ASSUME UNCHANGED task, page' \in {page, Row(db)}, mem' \in {mem, Row(db), NoMem},
              rot'.pc \notin {"prepared", "ready"},
              \A f \in ConfigFields : rot'.config[f] \in {"none", rot.config[f]}
       PROVE  CopiesAgree' /\ PlansAgree'
  <2>1. \A f \in RowFields : Agrees(page'[f].fmt, f)
    BY <1>2, <1>6, <1>10 DEF CopiesAgree
  <2>2. ASSUME mem' # NoMem, NEW f \in RowFields PROVE Agrees(mem'[f].fmt, f)
    BY <1>2, <1>6, <1>10, <2>2 DEF CopiesAgree
  <2>3. \A f \in ConfigFields : rot'.config[f] # "none" => Agrees(rot'.config[f], f)
    BY <1>2, <1>10 DEF PlansAgree
  <2> QED BY <1>0, <1>1, <1>5, <1>10, <2>1, <2>2, <2>3 DEF CopiesAgree, PlansAgree, Agrees
<1>11. ASSUME RotateRow \/ RotateConfig \/ ReloadPage \/ RefreshWorker \/ PageClosed
       PROVE  CopiesAgree' /\ PlansAgree'
  <2>1. /\ rot'.pc \notin {"prepared", "ready"}
        /\ \A f \in ConfigFields : rot'.config[f] \in {"none", rot.config[f]}
    <3>1. CASE rot' = [rot EXCEPT !.pc = "written"] \/ rot' = [rot EXCEPT !.pc = "reloaded"]
      BY <1>2, <3>1 DEF Rotation
    <3>2. CASE rot' = NoRotation \/ rot' = [NoRotation EXCEPT !.pc = "committed"]
      BY <3>2 DEF NoRotation
    <3> QED BY <1>11, <3>1, <3>2 DEF RotateRow, RotateConfig, ReloadPage, RefreshWorker, PageClosed
  <2>2. UNCHANGED task /\ page' \in {page, Row(db)} /\ mem' \in {mem, Row(db), NoMem}
    BY <1>11 DEF RotateRow, RotateConfig, ReloadPage, RefreshWorker, PageClosed, workerVars
  <2> QED BY <1>10, <2>1, <2>2
<1>12. ASSUME PageRefreshed \/ UNCHANGED vars PROVE CopiesAgree' /\ PlansAgree'
  <2>1. UNCHANGED <<db, mem, task, rot>> /\ page' \in {page, Row(db)}
    BY <1>12 DEF PageRefreshed, vars, workerVars
  <2> QED BY <1>2, <1>6, <2>1 DEF CopiesAgree, PlansAgree, Agrees, Row
<1>13. ASSUME WorkerKilled PROVE CopiesAgree' /\ PlansAgree'
  <2>1. /\ UNCHANGED <<db, page, rot>> /\ mem' = NoMem
        /\ task' = [t \in Passes |-> IdlePass]
    BY <1>13 DEF WorkerKilled, pageVars
  <2>2. IdlePass.pc = "idle" /\ IdlePass.expected = NothingPlanned
    BY DEF IdlePass
  <2> QED BY <1>2, <2>1, <2>2 DEF CopiesAgree, PlansAgree, Agrees, NothingPlanned
<1>14. ~FlipFlag
  BY DEF FlipFlag
<1> QED BY <1>4, <1>7, <1>8, <1>9, <1>11, <1>12, <1>13, <1>14 DEF Next, RotationStep

LEMMA InitFlagStands == Init => FlagStands
<1> SUFFICES ASSUME Init PROVE FlagStands
  OBVIOUS
<1>1. \A t \in Passes : Obedient(t)
  BY IdlePassType DEF Init, Obedient, IdlePass
<1>2. PlansStrong
  BY DEF Init, PlansStrong, NoRotation
<1>3. CopiesAgree /\ PlansAgree
  BY IdlePassType DEF Init, CopiesAgree, PlansAgree, Agrees, Row, NoRotation, IdlePass, NothingPlanned
<1> QED BY <1>1, <1>2, <1>3 DEF FlagStands

LEMMA NextFlagStands ==
    ASSUME FlagFlips = FALSE, TypeInv, FlagStands, [Next]_vars
    PROVE  FlagStands'
<1>1. UNCHANGED flag /\ \A t \in Passes : Obedient(t)'
  BY NextObedient
<1>2. PlansStrong'
  BY NextPlansStrong
<1>3. ~flag => CopiesAgree' /\ PlansAgree'
  BY NextAgrees
<1> QED BY <1>1, <1>2, <1>3 DEF FlagStands

LEMMA FlagStandsKept ==
    ASSUME FlagFlips = FALSE
    PROVE  Spec => [](TypeInv /\ FlagStands)
<1>1. TypeInv /\ FlagStands /\ [Next]_vars => FlagStands'
  BY NextFlagStands
<1> QED BY <1>1, InitType, NextType, InitFlagStands, PTL DEF Spec

(* While the flag stands no writer weakens what is stored: not a pass,      *)
(* not the rewrite of a nested key outside their mutex, not the password    *)
(* change of a page that planned on a stale copy.                           *)
THEOREM FormatsOnlyRise ==
    ASSUME FlagFlips = FALSE
    PROVE  Spec => NoDowngrade
<1>1. ASSUME TypeInv, FlagStands, [Next]_vars
      PROVE  [\A f \in Fields : Rank(db'[f].fmt) >= Rank(db[f].fmt)]_vars
  <2>1. ASSUME NEW f \in Fields PROVE Rank(db'[f].fmt) >= Rank(db[f].fmt)
    <3>1. Forward(f)
      BY <1>1, NextForward
    <3>2. db[f].fmt \in Formats /\ db'[f].fmt \in Formats
      BY <1>1, NextType, BlobType DEF TypeInv, TypeOK
    <3> QED BY <3>1, <3>2 DEF Forward, Rank, Formats
  <2> QED BY <2>1
<1> QED BY <1>1, FlagStandsKept, PTL DEF Spec, NoDowngrade

-----------------------------------------------------------------------------
(* What a session may forget to check: the fields an upgrade is still due   *)
(* for.  A config field that a change is about to reach is not open between *)
(* the change's two databases: it does not open with the new password.      *)
Weak(f) == NeedsUpgrade(IF flag THEN "gpw2" ELSE "legacy", f, db[f])
Neglected == {f \in ConfigFields \ orphaned : Weak(f)}
Open == {f \in RowFields : Weak(f)} \cup (IF rot.pc = "written" THEN {} ELSE Neglected)

(* A config field that is still weak was never carried along by a change,   *)
(* so no change was completed: every password in sight is the first one.    *)
Untouched ==
    /\ current = FirstPassword
    /\ \A f \in RowFields : /\ db[f].pw = FirstPassword /\ page[f].pw = FirstPassword
                            /\ mem # NoMem => mem[f].pw = FirstPassword
    /\ \A t \in Passes : task[t].pw = FirstPassword
    /\ rot.pc \in {"idle", "prepared", "ready"}
    /\ rot.pc # "idle" => rot.old = FirstPassword /\ rot.new # FirstPassword
FirstChange ==
    \A f \in Neglected : /\ db[f].pw = FirstPassword
                         /\ rot.pc = "written" => current # FirstPassword
                         /\ rot.pc # "written" => Untouched

(* What a pass has seen so far covers all that is open. *)
Covers(t) ==
    /\ task[t].pc = "readConfig" => Open \cap RowFields \subseteq Planned(t, RowFields)
    /\ task[t].pc = "casRow" => Open \subseteq Planned(t, Fields)
    /\ task[t].pc \in {"checkRow", "casConfig"} => Open \subseteq Planned(t, ConfigFields)
    /\ task[t].pc = "checkConfig" => Open = {}
    /\ task[t].pc = "report" /\ task[t].done => Open = {}
Claimed ==
    /\ claim # "none" => Open = {}
    /\ claim = "gpw2" => flag
    /\ claim = "standard" => ~flag

LEMMA FieldSets ==
    /\ RowFields \subseteq Fields /\ ConfigFields \subseteq Fields /\ Root \in RowFields
    /\ RowFields \cap ConfigFields = {} /\ Fields = RowFields \cup ConfigFields
BY FieldsAssumption DEF Fields, RowFields, ConfigFields

LEMMA WeakShrinks ==
    ASSUME FlagFlips = FALSE, TypeInv, FlagStands, [Next]_vars
    PROVE  /\ \A f \in Fields : Weak(f)' => Weak(f)
           /\ Neglected' \subseteq Neglected
<1>1. ASSUME NEW f \in Fields, Weak(f)' PROVE Weak(f)
  <2>1. UNCHANGED flag /\ Forward(f)
    BY NextObedient, NextForward
  <2>2. CASE flag
    BY <1>1, <2>1, <2>2 DEF Weak, NeedsUpgrade, Forward
  <2>3. CASE ~flag
    BY <1>1, <2>1, <2>3 DEF Weak, NeedsUpgrade, Forward
  <2> QED BY <2>2, <2>3
<1>2. orphaned \subseteq orphaned'
  <2>1. CASE RotateConfig \/ PageClosed
    BY <2>1 DEF RotateConfig, PageClosed
  <2>2. ASSUME NEW t \in Passes, PassStep(t) PROVE UNCHANGED orphaned
    BY <2>2, PassEffect
  <2>3. ASSUME NEW t \in Passes, NEW p \in Passwords, Login(t, p) \/ UsePassword(t, p)
        PROVE  UNCHANGED orphaned
    BY <2>3, Started
  <2>4. ASSUME NEW old \in Passwords, NEW new \in Passwords, PrepareRow(old, new)
        PROVE  UNCHANGED orphaned
    BY <2>4 DEF PrepareRow
  <2>5. CASE PrepareConfig \/ RotateRow \/ ReloadPage \/ RefreshWorker \/ PageRefreshed
             \/ WorkerKilled \/ FlipFlag \/ UNCHANGED vars
    BY <2>5 DEF PrepareConfig, RotateRow, ReloadPage, RefreshWorker, PageRefreshed, WorkerKilled,
                FlipFlag, vars, pageVars
  <2> QED BY <2>1, <2>2, <2>3, <2>4, <2>5 DEF Next, RotationStep
<1> QED BY <1>1, <1>2, FieldSets DEF Neglected

(* Only the second database of a change reseals a config field under        *)
(* another password.                                                        *)
LEMMA ConfigPasswords ==
    ASSUME TypeInv, [Next]_vars, ~RotateConfig
    PROVE  \A f \in ConfigFields : db'[f].pw = db[f].pw
<1> USE FieldSets
<1>0. db \in [Fields -> Blob]
  BY DEF TypeInv, TypeOK
<1>1. ASSUME NEW t \in Passes, PassStep(t) PROVE \A f \in ConfigFields : db'[f].pw = db[f].pw
  <2>1. CASE db' = [db EXCEPT ![Root] = [fmt |-> "standard", pw |-> task[t].pw]]
    BY <1>0, <2>1
  <2>2. ASSUME NEW F \in {RowFields, ConfigFields}, Matches(t, F), Write(t, F)
        PROVE  \A f \in ConfigFields : db'[f].pw = db[f].pw
    BY <2>2, SwapKeepsPasswords
  <2> QED BY <1>1, <2>1, <2>2, PassEffect
<1>2. ASSUME RotateRow PROVE \A f \in ConfigFields : db'[f].pw = db[f].pw
  BY <1>0, <1>2 DEF RotateRow
<1>3. ASSUME NEW t \in Passes, NEW p \in Passwords, Login(t, p) \/ UsePassword(t, p)
      PROVE  UNCHANGED db
  BY <1>3, Started
<1>4. ASSUME NEW old \in Passwords, NEW new \in Passwords, PrepareRow(old, new)
      PROVE  UNCHANGED db
  BY <1>4 DEF PrepareRow
<1>5. ASSUME \/ PrepareConfig \/ ReloadPage \/ RefreshWorker \/ PageRefreshed \/ PageClosed
             \/ WorkerKilled \/ FlipFlag \/ UNCHANGED vars
      PROVE  UNCHANGED db
  BY <1>5 DEF PrepareConfig, ReloadPage, RefreshWorker, PageRefreshed, PageClosed, WorkerKilled,
              FlipFlag, vars
<1> QED BY <1>1, <1>2, <1>3, <1>4, <1>5 DEF Next, RotationStep

(* The change that ends between its databases leaves nothing weak but what  *)
(* it orphans.                                                              *)
LEMMA ChangeDone ==
    ASSUME FlagFlips = FALSE, TypeInv, FlagStands, FirstChange, [Next]_vars,
           rot.pc = "written", RotateConfig \/ PageClosed
    PROVE  Neglected' = {}
<1> SUFFICES ASSUME NEW f \in Neglected' PROVE FALSE
  OBVIOUS
<1>1. f \in ConfigFields /\ f \in Fields /\ f \notin orphaned' /\ Weak(f)'
  BY FieldSets DEF Neglected
<1>2. db[f].pw = FirstPassword /\ current # FirstPassword
  BY WeakShrinks DEF FirstChange
<1>3. CASE RotateConfig
  <2>1. db'[f].pw = current
    BY <1>1, <1>3 DEF RotateConfig, LeftBehind
  <2>2. db'[f].fmt = rot.config[f] /\ rot.config[f] # "none"
    BY <1>1, <1>2, <1>3, <2>1 DEF RotateConfig
  <2>3. UNCHANGED flag /\ PlansStrong
    BY NextObedient DEF FlagStands
  <2> QED BY <1>1, <2>2, <2>3 DEF PlansStrong, Weak, NeedsUpgrade
<1>4. CASE PageClosed
  BY <1>1, <1>2, <1>4 DEF PageClosed, LeftBehind
<1> QED BY <1>3, <1>4

(* Until a change commits, nothing brings in another password. *)
LEMMA NextUntouched ==
    ASSUME TypeInv, Untouched, [Next]_vars
    PROVE  Untouched' \/ (rot'.pc = "written" /\ current' # FirstPassword)
<1> USE FieldSets
<1>0. /\ db \in [Fields -> Blob] /\ task \in [Passes -> Pass] /\ rot \in Rotation
      /\ NoRotation.pc = "idle" /\ IdlePass.pw = FirstPassword
  BY NoRotationType DEF TypeInv, TypeOK, IdlePass
<1>1. ASSUME NEW t \in Passes, PassStep(t) PROVE Untouched'
  <2>1. UNCHANGED <<current, page, rot>>
    BY <1>1, PassEffect
  <2>2. \A f \in RowFields : db'[f].pw = FirstPassword
    <3>1. CASE db' = [db EXCEPT ![Root] = [fmt |-> "standard", pw |-> task[t].pw]]
      BY <1>0, <3>1 DEF Untouched
    <3>2. ASSUME NEW F \in {RowFields, ConfigFields}, Matches(t, F), Write(t, F)
          PROVE  \A f \in RowFields : db'[f].pw = FirstPassword
      BY <3>2, SwapKeepsPasswords DEF Untouched
    <3> QED BY <1>1, <3>1, <3>2, PassEffect DEF Untouched
  <2>3. \A u \in Passes : task'[u].pw = FirstPassword
    BY <1>0, <1>1, PassRecord DEF Untouched
  <2>4. ASSUME mem' # NoMem, NEW f \in RowFields PROVE mem'[f].pw = FirstPassword
    <3>1. CASE UNCHANGED mem
      BY <2>4, <3>1 DEF Untouched
    <3>2. CASE task[t].pc \in {"nestedMem", "report"}
      <4>1. mem \in [RowFields -> Blob] /\ mem[f].pw = FirstPassword /\ task[t].pw = FirstPassword
        BY <3>2 DEF TypeInv, TypeOK, Kinds, Untouched
      <4>2. Sealed(t).pw = FirstPassword
        BY <4>1 DEF Sealed
      <4>3. CASE mem' = [mem EXCEPT ![Root] = [fmt |-> "standard", pw |-> task[t].pw]]
        BY <4>1, <4>3
      <4>4. CASE mem' = [g \in RowFields |->
                  IF task[t].written /\ g \in Planned(t, RowFields) THEN Sealed(t) ELSE mem[g]]
        BY <4>1, <4>2, <4>4
      <4> QED BY <1>1, <3>1, <4>3, <4>4, PassMem
    <3> QED BY <1>1, <3>1, <3>2, PassMem
  <2> QED BY <2>1, <2>2, <2>3, <2>4 DEF Untouched
<1>2. ASSUME NEW t \in Passes, NEW p \in Passwords, Login(t, p) \/ UsePassword(t, p)
      PROVE  Untouched'
  <2>1. p = FirstPassword /\ mem' \in {mem, Row(db)}
    BY <1>2 DEF Login, UsePassword, Untouched
  <2> QED BY <1>2, <2>1, Started DEF Untouched, Row
<1>3. ASSUME NEW old \in Passwords, NEW new \in Passwords, PrepareRow(old, new) PROVE Untouched'
  <2>1. rot'.pc = "prepared" /\ rot'.old = old /\ rot'.new = new
    BY <1>3 DEF PrepareRow, NoRotation
  <2>2. old = FirstPassword /\ new # FirstPassword
    BY <1>3 DEF PrepareRow, Untouched
  <2> QED BY <1>3, <2>1, <2>2 DEF PrepareRow, Untouched, workerVars
<1>4. ASSUME PrepareConfig PROVE Untouched'
  <2>1. rot'.pc = "ready" /\ rot'.old = rot.old /\ rot'.new = rot.new
    BY <1>0, <1>4 DEF PrepareConfig, Rotation
  <2> QED BY <1>4, <2>1 DEF PrepareConfig, Untouched, workerVars
<1>5. ASSUME RotateRow PROVE Untouched' \/ (rot'.pc = "written" /\ current' # FirstPassword)
  <2>1. CASE rot' = [rot EXCEPT !.pc = "written"] /\ current' = rot.new
    BY <1>0, <1>5, <2>1 DEF RotateRow, Untouched, Rotation
  <2>2. CASE rot' = NoRotation /\ UNCHANGED <<db, current>>
    BY <1>0, <1>5, <2>2 DEF RotateRow, Untouched, workerVars
  <2> QED BY <1>5, <2>1, <2>2 DEF RotateRow
<1>6. ASSUME PageRefreshed \/ PageClosed PROVE Untouched'
  BY <1>0, <1>6 DEF PageRefreshed, PageClosed, Untouched, Row, workerVars
<1>7. ASSUME WorkerKilled PROVE Untouched'
  BY <1>0, <1>7 DEF WorkerKilled, Untouched, pageVars
<1>8. ASSUME FlipFlag \/ UNCHANGED vars PROVE Untouched'
  BY <1>8 DEF FlipFlag, vars, Untouched, workerVars, pageVars
<1>9. ~RotateConfig /\ ~ReloadPage /\ ~RefreshWorker
  BY DEF RotateConfig, ReloadPage, RefreshWorker, Untouched
<1> QED BY <1>1, <1>2, <1>3, <1>4, <1>5, <1>6, <1>7, <1>8, <1>9 DEF Next, RotationStep

(* Between the databases of a change, the other steps leave the change alone. *)
LEMMA WrittenStays ==
    ASSUME TypeInv, [Next]_vars, rot.pc = "written", ~RotateConfig, ~PageClosed
    PROVE  UNCHANGED <<rot, current>>
<1>1. ASSUME NEW t \in Passes, PassStep(t) PROVE UNCHANGED <<rot, current>>
  BY <1>1, PassEffect
<1>2. ASSUME NEW t \in Passes, NEW p \in Passwords, Login(t, p) \/ UsePassword(t, p)
      PROVE  UNCHANGED <<rot, current>>
  BY <1>2, Started
<1>3. \A old, new \in Passwords : ~PrepareRow(old, new)
  BY DEF PrepareRow
<1>4. ~PrepareConfig /\ ~RotateRow /\ ~ReloadPage /\ ~RefreshWorker
  BY DEF PrepareConfig, RotateRow, ReloadPage, RefreshWorker
<1>5. ASSUME PageRefreshed \/ WorkerKilled \/ FlipFlag \/ UNCHANGED vars
      PROVE  UNCHANGED <<rot, current>>
  BY <1>5 DEF PageRefreshed, WorkerKilled, FlipFlag, vars, pageVars
<1> QED BY <1>1, <1>2, <1>3, <1>4, <1>5 DEF Next, RotationStep

LEMMA NextFirstChange ==
    ASSUME FlagFlips = FALSE, TypeInv, FlagStands, FirstChange, [Next]_vars
    PROVE  FirstChange'
<1> SUFFICES ASSUME NEW f \in Neglected'
             PROVE  /\ db'[f].pw = FirstPassword
                    /\ rot'.pc = "written" => current' # FirstPassword
                    /\ rot'.pc # "written" => Untouched'
  BY DEF FirstChange
<1>1. f \in Neglected /\ f \in ConfigFields
  BY WeakShrinks DEF Neglected
<1>2. CASE rot.pc = "written"
  <2>1. ~RotateConfig /\ ~PageClosed
    BY <1>2, ChangeDone
  <2> QED BY <1>1, <1>2, <2>1, ConfigPasswords, WrittenStays DEF FirstChange
<1>3. CASE rot.pc # "written"
  <2>1. Untouched /\ db[f].pw = FirstPassword
    BY <1>1, <1>3 DEF FirstChange
  <2>2. ~RotateConfig
    BY <1>3 DEF RotateConfig
  <2>3. Untouched' => rot'.pc # "written"
    BY DEF Untouched
  <2> QED BY <1>1, <2>1, <2>2, <2>3, ConfigPasswords, NextUntouched
<1> QED BY <1>2, <1>3

LEMMA OpenShrinks ==
    ASSUME FlagFlips = FALSE, TypeInv, FlagStands, FirstChange, [Next]_vars
    PROVE  Open' \subseteq Open
<1>1. ASSUME rot'.pc # "written", NEW f \in Neglected'
      PROVE  f \in Neglected /\ rot.pc # "written"
  <2>1. f \in Neglected
    BY <1>1, WeakShrinks
  <2>2. CASE rot.pc = "written"
    <3>1. ~RotateConfig /\ ~PageClosed
      BY <1>1, <2>2, ChangeDone
    <3> QED BY <1>1, <2>2, <3>1, WrittenStays
  <2> QED BY <2>1, <2>2
<1>2. \A f \in RowFields : Weak(f)' => Weak(f)
  BY WeakShrinks, FieldSets
<1> QED BY <1>1, <1>2 DEF Open

(* What a pass has planned is what is open when it reads, and sealing it    *)
(* closes it.                                                               *)
LEMMA WriteCloses ==
    ASSUME FlagFlips = FALSE, TypeInv, FlagStands, [Next]_vars, NEW t \in Passes, NEW F,
           F \subseteq Fields, Write(t, F), task[t].pc \notin {"idle", "flag"}
    PROVE  \A f \in Planned(t, F) : ~Weak(f)'
<1> SUFFICES ASSUME NEW f \in Planned(t, F) PROVE ~Weak(f)'
  OBVIOUS
<1>1. f \in Fields /\ db'[f] = Sealed(t)
  BY DEF Write, Planned
<1>2. UNCHANGED flag /\ Obedient(t)
  BY NextObedient DEF FlagStands
<1>3. Sealed(t).fmt = IF flag THEN "gpw2" ELSE "standard"
  BY <1>2 DEF Sealed, Obedient
<1> QED BY <1>1, <1>2, <1>3 DEF Weak, NeedsUpgrade

LEMMA PlanCovers ==
    ASSUME TypeInv, FlagStands, FirstChange, NEW t \in Passes, Covers(t),
           task[t].pc = "readConfig"
    PROVE  Open \subseteq {f \in Fields : PlanConfig(t)[f] # "none"}
<1> SUFFICES ASSUME NEW f \in Open PROVE f \in Fields /\ PlanConfig(t)[f] # "none"
  OBVIOUS
<1>1. f \in Fields /\ db[f].fmt # "none" /\ PlanConfig(t)[f] =
        IF f \in ConfigFields /\ NeedsUpgrade(task[t].mode, f, db[f]) /\ db[f].pw = task[t].pw
        THEN db[f].fmt ELSE task[t].expected[f]
  BY FieldSets, BlobType DEF Open, Neglected, PlanConfig, TypeInv, TypeOK, Formats
<1>2. CASE f \in RowFields
  BY <1>1, <1>2, FieldSets DEF Covers, Planned
<1>3. CASE f \notin RowFields
  <2>1. f \in Neglected /\ rot.pc # "written"
    BY <1>3 DEF Open
  <2>2. db[f].pw = FirstPassword /\ task[t].pw = FirstPassword
    BY <2>1 DEF FirstChange, Untouched
  <2>3. f \in ConfigFields /\ NeedsUpgrade(task[t].mode, f, db[f])
    BY <2>1 DEF Neglected, Weak, FlagStands, Obedient
  <2> QED BY <1>1, <2>2, <2>3
<1> QED BY <1>2, <1>3

(* The steps of the pass itself. *)
LEMMA PassCovers ==
    ASSUME FlagFlips = FALSE, TypeInv, FlagStands, FirstChange, NEW t \in Passes, Covers(t),
           PassStep(t), [Next]_vars
    PROVE  Covers(t)'
<1>0. /\ task \in [Passes -> Pass] /\ task[t] \in Pass /\ IdlePass.pc = "idle"
      /\ Open' \subseteq Open /\ Open \subseteq Fields
  BY FieldSets, IdlePassType, OpenShrinks DEF TypeInv, TypeOK, Open, Neglected
<1>1. ASSUME NEW outcome, NEW written, End(t, outcome, written),
             outcome \in Done => Open = {}
      PROVE  Covers(t)'
  <2>1. CASE task'[t] = IdlePass
    BY <1>0, <2>1 DEF Covers
  <2>2. CASE task'[t] = Reported(task[t], outcome, written)
    <3>1. task'[t].pc = "report" /\ (task'[t].done <=> outcome \in Done)
      BY <1>0, <2>2 DEF Reported, Pass
    <3> QED BY <1>0, <1>1, <3>1 DEF Covers
  <2> QED BY <1>0, <1>1, <2>1, <2>2 DEF End
<1>2. \A pc : Goto(t, pc) => task'[t].pc = pc /\ task'[t].expected = task[t].expected
  BY <1>0 DEF Goto, Pass
<1>3. CASE ReadFlag(t)
  <2>1. CASE task' = [task EXCEPT ![t].pc = "queue", ![t].mode = "gpw2"]
    BY <1>0, <2>1 DEF Covers, Pass
  <2>2. CASE task' = [task EXCEPT ![t] = IdlePass]
    BY <1>0, <2>2 DEF Covers
  <2> QED BY <1>2, <1>3, <2>1, <2>2 DEF ReadFlag, Covers
<1>4. CASE RewriteNestedKey(t) \/ KeepNestedKey(t)
  BY <1>2, <1>4 DEF RewriteNestedKey, KeepNestedKey, Covers
<1>5. CASE Enter(t)
  <2>1. CASE Goto(t, "readRow")
    BY <1>2, <2>1 DEF Covers
  <2>2. CASE End(t, "disabled", FALSE)
    BY <1>1, <2>2 DEF Done
  <2> QED BY <1>5, <2>1, <2>2 DEF Enter
<1>6. CASE ReadRow(t)
  <2> DEFINE plan == [f \in Fields |->
                        IF f \in RowFields /\ NeedsUpgrade(task[t].mode, f, db[f])
                        THEN db[f].fmt ELSE "none"]
  <2>1. CASE task' = [task EXCEPT ![t].pc = "readConfig", ![t].expected = plan]
    <3>1. task'[t].pc = "readConfig" /\ task'[t].expected = plan
      BY <1>0, <2>1 DEF Pass
    <3>2. ASSUME NEW f \in Open \cap RowFields PROVE plan[f] # "none"
      <4>1. f \in Fields /\ Weak(f) /\ db[f].fmt # "none"
        BY FieldSets, BlobType DEF Open, Neglected, TypeInv, TypeOK, Formats
      <4>2. NeedsUpgrade(task[t].mode, f, db[f])
        BY <1>6, <4>1 DEF ReadRow, Weak, FlagStands, Obedient
      <4> QED BY <4>1, <4>2
    <3> QED BY <1>0, <3>1, <3>2, FieldSets DEF Covers, Planned
  <2>2. CASE \E outcome \in Outcomes \ Done : End(t, outcome, FALSE)
    BY <1>1, <2>2
  <2> QED BY <1>6, <2>1, <2>2 DEF ReadRow, Outcomes, Done
<1>7. CASE ReadConfig(t)
  <2> DEFINE planned(F) == {f \in F : PlanConfig(t)[f] # "none"}
  <2>1. Open \subseteq planned(Fields)
    BY <1>7, PlanCovers DEF ReadConfig
  <2>2. CASE End(t, "write_error", FALSE)
    BY <1>1, <2>2 DEF Done
  <2>3. CASE planned(Fields) = {} /\ End(t, "already-current", FALSE)
    BY <1>1, <2>1, <2>3
  <2>4. CASE task' = [task EXCEPT
                   ![t].expected = PlanConfig(t),
                   ![t].pc = IF planned(RowFields) # {} THEN "casRow" ELSE "casConfig"]
    <3>1. /\ task'[t].expected = PlanConfig(t)
          /\ task'[t].pc = IF planned(RowFields) # {} THEN "casRow" ELSE "casConfig"
      BY <1>0, <2>4 DEF Pass
    <3>2. CASE task'[t].pc = "casRow"
      BY <1>0, <2>1, <3>1, <3>2 DEF Covers, Planned
    <3>3. CASE planned(RowFields) = {} /\ task'[t].pc = "casConfig"
      <4>1. Open \subseteq planned(ConfigFields)
        BY <2>1, <3>3, FieldSets
      <4> QED BY <1>0, <3>1, <3>3, <4>1 DEF Covers, Planned
    <3> QED BY <3>1, <3>2, <3>3
  <2> QED BY <1>7, <2>2, <2>3, <2>4 DEF ReadConfig
<1>8. CASE CasRow(t)
  <2>1. CASE Write(t, RowFields) /\ Goto(t, "checkRow")
    <3>1. \A f \in Planned(t, RowFields) : ~Weak(f)'
      BY <1>8, <2>1, FieldSets, WriteCloses DEF CasRow
    <3>2. Open' \subseteq Planned(t, ConfigFields)
      <4> SUFFICES ASSUME NEW f \in Open' PROVE f \in Planned(t, ConfigFields)
        OBVIOUS
      <4>1. f \in Planned(t, Fields) /\ Weak(f)'
        BY <1>0, <1>8 DEF CasRow, Covers, Open, Neglected
      <4> QED BY <3>1, <4>1, FieldSets DEF Planned
    <3> QED BY <1>2, <2>1, <3>2 DEF Covers, Planned
  <2>2. CASE \E outcome \in Outcomes \ Done : End(t, outcome, FALSE)
    BY <1>1, <2>2
  <2> QED BY <1>8, <2>1, <2>2 DEF CasRow, Outcomes, Done
<1>9. CASE CheckRow(t)
  <2>1. CASE End(t, "readback_fail", FALSE)
    BY <1>1, <2>1 DEF Done
  <2>2. CASE Planned(t, ConfigFields) = {} /\ End(t, "migrated", TRUE)
    BY <1>1, <1>9, <2>2 DEF CheckRow, Covers
  <2>3. CASE Goto(t, "casConfig")
    BY <1>0, <1>2, <1>9, <2>3 DEF CheckRow, Covers, Planned
  <2> QED BY <1>9, <2>1, <2>2, <2>3 DEF CheckRow
<1>10. CASE CasConfig(t)
  <2>1. CASE Write(t, ConfigFields) /\ Goto(t, "checkConfig")
    <3>1. \A f \in Planned(t, ConfigFields) : ~Weak(f)'
      BY <1>10, <2>1, FieldSets, WriteCloses DEF CasConfig
    <3>2. Open' = {}
      BY <1>0, <1>10, <3>1 DEF CasConfig, Covers, Open, Neglected
    <3> QED BY <1>2, <2>1, <3>2 DEF Covers
  <2>2. CASE \E outcome \in Outcomes \ Done : End(t, outcome, RowWritten(t))
    BY <1>1, <2>2
  <2> QED BY <1>10, <2>1, <2>2 DEF CasConfig, Outcomes, Done
<1>11. CASE CheckConfig(t)
  <2>1. Open = {}
    BY <1>11 DEF CheckConfig, Covers
  <2> QED BY <1>1, <1>11, <2>1 DEF CheckConfig
<1>12. CASE Report(t)
  BY <1>0, <1>12 DEF Report, Covers
<1> QED BY <1>3, <1>4, <1>5, <1>6, <1>7, <1>8, <1>9, <1>10, <1>11, <1>12 DEF PassStep

LEMMA NextCovers ==
    ASSUME FlagFlips = FALSE, TypeInv, FlagStands, FirstChange, [Next]_vars,
           \A t \in Passes : Covers(t)
    PROVE  \A t \in Passes : Covers(t)'
<1> SUFFICES ASSUME NEW u \in Passes PROVE Covers(u)'
  OBVIOUS
<1>0. Open' \subseteq Open /\ task \in [Passes -> Pass]
  BY OpenShrinks DEF TypeInv, TypeOK
<1>1. CASE task'[u] = task[u]
  BY <1>0, <1>1 DEF Covers, Planned
<1>2. ASSUME NEW t \in Passes, PassStep(t) PROVE Covers(u)'
  BY <1>1, <1>2, PassCovers, PassRecord
<1>3. ASSUME NEW t \in Passes, NEW p \in Passwords, Login(t, p) \/ UsePassword(t, p)
      PROVE  Covers(u)'
  <2>1. u = t => task'[u].pc = "flag"
    BY <1>3, Started
  <2>2. u # t => task'[u] = task[u]
    BY <1>3, Started
  <2> QED BY <1>1, <2>1, <2>2 DEF Covers
<1>4. ASSUME WorkerKilled PROVE Covers(u)'
  BY <1>4, IdlePassType DEF WorkerKilled, Covers
<1>5. ASSUME NEW old \in Passwords, NEW new \in Passwords, PrepareRow(old, new)
      PROVE  UNCHANGED task
  BY <1>5 DEF PrepareRow, workerVars
<1>6. ASSUME \/ PrepareConfig \/ RotateRow \/ RotateConfig \/ ReloadPage \/ RefreshWorker
             \/ PageRefreshed \/ PageClosed \/ FlipFlag \/ UNCHANGED vars
      PROVE  UNCHANGED task
  BY <1>6 DEF PrepareConfig, RotateRow, RotateConfig, ReloadPage, RefreshWorker, PageRefreshed,
              PageClosed, FlipFlag, vars, workerVars
<1> QED BY <1>1, <1>2, <1>3, <1>4, <1>5, <1>6 DEF Next, RotationStep

LEMMA NextClaimed ==
    ASSUME FlagFlips = FALSE, TypeInv, FlagStands, FirstChange, [Next]_vars,
           \A t \in Passes : Covers(t), Claimed
    PROVE  Claimed'
<1>0. Open' \subseteq Open /\ UNCHANGED flag
  BY OpenShrinks, NextObedient
<1>1. CASE UNCHANGED claim \/ claim' = "none"
  BY <1>0, <1>1 DEF Claimed
<1>2. ASSUME NEW t \in Passes, PassStep(t) PROVE Claimed'
  <2>1. CASE Report(t) /\ task[t].done
    <3>1. Open = {} /\ claim' = Sealed(t).fmt
      BY <2>1 DEF Report, Covers
    <3>2. Sealed(t).fmt = IF flag THEN "gpw2" ELSE "standard"
      BY <2>1 DEF Report, Sealed, FlagStands, Obedient
    <3> QED BY <1>0, <3>1, <3>2 DEF Claimed
  <2>2. CASE ~(Report(t) /\ task[t].done)
    <3>1. UNCHANGED claim
      BY <1>2, <2>2 DEF PassStep, ReadFlag, RewriteNestedKey, KeepNestedKey, Enter, ReadRow,
                        ReadConfig, CasRow, CheckRow, CasConfig, CheckConfig, Report
    <3> QED BY <1>1, <3>1
  <2> QED BY <2>1, <2>2
<1>3. ASSUME NEW t \in Passes, NEW p \in Passwords, Login(t, p) \/ UsePassword(t, p)
      PROVE  UNCHANGED claim
  BY <1>3, Started
<1>4. ASSUME NEW old \in Passwords, NEW new \in Passwords, PrepareRow(old, new)
      PROVE  UNCHANGED claim
  BY <1>4 DEF PrepareRow, workerVars
<1>5. ASSUME \/ PrepareConfig \/ RotateRow \/ RotateConfig \/ ReloadPage \/ RefreshWorker
             \/ PageRefreshed \/ PageClosed \/ FlipFlag \/ UNCHANGED vars
      PROVE  UNCHANGED claim
  BY <1>5 DEF PrepareConfig, RotateRow, RotateConfig, ReloadPage, RefreshWorker, PageRefreshed,
              PageClosed, FlipFlag, vars, workerVars
<1>6. ASSUME WorkerKilled PROVE claim' = "none"
  BY <1>6 DEF WorkerKilled
<1> QED BY <1>1, <1>2, <1>3, <1>4, <1>5, <1>6 DEF Next, RotationStep

ClaimInv ==
    TypeInv /\ FlagStands /\ FirstChange /\ (\A t \in Passes : Covers(t)) /\ Claimed

(* While the flag stands, a session stops checking only when nothing is     *)
(* left to upgrade, for every number of passes, and whatever the user did   *)
(* to the password meanwhile.                                               *)
THEOREM ClaimsHold ==
    ASSUME FlagFlips = FALSE
    PROVE  Spec => []ClaimIsTrue
<1>1. Init => ClaimInv
  <2> SUFFICES ASSUME Init PROVE ClaimInv
    OBVIOUS
  <2>1. FirstChange
    BY FieldSets, IdlePassType, NoRotationType
       DEF Init, FirstChange, Neglected, Untouched, Row, IdlePass
  <2>2. (\A t \in Passes : Covers(t)) /\ Claimed
    BY IdlePassType DEF Init, Covers, Claimed
  <2> QED BY <2>1, <2>2, InitType, InitFlagStands DEF ClaimInv
<1>2. ClaimInv /\ [Next]_vars => ClaimInv'
  <2> SUFFICES ASSUME ClaimInv, [Next]_vars PROVE ClaimInv'
    OBVIOUS
  <2>1. TypeInv' /\ FlagStands'
    BY NextType, NextFlagStands DEF ClaimInv
  <2>2. FirstChange' /\ (\A t \in Passes : Covers(t)')
    BY NextFirstChange, NextCovers DEF ClaimInv
  <2>3. Claimed'
    BY NextClaimed DEF ClaimInv
  <2> QED BY <2>1, <2>2, <2>3 DEF ClaimInv
<1>3. ClaimInv => ClaimIsTrue
  <2> SUFFICES ASSUME ClaimInv, NEW f \in Following, claim # "none", Weak(f) PROVE FALSE
    BY DEF ClaimInv, Claimed, ClaimIsTrue, Weak, NeedsUpgrade
  <2>1. Open = {} /\ f \in Fields \ orphaned /\ db[f].pw = current
    BY DEF ClaimInv, Claimed, Following
  <2>2. f \in Neglected /\ rot.pc = "written"
    BY <2>1, FieldSets DEF Open, Neglected
  <2> QED BY <2>1, <2>2 DEF ClaimInv, FirstChange
<1> QED BY <1>1, <1>2, <1>3, PTL DEF Spec

=============================================================================
