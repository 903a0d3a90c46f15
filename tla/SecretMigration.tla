--------------------------- MODULE SecretMigration ---------------------------
(***************************************************************************)
(* The secrets of one password wallet, and everything that rewrites them:  *)
(*                                                                         *)
(*  - the on-unlock passes of the service worker (secretMigration.ts),     *)
(*    which move stored blobs to a stronger format: to gpw2 with the       *)
(*    envelope flag on, CryptoJS text to gpw1 with it off;                 *)
(*  - the rewrite of a nested root key by the signing instance             *)
(*    (walletBg.ts), outside the passes' mutex;                            *)
(*  - the spending-password change of a page (passwordRotation.ts and      *)
(*    geroStore.updateSpendingPassword).                                   *)
(*                                                                         *)
(* They run in two processes that share two IndexedDB databases: the       *)
(* wallets row (root key, mnemonic) and the per-wallet config rows.  One   *)
(* step of the model is the code between two awaits.  The worker can be    *)
(* killed, and the page closed, between any two steps.                     *)
(*                                                                         *)
(* A blob is the format it is stored in and the password that opens it;    *)
(* plaintexts are left out, but for whether the mnemonic derives the root  *)
(* key.  Blobs sealed twice differ in their salt: here they are one blob,  *)
(* so the compare-and-swap of the model lets through every swap the        *)
(* code's does, and more.                                                  *)
(***************************************************************************)
EXTENDS Naturals

CONSTANTS
    Passwords,      \* passwords the user may choose; a change may return to an old one
    FirstPassword,  \* the one the wallet was created with
    Passes,         \* identities of the upgrade passes that can be in flight
    RowTexts,       \* text secrets of the wallets row: the mnemonic, or none
    ConfigTexts,    \* config rows holding text secrets (2FA data, PIN hash)
    ConfigKeys,     \* config rows holding key bytes (SPO cold key)
    RootFormats,    \* formats the root key may be in at the start
    FlagFlips,      \* may isKeyEnvelopeV2Enabled change while the wallet is in use
    NoPass,         \* the mutex is free
    NoMem           \* no wallet is logged in in the worker

Root == "root"
RowFields    == {Root} \cup RowTexts
ConfigFields == ConfigTexts \cup ConfigKeys
Texts        == RowTexts \cup ConfigTexts
Fields       == RowFields \cup ConfigFields

(* "legacy": a CryptoJS text blob, or a root key nested in one.  "standard": *)
(* gpw1 text, or raw PBKDF2 hex of key bytes.                                *)
Formats == {"legacy", "standard", "gpw2"}
Rank(fmt) == IF fmt = "legacy" THEN 0 ELSE IF fmt = "standard" THEN 1 ELSE 2
Blob == [fmt : Formats, pw : Passwords]
PlannedFormats == Formats \cup {"none"}

ASSUME PasswordsAssumption == FirstPassword \in Passwords
ASSUME FieldsAssumption ==
    /\ Root \notin RowTexts \cup ConfigFields
    /\ RowTexts \cap ConfigFields = {}
    /\ ConfigTexts \cap ConfigKeys = {}
ASSUME FormatsAssumption == RootFormats \subseteq Formats /\ RootFormats # {}
ASSUME FlagAssumption == FlagFlips \in BOOLEAN
ASSUME NonesAssumption == NoPass \notin Passes /\ NoMem \notin [RowFields -> Blob]

VARIABLES
    flag,       \* isKeyEnvelopeV2Enabled in the mirror
    paired,     \* the mnemonic derives the root key
    db,         \* both databases: the blob of each field
    current,    \* ghost: the password of the last committed change
    mem,        \* WalletBg's copy of the wallets-row blobs, or NoMem
    claim,      \* WalletBg.storedSecretsCurrent
    task,       \* the passes of the worker
    lock,       \* lockFor(walletId): the pass that holds it
    page,       \* geroStore.wallets in the page: its copy of the row blobs
    rot,        \* the password change of the page
    orphaned    \* ghost: config fields some change did not carry along

vars == <<flag, paired, db, current, mem, claim, task, lock, page, rot, orphaned>>
workerVars == <<mem, claim, task, lock>>
pageVars   == <<page, rot, orphaned>>

Modes == {"legacy", "gpw2"}
PassPC == {"idle", "flag", "nested", "nestedMem", "queue", "readRow", "readConfig",
           "casRow", "checkRow", "casConfig", "checkConfig", "report"}
Outcomes == {"migrated", "already-current", "disabled", "decrypt_fail", "equivalence_fail",
             "readback_fail", "cas_conflict", "write_error", "thrown"}
Done == {"migrated", "already-current"}
Pass == [pc : PassPC, kind : {"login", "session"}, pw : Passwords, mode : Modes,
         expected : [Fields -> PlannedFormats], written : BOOLEAN, done : BOOLEAN]

NothingPlanned == [f \in Fields |-> "none"]
IdlePass == [pc |-> "idle", kind |-> "login", pw |-> FirstPassword,
             mode |-> "legacy", expected |-> NothingPlanned, written |-> FALSE,
             done |-> FALSE]

Rotation == [pc : {"idle", "prepared", "ready", "written", "committed", "reloaded"},
             old : Passwords, new : Passwords,
             row : [RowFields -> Formats], config : [ConfigFields -> PlannedFormats]]
NoRotation == [pc |-> "idle", old |-> FirstPassword,
               new |-> FirstPassword,
               row |-> [f \in RowFields |-> "gpw2"],
               config |-> [f \in ConfigFields |-> "none"]]

Row(store) == [f \in RowFields |-> store[f]]

TypeOK ==
    /\ flag \in BOOLEAN
    /\ paired \in BOOLEAN
    /\ db \in [Fields -> Blob]
    /\ current \in Passwords
    /\ mem \in [RowFields -> Blob] \cup {NoMem}
    /\ claim \in {"none", "standard", "gpw2"}
    /\ task \in [Passes -> Pass]
    /\ lock \in Passes \cup {NoPass}
    /\ page \in [RowFields -> Blob]
    /\ rot \in Rotation
    /\ orphaned \in SUBSET ConfigFields

Init ==
    /\ flag \in BOOLEAN
    /\ paired \in BOOLEAN
    /\ current = FirstPassword
    /\ db \in [Fields -> [fmt : Formats, pw : {current}]]
    /\ db[Root].fmt \in RootFormats
    /\ \A f \in ConfigKeys : db[f].fmt # "legacy"
    /\ mem = NoMem
    /\ claim = "none"
    /\ task = [t \in Passes |-> IdlePass]
    /\ lock = NoPass
    /\ page = Row(db)
    /\ rot = NoRotation
    /\ orphaned = {}

-----------------------------------------------------------------------------
(* The passes of the worker. *)

Planned(t, F) == {f \in F : task[t].expected[f] # "none"}

(* What a pass seals: gpw2 under the flag, gpw1 for the flag-off pass. *)
Sealed(t) == [fmt |-> IF task[t].mode = "gpw2" THEN "gpw2" ELSE "standard",
              pw  |-> task[t].pw]

(* needsUpgrade of the two policies, and of the wallets row. *)
NeedsUpgradeMutant(mode, f, blob) == blob.fmt = "legacy"    \* mutant: gpw1 counts as current
NeedsUpgrade(mode, f, blob) ==
    IF mode = "gpw2" THEN blob.fmt # "gpw2"
    ELSE f \in Texts /\ blob.fmt = "legacy"

Goto(t, pc) == task' = [task EXCEPT ![t].pc = pc]

(* A pass ends: the mutex is free and its result goes to whoever started it. *)
(* The unlock before login keeps nothing of it.                              *)
Reported(r, outcome, written) ==
    [r EXCEPT !.pc = "report", !.done = outcome \in Done, !.written = written,
              !.expected = IF written THEN @ ELSE NothingPlanned]
EndMutant(t, outcome, written) ==          \* mutant: an early return keeps the mutex
    /\ lock' = IF lock = t /\ outcome # "cas_conflict" THEN NoPass ELSE lock
    /\ task' = [task EXCEPT ![t] = IF @.kind = "login" THEN IdlePass
                                  ELSE Reported(@, outcome, written)]
End(t, outcome, written) ==
    /\ lock' = IF lock = t THEN NoPass ELSE lock
    /\ task' = [task EXCEPT ![t] = IF @.kind = "login" THEN IdlePass
                                  ELSE Reported(@, outcome, written)]

(* An unlock with no wallet logged in: the password opened the stored row.  *)
(* The login that follows builds WalletBg from the row.                     *)
Login(t, p) ==
    /\ mem = NoMem
    /\ task[t].pc = "idle"
    /\ db[Root].pw = p
    /\ mem' = Row(db)
    /\ task' = [task EXCEPT ![t] = [IdlePass EXCEPT !.pc = "flag", !.pw = p]]
    /\ UNCHANGED <<flag, paired, db, current, claim, lock, pageVars>>

(* A signature or a check of the password: it opened WalletBg's root key.   *)
UsePassword(t, p) ==
    /\ mem # NoMem
    /\ task[t].pc = "idle"
    /\ mem[Root].pw = p
    /\ claim # "gpw2"
    /\ task' = [task EXCEPT ![t] = [IdlePass EXCEPT !.pc = "flag", !.kind = "session", !.pw = p]]
    /\ UNCHANGED <<flag, paired, db, current, mem, claim, lock, pageVars>>

(* The flag decides which pass to run; a nested root key is rewritten first. *)
ReadFlag(t) ==
    /\ task[t].pc = "flag"
    /\ LET session == task[t].kind = "session" IN
       \/ /\ flag
          /\ task' = [task EXCEPT ![t].pc = "queue", ![t].mode = "gpw2"]
       \/ /\ ~flag /\ session /\ claim = "standard"
          /\ task' = [task EXCEPT ![t] = IdlePass]
       \/ /\ ~flag /\ session /\ claim # "standard" /\ mem[Root].fmt = "legacy"
          /\ Goto(t, "nested")
       \/ /\ ~flag /\ (session => claim # "standard" /\ mem[Root].fmt # "legacy")
          /\ Goto(t, "queue")
    /\ UNCHANGED <<flag, paired, db, current, mem, claim, lock, pageVars>>

(* migrateEncryptedPrivateKeyFormat: an update of the row, not a swap.      *)
RewriteNestedKey(t) ==
    /\ task[t].pc = "nested"
    /\ \/ /\ db' = [db EXCEPT ![Root] = [fmt |-> "standard", pw |-> task[t].pw]]
          /\ Goto(t, "nestedMem")
       \/ /\ Goto(t, "queue")        \* the write failed; the pass goes on
          /\ UNCHANGED db
    /\ UNCHANGED <<flag, paired, current, mem, claim, lock, pageVars>>

KeepNestedKey(t) ==
    /\ task[t].pc = "nestedMem"
    /\ mem' = [mem EXCEPT ![Root] = [fmt |-> "standard", pw |-> task[t].pw]]
    /\ Goto(t, "queue")
    /\ UNCHANGED <<flag, paired, db, current, claim, lock, pageVars>>

(* runExclusive, and the pass's own read of the flag under the mutex. *)
Enter(t) ==
    /\ task[t].pc = "queue"
    /\ lock = NoPass
    /\ IF flag = (task[t].mode = "gpw2")
       THEN lock' = t /\ Goto(t, "readRow")
       ELSE End(t, "disabled", FALSE)
    /\ UNCHANGED <<flag, paired, db, current, mem, claim, pageVars>>

(* Steps 1 to 3 on the wallets row: open, check the key, plan. *)
Opens(t) ==
    /\ db[Root].pw = task[t].pw
    /\ \A f \in RowTexts :
          task[t].mode = "gpw2" \/ db[f].fmt = "legacy" => db[f].pw = task[t].pw
MismatchMutant(t) == FALSE                     \* mutant: no equivalence check
Mismatch(t) ==
    /\ ~paired
    /\ \E f \in RowTexts : task[t].mode = "gpw2" \/ db[f].fmt = "legacy"
ReadRow(t) ==
    /\ task[t].pc = "readRow"
    /\ \/ End(t, "thrown", FALSE)                       \* the read failed
       \/ ~Opens(t) /\ End(t, "decrypt_fail", FALSE)
       \/ Opens(t) /\ Mismatch(t) /\ End(t, "equivalence_fail", FALSE)
       \/ /\ Opens(t) /\ ~Mismatch(t)
          /\ task' = [task EXCEPT
                ![t].pc = "readConfig",
                ![t].expected = [f \in Fields |->
                    IF f \in RowFields /\ NeedsUpgrade(task[t].mode, f, db[f])
                    THEN db[f].fmt ELSE "none"]]
          /\ UNCHANGED lock
    /\ UNCHANGED <<flag, paired, db, current, mem, claim, pageVars>>

(* planConfig: a value that does not open with this password is left alone. *)
PlanConfig(t) ==
    [f \in Fields |->
        IF f \in ConfigFields /\ NeedsUpgrade(task[t].mode, f, db[f]) /\ db[f].pw = task[t].pw
        THEN db[f].fmt ELSE task[t].expected[f]]
ReadConfig(t) ==
    /\ task[t].pc = "readConfig"
    /\ LET plan == PlanConfig(t)
           planned(F) == {f \in F : plan[f] # "none"}
       IN \/ End(t, "write_error", FALSE)                 \* the read failed
          \/ planned(Fields) = {} /\ End(t, "already-current", FALSE)
          \/ /\ planned(Fields) # {}
             /\ task' = [task EXCEPT
                   ![t].expected = plan,
                   ![t].pc = IF planned(RowFields) # {} THEN "casRow" ELSE "casConfig"]
             /\ UNCHANGED lock
    /\ UNCHANGED <<flag, paired, db, current, mem, claim, pageVars>>

(* Steps 4 and 5: one transaction per database, each read back. *)
MatchesMutant(t, F) == TRUE                    \* mutant: an update instead of a swap
Matches(t, F) ==
    \A f \in Planned(t, F) : db[f] = [fmt |-> task[t].expected[f], pw |-> task[t].pw]
Write(t, F) ==
    db' = [f \in Fields |-> IF f \in Planned(t, F) THEN Sealed(t) ELSE db[f]]

CasRow(t) ==
    /\ task[t].pc = "casRow"
    /\ \/ Matches(t, RowFields) /\ Write(t, RowFields) /\ Goto(t, "checkRow") /\ UNCHANGED lock
       \/ ~Matches(t, RowFields) /\ End(t, "cas_conflict", FALSE) /\ UNCHANGED db
       \/ End(t, "write_error", FALSE) /\ UNCHANGED db
    /\ UNCHANGED <<flag, paired, current, mem, claim, pageVars>>

CheckRow(t) ==
    /\ task[t].pc = "checkRow"
    /\ LET ok == \A f \in Planned(t, RowFields) : db[f] = Sealed(t)
       IN \/ End(t, "readback_fail", FALSE)            \* it differs, or the read failed
          \/ ok /\ Planned(t, ConfigFields) = {} /\ End(t, "migrated", TRUE)
          \/ ok /\ Planned(t, ConfigFields) # {} /\ Goto(t, "casConfig") /\ UNCHANGED lock
    /\ UNCHANGED <<flag, paired, db, current, mem, claim, pageVars>>

RowWritten(t) == Planned(t, RowFields) # {}
CasConfig(t) ==
    /\ task[t].pc = "casConfig"
    /\ \/ Matches(t, ConfigFields) /\ Write(t, ConfigFields) /\ Goto(t, "checkConfig") /\ UNCHANGED lock
       \/ ~Matches(t, ConfigFields) /\ End(t, "cas_conflict", RowWritten(t)) /\ UNCHANGED db
       \/ End(t, "write_error", RowWritten(t)) /\ UNCHANGED db
    /\ UNCHANGED <<flag, paired, current, mem, claim, pageVars>>

(* The config rows need only open to the same plaintext. *)
CheckConfig(t) ==
    /\ task[t].pc = "checkConfig"
    /\ \/ /\ \A f \in Planned(t, ConfigFields) : db[f].pw = task[t].pw
          /\ End(t, "migrated", RowWritten(t))
       \/ End(t, "readback_fail", RowWritten(t))
    /\ UNCHANGED <<flag, paired, db, current, mem, claim, pageVars>>

(* upgradeStoredSecrets after its await: WalletBg takes over what was      *)
(* written and remembers a finished upgrade.                               *)
Report(t) ==
    /\ task[t].pc = "report"
    /\ mem' = [f \in RowFields |->
                 IF task[t].written /\ f \in Planned(t, RowFields) THEN Sealed(t) ELSE mem[f]]
    /\ claim' = IF task[t].done THEN Sealed(t).fmt ELSE claim
    /\ task' = [task EXCEPT ![t] = IdlePass]
    /\ UNCHANGED <<flag, paired, db, current, lock, pageVars>>

PassStep(t) ==
    \/ ReadFlag(t) \/ RewriteNestedKey(t) \/ KeepNestedKey(t) \/ Enter(t)
    \/ ReadRow(t) \/ ReadConfig(t) \/ CasRow(t) \/ CheckRow(t)
    \/ CasConfig(t) \/ CheckConfig(t) \/ Report(t)

(* The browser kills the worker: every pass, the mutex and WalletBg go. *)
WorkerKilled ==
    /\ mem # NoMem
    /\ mem' = NoMem
    /\ claim' = "none"
    /\ task' = [t \in Passes |-> IdlePass]
    /\ lock' = NoPass
    /\ UNCHANGED <<flag, paired, db, current, pageVars>>

(* The flag mirror is rewritten by a page. *)
FlipFlag ==
    /\ FlagFlips
    /\ flag' = ~flag
    /\ UNCHANGED <<paired, db, current, workerVars, pageVars>>

-----------------------------------------------------------------------------
(* The spending-password change of the page. *)

(* reseal*Secret: never weaker than what it replaces. *)
ResealMutant(stored) == IF flag THEN "gpw2" ELSE "standard"   \* mutant: the flag alone decides
Reseal(stored) == IF stored.fmt = "gpw2" \/ flag THEN "gpw2" ELSE "standard"

(* The liveQuery of the worker and its broadcast bring the page's copy up to date. *)
PageRefreshed ==
    /\ page # Row(db)
    /\ page' = Row(db)
    /\ UNCHANGED <<flag, paired, db, current, workerVars, rot, orphaned>>

(* prepare, on the page's copy of the row.  A password that does not open   *)
(* it throws and nothing has happened.                                      *)
PrepareRow(old, new) ==
    /\ rot.pc = "idle"
    /\ old # new
    /\ \A f \in RowFields : page[f].pw = old
    /\ rot' = [NoRotation EXCEPT !.pc = "prepared", !.old = old, !.new = new,
                                 !.row = [f \in RowFields |-> Reseal(page[f])]]
    /\ UNCHANGED <<flag, paired, db, current, workerVars, page, orphaned>>

(* prepareConfig reads the database; a failure leaves the secondary secrets out. *)
PrepareConfig ==
    /\ rot.pc = "prepared"
    /\ \/ rot' = [rot EXCEPT !.pc = "ready",
                     !.config = [f \in ConfigFields |->
                         IF db[f].pw = rot.old THEN Reseal(db[f]) ELSE "none"]]
       \/ rot' = [rot EXCEPT !.pc = "ready"]
    /\ UNCHANGED <<flag, paired, db, current, workerVars, page, orphaned>>

(* updatePrivateKeyAndMnemonic: the change is made once this commits. *)
RotateRow ==
    /\ rot.pc = "ready"
    /\ \/ /\ db' = [f \in Fields |-> IF f \in RowFields
                                     THEN [fmt |-> rot.row[f], pw |-> rot.new] ELSE db[f]]
          /\ current' = rot.new
          /\ rot' = [rot EXCEPT !.pc = "written"]
       \/ rot' = NoRotation /\ UNCHANGED <<db, current>>         \* the update threw
    /\ UNCHANGED <<flag, paired, workerVars, page, orphaned>>

LeftBehind(store, pw) == {f \in ConfigFields : store[f].pw # pw}

(* commitSecondary: best effort. *)
RotateConfig ==
    /\ rot.pc = "written"
    /\ \/ db' = [f \in Fields |-> IF f \in ConfigFields /\ rot.config[f] # "none"
                                  THEN [fmt |-> rot.config[f], pw |-> rot.new] ELSE db[f]]
       \/ db' = db
    /\ orphaned' = orphaned \cup LeftBehind(db', current)
    /\ rot' = [NoRotation EXCEPT !.pc = "committed"]
    /\ UNCHANGED <<flag, paired, current, workerVars, page>>

ReloadPage ==
    /\ rot.pc = "committed"
    /\ page' = Row(db)
    /\ rot' = [rot EXCEPT !.pc = "reloaded"]
    /\ UNCHANGED <<flag, paired, db, current, workerVars, orphaned>>

(* REFRESH_LOGGED_WALLET_SECRET, or its failure, which is only logged. *)
RefreshWorker ==
    /\ rot.pc = "reloaded"
    /\ rot' = NoRotation
    /\ \/ mem' = IF mem = NoMem THEN NoMem ELSE Row(db)
       \/ mem' = mem
    /\ UNCHANGED <<flag, paired, db, current, claim, task, lock, page, orphaned>>

(* The page is closed in the middle of a change. *)
PageClosed ==
    /\ rot.pc # "idle"
    /\ rot' = NoRotation
    /\ page' = Row(db)
    /\ orphaned' = orphaned \cup LeftBehind(db, current)
    /\ UNCHANGED <<flag, paired, db, current, workerVars>>

RotationStep ==
    \/ \E old, new \in Passwords : PrepareRow(old, new)
    \/ PrepareConfig \/ RotateRow \/ RotateConfig \/ ReloadPage \/ RefreshWorker

Next ==
    \/ \E t \in Passes, p \in Passwords : Login(t, p) \/ UsePassword(t, p)
    \/ \E t \in Passes : PassStep(t)
    \/ RotationStep
    \/ PageRefreshed \/ PageClosed \/ WorkerKilled \/ FlipFlag

Spec == Init /\ [][Next]_vars

(* Promises of the worker settle; async-mutex serves its waiters in order, so *)
(* one that waits is not passed over for ever.                               *)
Fairness == \A t \in Passes : WF_vars(PassStep(t)) /\ SF_vars(Enter(t))
FairSpec == Spec /\ Fairness

-----------------------------------------------------------------------------
(* The wallets row opens with the password the user last chose, whatever    *)
(* passes were in flight when it changed: the lockout secretMigration.ts    *)
(* says its compare-and-swap is there to prevent.                           *)
RowOpensWithCurrentPassword == \A f \in RowFields : db[f].pw = current

(* A config secret opens with the current password too, unless a change is  *)
(* between its two databases or a best-effort re-encryption left it behind. *)
ConfigFollowsPassword ==
    \A f \in ConfigFields : db[f].pw = current \/ f \in orphaned \/ rot.pc = "written"

(* With a mnemonic that does not derive the root key, no pass writes gpw2:  *)
(* only a password change still can.                                        *)
EquivalenceGate ==
    [][~paired /\ RowTexts # {} /\ rot' = rot
         => \A f \in Fields : db'[f].fmt = "gpw2" => db[f].fmt = "gpw2"]_vars

(* While the flag stands still no writer stores a field in a weaker format, *)
(* the password change working from a stale copy included.                  *)
NoDowngrade == [][\A f \in Fields : Rank(db'[f].fmt) >= Rank(db[f].fmt)]_vars

(* A session that stops checking has nothing left to upgrade: with the flag *)
(* standing still, every secret that follows the current password is in the *)
(* format the session remembers as complete.                                *)
Following == {f \in Fields \ orphaned : db[f].pw = current}
ClaimIsTrue ==
    /\ claim = "gpw2" => \A f \in Following : db[f].fmt = "gpw2"
    /\ claim = "standard" => \A f \in Following \cap Texts : db[f].fmt # "legacy"

(* Every pass ends, on every outcome: none keeps the mutex from the next. *)
PassesEnd == \A t \in Passes : task[t].pc # "idle" ~> task[t].pc = "idle"

(* Not kept by the code (README, Disagreements): no run checks it.          *)
(* A WalletBg copy that opens with the current password is not put back     *)
(* under an earlier one by a pass that was still finishing.                 *)
MemNeverReverts ==
    [][mem # NoMem /\ mem' # NoMem /\ current' = current /\ mem[Root].pw = current
         => mem'[Root].pw = current]_vars
=============================================================================
