----------------------------- MODULE SubmitRouter -----------------------------
(***************************************************************************)
(* The way a Cardano transaction leaves the wallet (submitRouter.ts) and the *)
(* setting it reads (submitApiSettings.ts, submitApiStore.ts): the user's    *)
(* own endpoint, Gero's path as the fallback, what the caller is told and    *)
(* what the settings page shows as the last result.                          *)
(*                                                                         *)
(* One wallet.  Every submit is of a transaction of its own.  An auth header *)
(* value is named by the origin it was typed for.  The two rows are read in  *)
(* one turn, so a submit sees both of before a save or both of after it.     *)
(*                                                                         *)
(* What an endpoint's answer says of its node is the table of the design     *)
(* (docs/superpowers/specs/2026-10-08-submit-api-design.md, 6.3 and 6.5): a   *)
(* 400 is the node's, any other 4xx but 408 came before any node.            *)
(*                                                                         *)
(* The specification, its parts and its variables are named for the router,  *)
(* so that one module of proofs can extend this module and NotifyLinks.      *)
(***************************************************************************)
EXTENDS Naturals

CONSTANTS
    Submits,     \* transactions handed to submitCardanoTx
    Origins,     \* hosts a user may name
    Pages,       \* extension pages with a settings dialog open
    MaxSettings, \* bound: saves and resets
    NoConfig,    \* no submitApi row
    Unread,      \* the wallet's database could not be read
    NoKey,       \* no submitApiAuth row
    NoResult,    \* no last result
    NoRequest,   \* no request yet
    NoForm       \* a page that saves nothing

ASSUME SettingsAssumption == MaxSettings \in Nat
ASSUME NamesAssumption == NoKey \notin Origins

VARIABLES
    config, auth,  \* the two rows of the wallet's config table
    settings,      \* saves and resets so far
    saving,        \* the save or the reset of each page that is under way
    last,          \* submitApiLastResult in chrome.storage.session
    submits,       \* the submits
    told,          \* what each caller got
    landed,        \* transactions that some node has taken
    request,       \* the one last made by the worker: its origin, its auth header
    mixed          \* ghost: origins and values that a save put together whose value
                   \* was replaced after its check

routerVars == <<config, auth, settings, saving, last, submits, told, landed, request, mixed>>
setting == <<config, auth, settings, saving, mixed>>

Keys == Origins \cup {NoKey}
Config == [origin : Origins, hasAuth : BOOLEAN, fallback : BOOLEAN, valid : BOOLEAN]

(* The endpoint's answers: 2xx with this transaction's id, with another one  *)
(* or with none; 400; 401, 403, 404, 405, 415, 425, 429; any other 4xx; 408; *)
(* 5xx, a timeout or a lost connection.                                      *)
Accepted == {"own", "other", "odd"}
Custom   == Accepted \cup {"rejected", "refused", "ineligible", "late", "error"}

(* Gero's: 2xx with an id or with another body, 400, another 4xx, 5xx or     *)
(* nothing; or the fetch throws.                                             *)
Gero == {"sent", "odd", "rejected", "refused", "unknown", "thrown"}

(* A body that is no id: WalletBg and the CIP-30 handler call it a failure,   *)
(* WalletConnect hands it on as the answer.                                   *)
Unclear == {"unexpected", "relayed"}
Told == (Gero \ {"odd"}) \cup Unclear \cup {"none", "unsent"}

Result == [of : Submits, via : {"custom", "default"}, failed : BOOLEAN]

Waiting == {"post", "fallback", "default"}
Submit == [at : {"idle", "record", "done"} \cup Waiting,
           seen : Config \cup {NoConfig, Unread}, key : Keys,
           custom : Custom \cup {"none"}, gero : Gero \cup {"none"}]

(* A form as the check takes it, and the value the row had then (key).  The   *)
(* fallback switch plays no part in the check: it is chosen at the write.    *)
Form == [origin : Origins, header : {"keep", "new", "none"}]
Saving == [at : {"idle", "write", "drop"}, form : Form \cup {NoForm}, key : Keys]
NoSave == [at |-> "idle", form |-> NoForm, key |-> NoKey]
Drop   == [at |-> "drop", form |-> NoForm, key |-> NoKey]

RouterTypeOK ==
    /\ config \in Config \cup {NoConfig}
    /\ auth \in Keys
    /\ settings \in 0..MaxSettings
    /\ saving \in [Pages -> Saving]
    /\ last \in Result \cup {NoResult}
    /\ submits \in [Submits -> Submit]
    /\ told \in [Submits -> Told]
    /\ landed \subseteq Submits
    /\ request \in (Origins \X Keys) \cup {NoRequest}
    /\ mixed \subseteq Origins \X Keys

Nothing(at) ==
    [at |-> at, seen |-> Unread, key |-> NoKey, custom |-> "none", gero |-> "none"]

(* A row may be spoilt, or its secret lost.                                  *)
RouterInit ==
    /\ \/ config = NoConfig /\ auth = NoKey
       \/ /\ config \in Config
          /\ auth \in {NoKey} \cup (IF config.hasAuth THEN {config.origin} ELSE {})
    /\ settings = 0 /\ saving = [p \in Pages |-> NoSave] /\ last = NoResult
    /\ submits = [s \in Submits |-> Nothing("idle")]
    /\ told = [s \in Submits |-> "none"]
    /\ landed = {} /\ request = NoRequest /\ mixed = {}

-----------------------------------------------------------------------------
(* submitCardanoTx.                                                          *)

Eligible       == {"refused", "late", "error"}
MayHaveReached == {"late", "error"}

(* The setting as a submit finds it: a row that does not validate, or whose  *)
(* secret is gone, is no row to send by.                                     *)
Usable(c, k) == c.valid /\ (c.hasAuth => k # NoKey)
AuthOf(c, k) == IF c.hasAuth THEN k ELSE NoKey

NextAtMutant(c, k) ==                      \* mutant: an unusable row is as good as none
    IF c # NoConfig /\ Usable(c, k) THEN "post" ELSE "default"
NextAt(c, k) ==
    IF c = NoConfig THEN "default" ELSE IF Usable(c, k) THEN "post" ELSE "record"

Read(s) ==
    /\ submits[s].at = "idle"
    /\ submits' = [submits EXCEPT ![s].at = NextAt(config, auth), ![s].seen = config,
                                  ![s].key = IF config = NoConfig THEN NoKey ELSE AuthOf(config, auth)]
    /\ UNCHANGED <<setting, last, told, landed, request>>

(* The caller has no wallet: there is no setting to read.                    *)
WithoutWallet(s) ==
    /\ submits[s].at = "idle"
    /\ submits' = [submits EXCEPT ![s].at = "default", ![s].seen = NoConfig]
    /\ UNCHANGED <<setting, last, told, landed, request>>

Returns(s, outcome) ==
    /\ submits' = [submits EXCEPT ![s] = Nothing("done")]
    /\ told' = [told EXCEPT ![s] = outcome]

(* The database cannot be read: nothing is sent, nothing is recorded.        *)
ReadFails(s) ==
    /\ submits[s].at = "idle"
    /\ Returns(s, "unsent")
    /\ UNCHANGED <<setting, last, landed, request>>

(* Not hex: the caller gets a 400, nothing is recorded.                      *)
Malformed(s) ==
    /\ submits[s].at = "post"
    /\ Returns(s, "rejected")
    /\ UNCHANGED <<setting, last, landed, request>>

FallsBack(c, answer) == c.fallback /\ answer \in Eligible

(* A request that a node may have taken, whatever became of its answer.      *)
Lands(s, must, may) ==
    \/ must /\ landed' = landed \cup {s}
    \/ ~must /\ may /\ landed' = landed \cup {s}
    \/ ~must /\ UNCHANGED landed

PostToEndpoint(s) ==
    \E answer \in Custom :
        /\ submits[s].at = "post"
        /\ submits' = [submits EXCEPT ![s].custom = answer,
                                      ![s].at = IF FallsBack(submits[s].seen, answer)
                                                THEN "fallback" ELSE "record"]
        /\ Lands(s, answer = "own", answer \in Accepted \cup MayHaveReached)
        /\ request' = <<submits[s].seen.origin, submits[s].key>>
        /\ UNCHANGED <<setting, last, told>>

(* What the caller makes of the outcome.  Only a 400 is the node's word: a   *)
(* 408 is worded like any other 4xx ("refused"), 5xx and silence as unknown. *)
CustomTold(answer) ==
    CASE answer = "own" -> "sent"
      [] answer \in {"other", "odd", "error"} -> "unknown"
      [] answer = "rejected" -> "rejected"
      [] answer \in {"refused", "ineligible", "late"} -> "refused"
      [] answer = "none" -> "unsent"       \* the setting is invalid

(* If the endpoint did pass it on, Gero's node sees spent inputs: a 400 of it *)
(* then says nothing.                                                        *)
FallbackToldMutant(custom, gero) == gero   \* mutant: the fallback's answer as it is
FallbackTold(custom, gero) ==
    IF gero = "rejected" /\ custom \in MayHaveReached THEN "unknown" ELSE gero

(* What the caller may make of it: the router hands on any 2xx of Gero's.    *)
Heard(outcome) == IF outcome = "odd" THEN Unclear ELSE {outcome}
Outcomes(u) ==
    IF u.gero = "none" THEN {CustomTold(u.custom)} ELSE Heard(FallbackTold(u.custom, u.gero))

(* defaultSubmit, alone or as the fallback.                                  *)
DefaultSubmit(s) ==
    \E answer \in Gero :
        /\ submits[s].at \in {"default", "fallback"}
        /\ Lands(s, answer = "sent", answer \in {"odd", "unknown", "thrown"})
        /\ IF submits[s].at = "default"
           THEN \E outcome \in Heard(answer) : Returns(s, outcome)
           ELSE /\ submits' = [submits EXCEPT ![s].gero = answer, ![s].at = "record"]
                /\ UNCHANGED told
        /\ UNCHANGED <<setting, last, request>>

LastResultMutant(s) ==                     \* mutant: via Gero, however the fallback ended
    [of |-> s, via |-> IF submits[s].gero # "none" THEN "default" ELSE "custom",
     failed |-> submits[s].custom # "own"]
LastResult(s) ==
    [of |-> s, via |-> IF submits[s].gero \in {"sent", "odd"} THEN "default" ELSE "custom",
     failed |-> submits[s].custom # "own"]

(* recordLastResult, and the answer to the caller.  A write that fails is    *)
(* swallowed.                                                                *)
RecordLastResult(s) ==
    /\ submits[s].at = "record"
    /\ last' \in {LastResult(s), last}
    /\ \E outcome \in Outcomes(submits[s]) : Returns(s, outcome)
    /\ UNCHANGED <<setting, landed, request>>

-----------------------------------------------------------------------------
(* The settings page.  A dialog is disabled while its own request runs, but   *)
(* several pages may have one open: between the check of a save and its write *)
(* another page's save or reset may come.                                     *)

(* The saved value is kept only by a row that validates, and never follows   *)
(* the URL to another origin.                                                *)
Keeps(o) ==
    config # NoConfig /\ config.valid /\ config.hasAuth /\ auth # NoKey /\ config.origin = o

KeyFor(o, header) ==
    CASE header = "keep" -> auth [] header = "new" -> o [] header = "none" -> NoKey

Validates(f) == f.header = "keep" => Keeps(f.origin)

Counted == settings < MaxSettings /\ settings' = settings + 1

(* validateRequest: the rows as they are now.                                *)
CheckSave(p, f) ==
    /\ saving[p].at = "idle" /\ Counted /\ Validates(f)
    /\ saving' = [saving EXCEPT ![p] = [at |-> "write", form |-> f, key |-> auth]]
    /\ UNCHANGED <<config, auth, last, submits, told, landed, request, mixed>>

(* writeSubmitApi: the value to be kept is left as it is now found.          *)
SaveSubmitApi(p) ==
    LET f == saving[p].form IN
    /\ saving[p].at = "write"
    /\ \E fallback \in BOOLEAN :
           config' = [origin |-> f.origin, hasAuth |-> f.header # "none",
                      fallback |-> fallback, valid |-> TRUE]
    /\ auth' = KeyFor(f.origin, f.header)
    /\ mixed' = mixed \cup IF f.header = "keep" /\ auth # saving[p].key
                           THEN {<<f.origin, auth>>} ELSE {}
    /\ saving' = [saving EXCEPT ![p] = Drop]
    /\ UNCHANGED <<settings, last, submits, told, landed, request>>

(* The database fails.                                                       *)
SaveFails(p) ==
    /\ saving[p].at = "write"
    /\ saving' = [saving EXCEPT ![p] = NoSave]
    /\ UNCHANGED <<config, auth, settings, last, submits, told, landed, request, mixed>>

ResetSubmitApi(p) ==
    /\ saving[p].at = "idle" /\ Counted
    /\ config' = NoConfig /\ auth' = NoKey
    /\ saving' = [saving EXCEPT ![p] = Drop]
    /\ UNCHANGED <<last, submits, told, landed, request, mixed>>

DropLastResult(p) ==
    /\ saving[p].at = "drop"
    /\ saving' = [saving EXCEPT ![p] = NoSave]
    /\ last' \in {NoResult, last}
    /\ UNCHANGED <<config, auth, settings, submits, told, landed, request, mixed>>

(* The probe of one byte, to the origin of the form, with the value its check *)
(* has read.                                                                  *)
TestSubmitApi(p, f) ==
    /\ saving[p].at = "idle" /\ Validates(f)
    /\ request' = <<f.origin, KeyFor(f.origin, f.header)>>
    /\ UNCHANGED <<setting, last, submits, told, landed>>

(* The browser kills the worker: a request that was out may land all the     *)
(* same, and nobody is told.                                                 *)
RouterKilled ==
    /\ \/ \E s \in Submits : submits[s].at \notin {"idle", "done"}
       \/ \E p \in Pages : saving[p].at # "idle"
    /\ submits' = [s \in Submits |-> IF submits[s].at = "idle" THEN submits[s] ELSE Nothing("done")]
    /\ \E S \in SUBSET {s \in Submits : submits[s].at \in Waiting} : landed' = landed \cup S
    /\ saving' = [p \in Pages |-> NoSave]
    /\ UNCHANGED <<config, auth, settings, last, told, request, mixed>>

Submitting(s) ==
    \/ WithoutWallet(s) \/ Read(s) \/ ReadFails(s) \/ Malformed(s) \/ PostToEndpoint(s)
    \/ DefaultSubmit(s) \/ RecordLastResult(s)

Setting(p) ==
    \/ \E f \in Form : CheckSave(p, f) \/ TestSubmitApi(p, f)
    \/ SaveSubmitApi(p) \/ SaveFails(p) \/ ResetSubmitApi(p) \/ DropLastResult(p)

RouterNext ==
    \/ \E s \in Submits : Submitting(s)
    \/ \E p \in Pages : Setting(p)
    \/ RouterKilled

RouterSpec == RouterInit /\ [][RouterNext]_routerVars

-----------------------------------------------------------------------------
(* A transaction goes Gero's way only when no endpoint was saved, when its   *)
(* caller has no wallet, or when the user turned the fallback on and the      *)
(* endpoint itself failed: not for a spoilt row, a lost secret, an unreadable *)
(* database or a node's refusal.                                              *)
ByGero(u) == u.at \in {"default", "fallback"} \/ u.gero # "none"
GeroOnlyIfAllowed ==
    \A s \in Submits : ByGero(submits[s]) =>
        \/ submits[s].seen = NoConfig
        \/ /\ submits[s].seen \in Config /\ submits[s].seen.valid /\ submits[s].seen.fallback
           /\ submits[s].custom \in Eligible

(* A caller told that the node rejected its transaction, or that nothing was *)
(* sent, can send it again: no node has it, by neither of the two ways.      *)
RejectedMeansRejected ==
    \A s \in Submits : told[s] \in {"rejected", "unsent"} => s \notin landed

(* The settings page and the caller hear the same: the last result is a      *)
(* success if and only if the caller of that submit was told that the         *)
(* transaction is sent, and then it is; and a success of the endpoint is one, *)
(* whether or not the caller lived to hear of it.  Not where Gero's 2xx held  *)
(* no transaction id (SameOfOddBody).                                         *)
Success(r) == r.via = "default" \/ ~r.failed
LastResultTrue ==
    last # NoResult =>
        /\ last.via = "custom" /\ ~last.failed => last.of \in landed
        /\ told[last.of] \notin Unclear \cup {"none"} => (Success(last) <=> told[last.of] = "sent")
        /\ told[last.of] = "sent" => last.of \in landed

(* A header value only ever goes to the origin it was typed for, over saves  *)
(* that keep it, tests of other URLs, submits that began before a save, and   *)
(* pages that save at once; except where a save kept a value that had been    *)
(* replaced since its check (KeptIsChecked).                                  *)
KeyStaysWithOrigin ==
    request # NoRequest => request[2] \in {NoKey, request[1]} \/ request \in mixed

(* Not kept by the code (README, Disagreements): no run checks it.           *)
(* A kept value cannot follow a typed URL to another origin, over two pages   *)
(* that save at once.                                                         *)
KeptIsChecked == mixed = {}

(* Not kept by the code (README, Disagreements): no run checks it.           *)
(* A submit that the settings page shows as sent is not called a failure by   *)
(* its caller: Gero's 2xx without an id is.                                   *)
SameOfOddBody ==
    last # NoResult /\ Success(last) => told[last.of] # "unexpected"

(* Not kept by the code (README, Disagreements): no run checks it.           *)
(* No wording that says "could not send" when a node may have it: a 408, and *)
(* a fallback answered 429 or 404 after a timeout, are worded so.            *)
NoFalseFailure ==
    \A s \in Submits : told[s] \in {"rejected", "refused", "unexpected", "unsent"} => s \notin landed

(* Not kept by the code (README, Disagreements): no run checks it.           *)
(* What is recorded is of the setting there is: a submit that began before a *)
(* save records after it.                                                    *)
FreshHistory ==
    [][last' \notin {last, NoResult} => submits[last'.of].seen = config]_routerVars

=============================================================================
