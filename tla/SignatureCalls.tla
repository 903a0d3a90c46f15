---------------------------- MODULE SignatureCalls ----------------------------
(***************************************************************************)
(* What requestSignature promises its caller, with no wire and no timers:  *)
(* a call is answered at most once; it is answered "approved" only for a   *)
(* request that was offered for this very call, that a user approved, and  *)
(* that had not lapsed; an answered call offers nothing more; and it is    *)
(* offered anew at most MaxReissues times.                                 *)
(***************************************************************************)
EXTENDS Naturals, FiniteSets

CONSTANTS Calls, MaxReissues

Requests == [call : Calls, n : 1..(MaxReissues + 1)]

VARIABLES
    answer,     \* of each call: "idle", "open", "approved" or "rejected"
    offered,    \* requests put before other devices
    approved,   \* requests some user approved
    lapsed      \* requests whose time has passed

avars == <<answer, offered, approved, lapsed>>

Init ==
    /\ answer = [c \in Calls |-> "idle"]
    /\ offered = {} /\ approved = {} /\ lapsed = {}

Open(c) ==
    /\ answer[c] = "idle"
    /\ answer' = [answer EXCEPT ![c] = "open"]
    /\ UNCHANGED <<offered, approved, lapsed>>

Offer(r) ==
    /\ answer[r.call] = "open"
    /\ r \notin offered
    /\ offered' = offered \cup {r}
    /\ UNCHANGED <<answer, approved, lapsed>>

UserApproves(r) ==
    /\ r \in offered
    /\ approved' = approved \cup {r}
    /\ UNCHANGED <<answer, offered, lapsed>>

Lapse(r) ==
    /\ lapsed' = lapsed \cup {r}
    /\ UNCHANGED <<answer, offered, approved>>

Approve(r) ==
    /\ answer[r.call] = "open"
    /\ r \in (offered \cap approved) \ lapsed
    /\ answer' = [answer EXCEPT ![r.call] = "approved"]
    /\ UNCHANGED <<offered, approved, lapsed>>

(* A logout rejects every open call at once. *)
Reject(S) ==
    /\ \A c \in S : answer[c] = "open"
    /\ answer' = [c \in Calls |-> IF c \in S THEN "rejected" ELSE answer[c]]
    /\ UNCHANGED <<offered, approved, lapsed>>

Next ==
    \/ \E c \in Calls : Open(c)
    \/ \E r \in Requests : Offer(r) \/ UserApproves(r) \/ Lapse(r) \/ Approve(r)
    \/ \E S \in SUBSET Calls : Reject(S)

Spec == Init /\ [][Next]_avars
=============================================================================
