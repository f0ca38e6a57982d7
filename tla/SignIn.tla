------------------------------- MODULE SignIn -------------------------------
(***************************************************************************)
(* Sign-in with a second factor: enrolment of an authenticator, recovery   *)
(* codes, MFA challenges and the sessions they turn into (app/auth.go,     *)
(* app/auth_mfa.go, db/auth.go, db/auth_mfa.go, db/recovery.go).           *)
(*                                                                         *)
(* A request reads, then writes in transactions of its own; SQLite runs    *)
(* one transaction at a time and other requests run in between.  Passwords *)
(* are right here: what a wrong password or code costs is the subject of   *)
(* LoginThrottle, and a request that is refused, fails or is cancelled     *)
(* takes GiveUp.  The approval of a device, which only selects a throttle  *)
(* scope, is left out.  The clock counts TOTP steps.                       *)
(***************************************************************************)
EXTENDS Naturals

CONSTANTS Requests,       \* concurrent requests
          Challenges,     \* ids of login_mfa_challenges rows
          Sessions,       \* ids of auth_sessions rows
          NoId,           \* no row
          CodesPerSet,    \* mfaRecoveryCodeCount
          ChallengeLife,  \* mfaChallengeLifetime, in TOTP steps
          MaxNow,         \* bound: last instant of the clock
          MaxSecrets,     \* bound: TOTP secrets ever generated
          MaxSets         \* bound: sets of recovery codes ever generated

ASSUME SignInAssumption ==
    /\ NoId \notin Challenges \cup Sessions
    /\ CodesPerSet \in Nat \ {0}
    /\ ChallengeLife \in Nat \ {0}
    /\ MaxNow \in Nat
    /\ MaxSecrets \in Nat
    /\ MaxSets \in Nat

VARIABLES now,         \* the clock
          totp,        \* the owner's user_mfa_totp row
          codes,       \* user_mfa_recovery_codes: the stored set and its unused codes
          secrets,     \* how many secrets have been generated
          sets,        \* how many sets of recovery codes have been generated
          challenges,  \* login_mfa_challenges
          sessions,    \* auth_sessions
          requests,    \* per request: its stage and what it has read
          spent        \* history: the codes a transaction has accepted

vars == <<now, totp, codes, secrets, sets, challenges, sessions, requests, spent>>

Skew == 1  \* mfaClockSkewSteps

(* A code is known by the secret or the code set it comes from and by its  *)
(* step or its number in the set.                                          *)
NoCode  == [kind |-> "none", of |-> 0, n |-> 0]
NoTOTP  == [status |-> "none", secret |-> 0, lastUsedStep |-> 0]
NoCodes == [set |-> 0, unused |-> {}]
Idle    == [pc |-> "idle", challenge |-> NoId, secret |-> 0, code |-> NoCode]

Stages == {"idle", "issue", "password", "second_factor", "match", "totp", "recovery",
           "consume", "complete", "begin", "confirm", "activate", "regenerate"}

CodeIds == [kind : {"none", "totp", "recovery"}, of : Nat, n : Nat]

(* lastUsedStep holds last_used_step + 1, so that 0 can stand for NULL. *)
TypeOK ==
    /\ now \in Nat
    /\ totp \in [status : {"none", "pending", "active"}, secret : Nat, lastUsedStep : Nat]
    /\ codes \in [set : Nat, unused : SUBSET (1..CodesPerSet)]
    /\ secrets \in Nat
    /\ sets \in Nat
    /\ challenges \in [Challenges -> [state : {"free", "open", "consumed", "deleted"}, expires : Nat]]
    /\ sessions \in [Sessions -> [state : {"free", "live", "ended"}, challenge : Challenges \cup {NoId}]]
    /\ requests \in [Requests -> [pc : Stages, challenge : Challenges \cup {NoId}, secret : Nat,
                                  code : CodeIds]]
    /\ spent \subseteq CodeIds

Init ==
    /\ now = 0
    /\ totp = NoTOTP
    /\ codes = NoCodes
    /\ secrets = 0
    /\ sets = 0
    /\ challenges = [c \in Challenges |-> [state |-> "free", expires |-> 0]]
    /\ sessions = [s \in Sessions |-> [state |-> "free", challenge |-> NoId]]
    /\ requests = [r \in Requests |-> Idle]
    /\ spent = {}

-----------------------------------------------------------------------------
(* Stages of a request *)

At(r, stage) == requests[r].pc = stage

Enter(r, stage) == requests' = [requests EXCEPT ![r].pc = stage]

Accepted(r) == requests' = [requests EXCEPT ![r].pc = "consume", ![r].code = NoCode]

Done(r) == requests' = [requests EXCEPT ![r] = Idle]

(* totp.Validate and admitTOTPStep: the step is at most Skew away from now. *)
InWindow(step) == step <= now + Skew /\ now <= step + Skew

(* ReadMFATOTP, with the status the caller goes on with. *)
ReadMFATOTP(r, status, stage) ==
    /\ totp.status = status
    /\ requests' = [requests EXCEPT ![r].pc = stage, ![r].secret = totp.secret]

(* The request ends without a further write: a read finds nothing, a guard *)
(* refuses, the throttle blocks, the client goes away, the database fails. *)
GiveUp(r) ==
    /\ ~At(r, "idle")
    /\ Done(r)
    /\ UNCHANGED <<now, totp, codes, secrets, sets, challenges, sessions, spent>>

-----------------------------------------------------------------------------
(* Login: the password is right; what is owed now depends on mfaActive. *)

LoginVerified(r) ==
    /\ At(r, "idle")
    /\ Enter(r, IF totp.status = "active" THEN "issue" ELSE "password")
    /\ UNCHANGED <<now, totp, codes, secrets, sets, challenges, sessions, spent>>

mfaChallengeFor(r) ==
    /\ At(r, "issue")
    /\ \E c \in Challenges :
         /\ challenges[c].state = "free"
         /\ challenges' = [challenges EXCEPT ![c] = [state |-> "open", expires |-> now + ChallengeLife]]
    /\ Done(r)
    /\ UNCHANGED <<now, totp, codes, secrets, sets, sessions, spent>>

NewSession(r) ==
    \E s \in Sessions :
      /\ sessions[s].state = "free"
      /\ sessions' = [sessions EXCEPT ![s] = [state |-> "live", challenge |-> requests[r].challenge]]

(* The EXISTS of CompleteLogin: a sign-in by challenge needs its row, still *)
(* consumed, and an active enrolment.                                       *)
ChallengeStands(r) ==
    challenges[requests[r].challenge].state = "consumed" /\ totp.status = "active"

CompleteLogin(r) ==
    /\ \/ At(r, "password")
       \/ At(r, "complete") /\ ChallengeStands(r)
    /\ NewSession(r)
    /\ Done(r)
    /\ UNCHANGED <<now, totp, codes, secrets, sets, challenges, spent>>

-----------------------------------------------------------------------------
(* CompleteLoginMFA *)

ReadMFAChallenge(r) ==
    /\ At(r, "idle")
    /\ \E c \in Challenges :
         /\ challenges[c].state = "open"
         /\ now < challenges[c].expires
         /\ requests' = [requests EXCEPT ![r].pc = "second_factor", ![r].challenge = c]
    /\ UNCHANGED <<now, totp, codes, secrets, sets, challenges, sessions, spent>>

verifySecondFactor(r) ==
    /\ At(r, "second_factor")
    /\ ReadMFATOTP(r, "active", "match")
    /\ UNCHANGED <<now, totp, codes, secrets, sets, challenges, sessions, spent>>

(* The submitted code either matches a step of the secret that was read,   *)
(* or is looked up as a recovery code.  A secret that cannot be opened     *)
(* leaves the second alternative only.                                     *)
MatchCode(r) ==
    /\ At(r, "match")
    /\ \/ \E step \in 0..(now + Skew) :
            /\ InWindow(step)
            /\ requests' = [requests EXCEPT ![r].pc = "totp",
                                            ![r].code = [kind |-> "totp", of |-> requests[r].secret, n |-> step]]
       \/ \E n \in codes.unused :
            requests' = [requests EXCEPT ![r].pc = "recovery", ![r].code = [kind |-> "recovery", of |-> codes.set, n |-> n]]
    /\ UNCHANGED <<now, totp, codes, secrets, sets, challenges, sessions, spent>>

(* Mutant: the replay counter is not compared. *)
FreshSecretOnly(r) == totp.status = "active" /\ totp.secret = requests[r].secret

(* The WHERE of RecordMFATOTPUse. *)
Fresh(r) ==
    /\ totp.status = "active"
    /\ totp.secret = requests[r].secret
    /\ totp.lastUsedStep < requests[r].code.n + 1

RecordMFATOTPUse(r) ==
    /\ At(r, "totp")
    /\ InWindow(requests[r].code.n)
    /\ Fresh(r)
    /\ totp' = [totp EXCEPT !.lastUsedStep = requests[r].code.n + 1]
    /\ spent' = spent \cup {requests[r].code}
    /\ Accepted(r)
    /\ UNCHANGED <<now, codes, secrets, sets, challenges, sessions>>

ConsumeMFARecoveryCode(r) ==
    /\ At(r, "recovery")
    /\ codes.set = requests[r].code.of
    /\ requests[r].code.n \in codes.unused
    /\ codes' = [codes EXCEPT !.unused = @ \ {requests[r].code.n}]
    /\ spent' = spent \cup {requests[r].code}
    /\ Accepted(r)
    /\ UNCHANGED <<now, totp, secrets, sets, challenges, sessions>>

(* Mutant: the challenge is marked, not claimed. *)
ConsumeTwice(r) ==
    LET c == requests[r].challenge
    IN  /\ At(r, "consume")
        /\ challenges[c].state \in {"open", "consumed"}
        /\ now < challenges[c].expires
        /\ challenges' = [challenges EXCEPT ![c].state = "consumed"]
        /\ Enter(r, "complete")
        /\ UNCHANGED <<now, totp, codes, secrets, sets, sessions, spent>>

ConsumeMFAChallenge(r) ==
    LET c == requests[r].challenge
    IN  /\ At(r, "consume")
        /\ challenges[c].state = "open"
        /\ now < challenges[c].expires
        /\ challenges' = [challenges EXCEPT ![c].state = "consumed"]
        /\ Enter(r, "complete")
        /\ UNCHANGED <<now, totp, codes, secrets, sets, sessions, spent>>

-----------------------------------------------------------------------------
(* Management of the second factor, by a signed-in owner *)

replaceMFARecoveryCodesTx ==
    /\ sets < MaxSets
    /\ sets' = sets + 1
    /\ codes' = [set |-> sets + 1, unused |-> 1..CodesPerSet]

BeginTOTPEnrollment(r) ==
    /\ At(r, "idle")
    /\ totp.status # "active"
    /\ Enter(r, "begin")
    /\ UNCHANGED <<now, totp, codes, secrets, sets, challenges, sessions, spent>>

(* Replaces a pending enrolment, never an active one. *)
UpsertMFATOTP(r) ==
    /\ At(r, "begin")
    /\ totp.status # "active"
    /\ secrets < MaxSecrets
    /\ totp' = [status |-> "pending", secret |-> secrets + 1, lastUsedStep |-> 0]
    /\ secrets' = secrets + 1
    /\ Done(r)
    /\ UNCHANGED <<now, codes, sets, challenges, sessions, spent>>

ActivateTOTP(r) ==
    /\ At(r, "idle")
    /\ ReadMFATOTP(r, "pending", "confirm")
    /\ UNCHANGED <<now, totp, codes, secrets, sets, challenges, sessions, spent>>

ConfirmCode(r) ==
    /\ At(r, "confirm")
    /\ \E step \in 0..(now + Skew) :
         /\ InWindow(step)
         /\ requests' = [requests EXCEPT ![r].pc = "activate",
                                         ![r].code = [kind |-> "totp", of |-> requests[r].secret, n |-> step]]
    /\ UNCHANGED <<now, totp, codes, secrets, sets, challenges, sessions, spent>>

(* Mutant: the codes are to be stored after the activation commits. *)
ActivateWithoutCodes(r) ==
    /\ At(r, "activate")
    /\ InWindow(requests[r].code.n)
    /\ totp.status = "pending"
    /\ totp.secret = requests[r].secret
    /\ totp' = [totp EXCEPT !.status = "active", !.lastUsedStep = requests[r].code.n + 1]
    /\ spent' = spent \cup {requests[r].code}
    /\ Done(r)
    /\ UNCHANGED <<now, codes, secrets, sets, challenges, sessions>>

ActivateMFATOTPWithRecoveryCodes(r) ==
    /\ At(r, "activate")
    /\ InWindow(requests[r].code.n)
    /\ totp.status = "pending"
    /\ totp.secret = requests[r].secret
    /\ totp' = [totp EXCEPT !.status = "active", !.lastUsedStep = requests[r].code.n + 1]
    /\ replaceMFARecoveryCodesTx
    /\ spent' = spent \cup {requests[r].code}
    /\ Done(r)
    /\ UNCHANGED <<now, secrets, challenges, sessions>>

RegenerateRecoveryCodes(r) ==
    /\ At(r, "idle")
    /\ totp.status = "active"
    /\ Enter(r, "regenerate")
    /\ UNCHANGED <<now, totp, codes, secrets, sets, challenges, sessions, spent>>

ReplaceMFARecoveryCodes(r) ==
    /\ At(r, "regenerate")
    /\ replaceMFARecoveryCodesTx
    /\ Done(r)
    /\ UNCHANGED <<now, totp, secrets, challenges, sessions, spent>>

(* Mutant: disabling leaves the challenges alone. *)
KeepChallenges == UNCHANGED challenges

NoOpenChallenge ==
    challenges' = [c \in Challenges |->
                     IF challenges[c].state = "free" THEN challenges[c]
                     ELSE [challenges[c] EXCEPT !.state = "deleted"]]

(* One transaction for the enrolment, its codes and every challenge. *)
DeleteMFATOTP ==
    /\ totp' = NoTOTP
    /\ codes' = NoCodes
    /\ NoOpenChallenge
    /\ UNCHANGED <<now, secrets, sets, sessions, requests, spent>>

-----------------------------------------------------------------------------
(* Sessions, upkeep and recovery *)

Logout(s) ==
    /\ sessions[s].state = "live"
    /\ sessions' = [sessions EXCEPT ![s].state = "ended"]
    /\ UNCHANGED <<now, totp, codes, secrets, sets, challenges, requests, spent>>

(* The daily cleanup of challenges and sessions.  A session that was       *)
(* revoked is "ended" whether or not its row still exists, since nothing   *)
(* reads it again; a session's expiry is far beyond this horizon.          *)
Cleanup ==
    /\ challenges' = [c \in Challenges |->
                        IF \/ challenges[c].state = "consumed"
                           \/ challenges[c].state = "open" /\ challenges[c].expires <= now
                        THEN [challenges[c] EXCEPT !.state = "deleted"] ELSE challenges[c]]
    /\ UNCHANGED <<now, totp, codes, secrets, sets, sessions, requests, spent>>

(* recover-owner owns the server's lock, so no request is running: the     *)
(* ones that were died with the server.                                    *)
RecoverOwner ==
    /\ requests' = [r \in Requests |-> Idle]
    /\ sessions' = [s \in Sessions |->
                      IF sessions[s].state = "live"
                      THEN [sessions[s] EXCEPT !.state = "ended"] ELSE sessions[s]]
    /\ totp' = NoTOTP
    /\ codes' = NoCodes
    /\ NoOpenChallenge
    /\ UNCHANGED <<now, secrets, sets, spent>>

Tick ==
    /\ now < MaxNow
    /\ now' = now + 1
    /\ UNCHANGED <<totp, codes, secrets, sets, challenges, sessions, requests, spent>>

Next ==
    \/ \E r \in Requests :
         \/ GiveUp(r) \/ LoginVerified(r) \/ mfaChallengeFor(r) \/ CompleteLogin(r)
         \/ ReadMFAChallenge(r) \/ verifySecondFactor(r) \/ MatchCode(r)
         \/ RecordMFATOTPUse(r) \/ ConsumeMFARecoveryCode(r) \/ ConsumeMFAChallenge(r)
         \/ BeginTOTPEnrollment(r) \/ UpsertMFATOTP(r)
         \/ ActivateTOTP(r) \/ ConfirmCode(r) \/ ActivateMFATOTPWithRecoveryCodes(r)
         \/ RegenerateRecoveryCodes(r) \/ ReplaceMFARecoveryCodes(r)
    \/ \E s \in Sessions : Logout(s)
    \/ DeleteMFATOTP \/ Cleanup \/ RecoverOwner \/ Tick

Spec == Init /\ [][Next]_vars

-----------------------------------------------------------------------------
(* Properties *)

(* One password verification yields at most one session: of the requests   *)
(* that race to finish a challenge, each with a code that passed, only one *)
(* wins ConsumeMFAChallenge, and its sign-in is completed once.            *)
OneSessionPerChallenge ==
    \A s, t \in Sessions :
      /\ s # t
      /\ sessions[s].challenge # NoId
      => sessions[s].challenge # sessions[t].challenge

Accepts(r) == \/ requests[r].pc \in {"totp", "recovery"} /\ requests'[r].pc = "consume"
              \/ At(r, "activate") /\ requests'[r] = Idle /\ totp'.status = "active" /\ totp.status = "pending"

(* A code passes once: neither a TOTP code within its step, nor the code   *)
(* that activated the enrolment, nor a recovery code is accepted again, by *)
(* whichever request and in whatever order the transactions run.           *)
NoCodeIsAcceptedTwice ==
    [][\A r \in Requests : Accepts(r) => requests[r].code \notin spent]_vars

(* A sign-in that verified its second factor against one enrolment never   *)
(* becomes a session under another: disabling MFA ends every sign-in that  *)
(* is under way, even when MFA is enrolled anew before it completes.       *)
FactorIsCurrent ==
    [][\A s \in Sessions, r \in Requests :
         /\ sessions[s].state = "free" /\ sessions'[s].state = "live"
         /\ At(r, "complete") /\ requests'[r] = Idle
         => totp.status = "active" /\ requests[r].secret = totp.secret]_vars

(* MFA guards sign-in only with a secret some authenticator has proved to  *)
(* hold: a code for a pending secret that was replaced meanwhile does not  *)
(* activate its successor.                                                 *)
ActiveSecretWasProven ==
    totp.status = "active" => \E c \in spent : c.kind = "totp" /\ c.of = totp.secret

(* The owner is never left with an authenticator and no way back: an       *)
(* active enrolment has a full set of recovery codes, less the spent ones. *)
RecoveryCodesAreWhole ==
    totp.status = "active" =>
      /\ codes.set # 0
      /\ codes.unused = {n \in 1..CodesPerSet : [kind |-> "recovery", of |-> codes.set, n |-> n] \notin spent}

(* The stored factor is well formed, proven, and has a way back.           *)
FactorIsSound == TypeOK /\ ActiveSecretWasProven /\ RecoveryCodesAreWhole

-----------------------------------------------------------------------------
(* The inductive invariant *)

Signing  == {"second_factor", "match", "totp", "recovery", "consume", "complete"}
Verified == Signing \ {"second_factor"}

(* What a request relies on between its transactions: its challenge exists *)
(* and, while it stands, was verified against the present enrolment; a     *)
(* matched code is of the kind and the secret it will be consumed for; and *)
(* a consumed challenge has no session yet.                                *)
Fits(q) ==
    /\ q.pc \notin Signing => q.challenge = NoId
    /\ q.pc \in Signing => q.challenge \in Challenges /\ challenges[q.challenge].state # "free"
    /\ q.pc \in Verified /\ challenges[q.challenge].state \in {"open", "consumed"} =>
          totp.status = "active" /\ totp.secret = q.secret
    /\ q.pc = "complete" => /\ challenges[q.challenge].state # "open"
                           /\ \A s \in Sessions : sessions[s].challenge # q.challenge
    /\ q.pc \in {"totp", "activate"} => q.code.kind = "totp" /\ q.code.of = q.secret
    /\ q.pc = "recovery" => q.code.kind = "recovery"

(* A challenge in a session, or about to become one, is used up.           *)
ChallengeInv ==
    /\ \A r \in Requests : Fits(requests[r])
    /\ \A q, r \in Requests :
          At(q, "complete") /\ At(r, "complete") /\ requests[q].challenge = requests[r].challenge => q = r
    /\ \A s \in Sessions :
          sessions[s].challenge # NoId => challenges[sessions[s].challenge].state \in {"consumed", "deleted"}
    /\ OneSessionPerChallenge

(* Spent codes come from secrets and sets that were issued; those of the   *)
(* present secret are behind the replay counter, those of the present set  *)
(* are no longer among the unused ones.                                    *)
CodeInv ==
    /\ totp.secret <= secrets /\ codes.set <= sets
    /\ \A c \in spent :
          /\ c.kind = "totp" => c.of <= secrets
          /\ c.kind = "recovery" => c.of <= sets
          /\ c.kind = "totp" /\ c.of = totp.secret /\ totp.status # "none" =>
                totp.status = "active" /\ c.n < totp.lastUsedStep
    /\ codes.set # 0 =>
          codes.unused = {n \in 1..CodesPerSet : [kind |-> "recovery", of |-> codes.set, n |-> n] \notin spent}
    /\ codes.set = 0 => codes.unused = {}
    /\ totp.status = "active" => codes.set # 0
    /\ ActiveSecretWasProven

SignInInv == TypeOK /\ ChallengeInv /\ CodeInv
=============================================================================
