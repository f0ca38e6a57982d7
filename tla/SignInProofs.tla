----------------------------- MODULE SignInProofs -----------------------------
(***************************************************************************)
(* Sign-in keeps its inductive invariant for any number of concurrent      *)
(* requests, challenges, sessions, secrets and sets of recovery codes.     *)
(***************************************************************************)
EXTENDS SignIn, TLAPS

RequestRecord == [pc : Stages, challenge : Challenges \cup {NoId}, secret : Nat, code : CodeIds]

Others == <<now, totp, codes, secrets, sets, challenges, sessions, spent>>

-----------------------------------------------------------------------------
(* A request that only reads: it moves to a stage whose reliance holds. *)
LEMMA MoveKeepsInv ==
    ASSUME SignInInv, UNCHANGED Others, NEW r \in Requests, NEW q \in RequestRecord,
           requests' = [requests EXCEPT ![r] = q], Fits(q), q.pc # "complete"
    PROVE  SignInInv'
  <1>1. /\ requests'[r] = q /\ requests' \in [Requests -> RequestRecord]
        /\ \A x \in Requests : x # r => requests'[x] = requests[x]
    BY DEF SignInInv, TypeOK, RequestRecord
  <1>2. TypeOK'
    BY <1>1 DEF SignInInv, TypeOK, RequestRecord, Others
  <1>3. ChallengeInv'
    <2>1. \A x \in Requests : Fits(requests[x])'
      BY <1>1 DEF SignInInv, ChallengeInv, Fits, Others
    <2> QED BY <1>1, <2>1 DEF SignInInv, ChallengeInv, At, OneSessionPerChallenge, Others
  <1>4. CodeInv'
    BY DEF SignInInv, CodeInv, ActiveSecretWasProven, Others
  <1> QED BY <1>2, <1>3, <1>4 DEF SignInInv

(* The records a request may become, field by field. *)
Becomes(q, stage, challenge, secret, code) ==
    /\ q \in RequestRecord
    /\ q.pc = stage /\ q.challenge = challenge /\ q.secret = secret /\ q.code = code

LEMMA Moved ==
    ASSUME NEW x \in RequestRecord, NEW stage \in Stages
    PROVE  /\ Becomes([x EXCEPT !.pc = stage], stage, x.challenge, x.secret, x.code)
           /\ \A c \in Challenges :
                 Becomes([x EXCEPT !.pc = stage, !.challenge = c], stage, c, x.secret, x.code)
           /\ \A n \in Nat :
                 Becomes([x EXCEPT !.pc = stage, !.secret = n], stage, x.challenge, n, x.code)
           /\ \A code \in CodeIds :
                 Becomes([x EXCEPT !.pc = stage, !.code = code], stage, x.challenge, x.secret, code)
  <1>1. Becomes([x EXCEPT !.pc = stage], stage, x.challenge, x.secret, x.code)
    BY DEF RequestRecord, Becomes
  <1>2. ASSUME NEW c \in Challenges
        PROVE  Becomes([x EXCEPT !.pc = stage, !.challenge = c], stage, c, x.secret, x.code)
    BY DEF RequestRecord, Becomes
  <1>3. ASSUME NEW n \in Nat
        PROVE  Becomes([x EXCEPT !.pc = stage, !.secret = n], stage, x.challenge, n, x.code)
    BY DEF RequestRecord, Becomes
  <1>4. ASSUME NEW code \in CodeIds
        PROVE  Becomes([x EXCEPT !.pc = stage, !.code = code], stage, x.challenge, x.secret, code)
    BY DEF RequestRecord, Becomes
  <1> QED BY <1>1, <1>2, <1>3, <1>4

LEMMA RestIsRecord == Idle \in RequestRecord
  <1>1. NoCode \in CodeIds
    BY DEF NoCode, CodeIds
  <1>2. "idle" \in Stages
    BY DEF Stages
  <1> QED BY <1>1, <1>2 DEF RequestRecord, Idle

(* Done puts a request to rest; a resting request relies on nothing. *)
LEMMA RestFits == Fits(Idle) /\ Idle.pc # "complete"
  BY DEF Fits, Idle, Signing, Verified

(* The steps that change nothing but the request. *)
LEMMA ReadsKeepInv ==
    ASSUME SignInInv, NEW r \in Requests,
           \/ GiveUp(r) \/ LoginVerified(r) \/ ReadMFAChallenge(r) \/ verifySecondFactor(r)
           \/ MatchCode(r) \/ BeginTOTPEnrollment(r) \/ ActivateTOTP(r) \/ ConfirmCode(r)
           \/ RegenerateRecoveryCodes(r)
    PROVE  SignInInv'
  <1>1. TypeOK /\ Fits(requests[r]) /\ requests[r] \in RequestRecord
    BY DEF SignInInv, ChallengeInv, TypeOK, RequestRecord
  <1>2. UNCHANGED Others
    BY DEF GiveUp, LoginVerified, ReadMFAChallenge, verifySecondFactor, MatchCode,
           BeginTOTPEnrollment, ActivateTOTP, ConfirmCode, RegenerateRecoveryCodes, Others
  <1>3. CASE GiveUp(r)
    BY <1>1, <1>2, <1>3, RestIsRecord, RestFits, MoveKeepsInv DEF GiveUp, Done
  <1>4. CASE \E stage \in {"issue", "password", "begin", "regenerate"} :
               At(r, "idle") /\ Enter(r, stage)
    <2>1. PICK stage \in {"issue", "password", "begin", "regenerate"} :
             At(r, "idle") /\ Enter(r, stage)
      BY <1>4
    <2> DEFINE q == [requests[r] EXCEPT !.pc = stage]
    <2>2. Becomes(q, stage, requests[r].challenge, requests[r].secret, requests[r].code)
      BY <1>1, Moved DEF Stages
    <2> HIDE DEF q
    <2>3. Fits(q) /\ q.pc # "complete"
      BY <1>1, <2>1, <2>2 DEF Becomes, Fits, At, Signing, Verified
    <2> QED BY <1>2, <2>1, <2>2, <2>3, MoveKeepsInv DEF Enter, Becomes, q
  <1>5. CASE ReadMFAChallenge(r)
    <2>1. PICK c \in Challenges : /\ challenges[c].state = "open" /\ At(r, "idle")
             /\ requests' = [requests EXCEPT ![r].pc = "second_factor", ![r].challenge = c]
      BY <1>5 DEF ReadMFAChallenge
    <2> DEFINE q == [requests[r] EXCEPT !.pc = "second_factor", !.challenge = c]
    <2>2. Becomes(q, "second_factor", c, requests[r].secret, requests[r].code)
      BY <1>1, <2>1, Moved DEF Stages
    <2>3. requests' = [requests EXCEPT ![r] = q]
      BY <1>1, <2>1 DEF TypeOK
    <2> HIDE DEF q
    <2>4. Fits(q) /\ q.pc # "complete"
      BY <1>1, <2>1, <2>2 DEF Becomes, Fits, At, Signing, Verified
    <2> QED BY <1>2, <2>2, <2>3, <2>4, MoveKeepsInv DEF Becomes
  <1>6. CASE verifySecondFactor(r)
    <2> DEFINE q == [requests[r] EXCEPT !.pc = "match", !.secret = totp.secret]
    <2>1. /\ At(r, "second_factor") /\ totp.status = "active" /\ totp.secret \in Nat
          /\ requests' = [requests EXCEPT ![r].pc = "match", ![r].secret = totp.secret]
      BY <1>1, <1>6 DEF verifySecondFactor, ReadMFATOTP, TypeOK
    <2>2. Becomes(q, "match", requests[r].challenge, totp.secret, requests[r].code)
      BY <1>1, <2>1, Moved DEF Stages
    <2>3. requests' = [requests EXCEPT ![r] = q]
      BY <1>1, <2>1 DEF TypeOK
    <2> HIDE DEF q
    <2>4. Fits(q) /\ q.pc # "complete"
      BY <1>1, <2>1, <2>2 DEF Becomes, Fits, At, Signing, Verified
    <2> QED BY <1>2, <2>2, <2>3, <2>4, MoveKeepsInv DEF Becomes
  <1>7. CASE ActivateTOTP(r)
    <2> DEFINE q == [requests[r] EXCEPT !.pc = "confirm", !.secret = totp.secret]
    <2>1. /\ At(r, "idle") /\ totp.secret \in Nat
          /\ requests' = [requests EXCEPT ![r].pc = "confirm", ![r].secret = totp.secret]
      BY <1>1, <1>7 DEF ActivateTOTP, ReadMFATOTP, TypeOK
    <2>2. Becomes(q, "confirm", requests[r].challenge, totp.secret, requests[r].code)
      BY <1>1, <2>1, Moved DEF Stages
    <2>3. requests' = [requests EXCEPT ![r] = q]
      BY <1>1, <2>1 DEF TypeOK
    <2> HIDE DEF q
    <2>4. Fits(q) /\ q.pc # "complete"
      BY <1>1, <2>1, <2>2 DEF Becomes, Fits, At, Signing, Verified
    <2> QED BY <1>2, <2>2, <2>3, <2>4, MoveKeepsInv DEF Becomes
  <1>8. CASE MatchCode(r) \/ ConfirmCode(r)
    <2>1. \E stage \in {"totp", "recovery", "activate"}, code \in CodeIds :
            /\ stage \in {"totp", "recovery"} => At(r, "match")
            /\ stage = "activate" => At(r, "confirm")
            /\ stage \in {"totp", "activate"} => code.kind = "totp" /\ code.of = requests[r].secret
            /\ stage = "recovery" => code.kind = "recovery"
            /\ requests' = [requests EXCEPT ![r].pc = stage, ![r].code = code]
      <3>1. ASSUME NEW step \in 0..(now + Skew)
            PROVE  [kind |-> "totp", of |-> requests[r].secret, n |-> step] \in CodeIds
        BY <1>1 DEF TypeOK, CodeIds, RequestRecord, Skew
      <3>2. ASSUME NEW n \in codes.unused
            PROVE  [kind |-> "recovery", of |-> codes.set, n |-> n] \in CodeIds
        BY <1>1, SignInAssumption DEF TypeOK, CodeIds
      <3> QED BY <1>8, <3>1, <3>2 DEF MatchCode, ConfirmCode
    <2>2. PICK stage \in {"totp", "recovery", "activate"}, code \in CodeIds :
            /\ stage \in {"totp", "recovery"} => At(r, "match")
            /\ stage = "activate" => At(r, "confirm")
            /\ stage \in {"totp", "activate"} => code.kind = "totp" /\ code.of = requests[r].secret
            /\ stage = "recovery" => code.kind = "recovery"
            /\ requests' = [requests EXCEPT ![r].pc = stage, ![r].code = code]
      BY <2>1
    <2> DEFINE q == [requests[r] EXCEPT !.pc = stage, !.code = code]
    <2>3. Becomes(q, stage, requests[r].challenge, requests[r].secret, code)
      BY <1>1, Moved DEF Stages
    <2>4. requests' = [requests EXCEPT ![r] = q]
      BY <1>1, <2>2 DEF TypeOK
    <2> HIDE DEF q
    <2>5. Fits(q) /\ q.pc # "complete"
      BY <1>1, <2>2, <2>3 DEF Becomes, Fits, At, Signing, Verified
    <2> QED BY <1>2, <2>3, <2>4, <2>5, MoveKeepsInv DEF Becomes
  <1> QED BY <1>3, <1>4, <1>5, <1>6, <1>7, <1>8
          DEF LoginVerified, BeginTOTPEnrollment, RegenerateRecoveryCodes

-----------------------------------------------------------------------------
(* What Done, Enter and Accepted leave of a request. *)
LEMMA Turned ==
    ASSUME TypeOK, NEW r \in Requests
    PROVE  /\ Done(r) => /\ requests' \in [Requests -> RequestRecord]
                        /\ requests'[r] = Idle
                        /\ \A x \in Requests : x # r => requests'[x] = requests[x]
           /\ Enter(r, "complete") =>
                 /\ requests' \in [Requests -> RequestRecord]
                 /\ Becomes(requests'[r], "complete", requests[r].challenge,
                            requests[r].secret, requests[r].code)
                 /\ \A x \in Requests : x # r => requests'[x] = requests[x]
           /\ Accepted(r) =>
                 /\ requests' \in [Requests -> RequestRecord]
                 /\ Becomes(requests'[r], "consume", requests[r].challenge,
                            requests[r].secret, NoCode)
                 /\ \A x \in Requests : x # r => requests'[x] = requests[x]
  <1>1. requests \in [Requests -> RequestRecord] /\ requests[r] \in RequestRecord
    BY DEF TypeOK, RequestRecord
  <1>2. ASSUME Done(r) PROVE /\ requests' \in [Requests -> RequestRecord]
                             /\ requests'[r] = Idle
                             /\ \A x \in Requests : x # r => requests'[x] = requests[x]
    BY <1>1, <1>2, RestIsRecord DEF Done
  <1>3. ASSUME NEW q \in RequestRecord, requests' = [requests EXCEPT ![r] = q]
        PROVE  /\ requests' \in [Requests -> RequestRecord] /\ requests'[r] = q
               /\ \A x \in Requests : x # r => requests'[x] = requests[x]
    BY <1>1, <1>3
  <1>4. ASSUME Enter(r, "complete")
        PROVE  /\ requests' \in [Requests -> RequestRecord]
               /\ Becomes(requests'[r], "complete", requests[r].challenge,
                          requests[r].secret, requests[r].code)
               /\ \A x \in Requests : x # r => requests'[x] = requests[x]
    <2> DEFINE q == [requests[r] EXCEPT !.pc = "complete"]
    <2>1. Becomes(q, "complete", requests[r].challenge, requests[r].secret, requests[r].code)
      BY <1>1, Moved DEF Stages
    <2>2. requests' = [requests EXCEPT ![r] = q]
      BY <1>1, <1>4 DEF Enter
    <2> HIDE DEF q
    <2> QED BY <1>3, <2>1, <2>2 DEF Becomes
  <1>5. ASSUME Accepted(r)
        PROVE  /\ requests' \in [Requests -> RequestRecord]
               /\ Becomes(requests'[r], "consume", requests[r].challenge,
                          requests[r].secret, NoCode)
               /\ \A x \in Requests : x # r => requests'[x] = requests[x]
    <2> DEFINE q == [requests[r] EXCEPT !.pc = "consume", !.code = NoCode]
    <2>0. NoCode \in CodeIds
      BY DEF NoCode, CodeIds
    <2>1. Becomes(q, "consume", requests[r].challenge, requests[r].secret, NoCode)
      BY <1>1, <2>0, Moved DEF Stages
    <2>2. requests' = [requests EXCEPT ![r] = q]
      BY <1>1, <1>5 DEF Accepted
    <2> HIDE DEF q
    <2> QED BY <1>3, <2>1, <2>2 DEF Becomes
  <1> QED BY <1>2, <1>4, <1>5

(* A new challenge row is one that no request and no session refers to. *)
LEMMA IssueKeepsInv ==
    ASSUME SignInInv, NEW r \in Requests, mfaChallengeFor(r)
    PROVE  SignInInv'
  <1>1. /\ requests' \in [Requests -> RequestRecord] /\ requests'[r] = Idle
        /\ \A x \in Requests : x # r => requests'[x] = requests[x]
    BY Turned DEF mfaChallengeFor, SignInInv
  <1>2. PICK c \in Challenges :
          /\ challenges[c].state = "free"
          /\ challenges' = [challenges EXCEPT ![c] = [state |-> "open", expires |-> now + ChallengeLife]]
    BY DEF mfaChallengeFor
  <1>3. /\ challenges'[c].state = "open"
        /\ challenges' \in [Challenges -> [state : {"free", "open", "consumed", "deleted"}, expires : Nat]]
        /\ \A d \in Challenges : d # c => challenges'[d] = challenges[d]
    BY <1>2, SignInAssumption DEF SignInInv, TypeOK
  <1>4. UNCHANGED <<now, totp, codes, secrets, sets, sessions, spent>>
    BY DEF mfaChallengeFor
  <1>5. TypeOK'
    BY <1>1, <1>3, <1>4 DEF SignInInv, TypeOK, RequestRecord
  <1>6. ChallengeInv'
    <2>1. ASSUME NEW x \in Requests PROVE Fits(requests[x])'
      <3>1. CASE x = r
        BY <3>1, <1>1 DEF Fits, Idle, Signing, Verified
      <3>2. CASE x # r
        BY <3>2, <1>1, <1>2, <1>3, <1>4 DEF SignInInv, ChallengeInv, Fits, Verified, Signing
      <3> QED BY <3>1, <3>2
    <2>2. \A s \in Sessions : sessions[s].challenge # NoId =>
             challenges'[sessions[s].challenge].state \in {"consumed", "deleted"}
      BY <1>2, <1>3 DEF SignInInv, ChallengeInv, TypeOK
    <2>3. \A q, x \in Requests :
             At(q, "complete")' /\ At(x, "complete")' /\ requests'[q].challenge = requests'[x].challenge
                => q = x
      BY <1>1 DEF SignInInv, ChallengeInv, At, Idle
    <2> QED BY <2>1, <2>2, <2>3, <1>4 DEF SignInInv, ChallengeInv, OneSessionPerChallenge
  <1>7. CodeInv'
    BY <1>4 DEF SignInInv, CodeInv, ActiveSecretWasProven
  <1> QED BY <1>5, <1>6, <1>7 DEF SignInInv

(* A completed sign-in uses its challenge up, for itself and for good. *)
LEMMA CompleteKeepsInv ==
    ASSUME SignInInv, NEW r \in Requests, CompleteLogin(r)
    PROVE  SignInInv'
  <1>1. /\ requests' \in [Requests -> RequestRecord] /\ requests'[r] = Idle
        /\ \A x \in Requests : x # r => requests'[x] = requests[x]
    BY Turned DEF CompleteLogin, SignInInv
  <1> DEFINE c == requests[r].challenge
  <1>2. PICK s \in Sessions :
          sessions' = [sessions EXCEPT ![s] = [state |-> "live", challenge |-> c]]
    BY DEF CompleteLogin, NewSession
  <1>3. UNCHANGED <<now, totp, codes, secrets, sets, challenges, spent>>
    BY DEF CompleteLogin
  <1>4. c \in Challenges \cup {NoId}
    BY DEF SignInInv, TypeOK
  <1>5. /\ sessions'[s].challenge = c
        /\ \A t \in Sessions : t # s => sessions'[t] = sessions[t]
        /\ sessions' \in [Sessions -> [state : {"free", "live", "ended"}, challenge : Challenges \cup {NoId}]]
    BY <1>2, <1>4 DEF SignInInv, TypeOK
  <1>6. \/ At(r, "password") /\ c = NoId
        \/ At(r, "complete") /\ challenges[c].state = "consumed" /\ c \in Challenges
    BY DEF CompleteLogin, ChallengeStands, SignInInv, ChallengeInv, Fits, Signing, At
  <1> HIDE DEF c
  <1>7. TypeOK'
    BY <1>1, <1>3, <1>5 DEF SignInInv, TypeOK, RequestRecord
  <1>8. ChallengeInv'
    <2>1. ASSUME NEW x \in Requests PROVE Fits(requests[x])'
      <3>1. CASE x = r
        BY <3>1, <1>1 DEF Fits, Idle, Signing, Verified
      <3>2. CASE x # r
        <4>1. requests'[x] = requests[x] /\ Fits(requests[x])
          BY <3>2, <1>1 DEF SignInInv, ChallengeInv
        <4>2. requests[x].pc = "complete" => requests[x].challenge # c
          BY <3>2, <4>1, <1>6, SignInAssumption DEF SignInInv, ChallengeInv, At, Fits, Signing, c
        <4> QED BY <4>1, <4>2, <1>3, <1>5 DEF Fits
      <3> QED BY <3>1, <3>2
    <2>2. \A q, x \in Requests :
             At(q, "complete")' /\ At(x, "complete")' /\ requests'[q].challenge = requests'[x].challenge
                => q = x
      BY <1>1 DEF SignInInv, ChallengeInv, At, Idle
    <2>3. \A t \in Sessions : sessions'[t].challenge # NoId =>
             challenges[sessions'[t].challenge].state \in {"consumed", "deleted"}
      BY <1>5, <1>6 DEF SignInInv, ChallengeInv
    <2>4. c # NoId => \A t \in Sessions : sessions[t].challenge # c
      BY <1>6 DEF SignInInv, ChallengeInv, Fits, At, c
    <2>5. OneSessionPerChallenge'
      BY <1>5, <2>4 DEF SignInInv, ChallengeInv, OneSessionPerChallenge
    <2> QED BY <2>1, <2>2, <2>3, <2>5, <1>3 DEF ChallengeInv
  <1>9. CodeInv'
    BY <1>3 DEF SignInInv, CodeInv, ActiveSecretWasProven
  <1> QED BY <1>7, <1>8, <1>9 DEF SignInInv

(* Of the requests that race for a challenge one finds it open. *)
LEMMA ConsumeKeepsInv ==
    ASSUME SignInInv, NEW r \in Requests, ConsumeMFAChallenge(r)
    PROVE  SignInInv'
  <1> DEFINE c == requests[r].challenge
  <1>1. /\ requests' \in [Requests -> RequestRecord]
        /\ Becomes(requests'[r], "complete", c, requests[r].secret, requests[r].code)
        /\ \A x \in Requests : x # r => requests'[x] = requests[x]
    BY Turned DEF ConsumeMFAChallenge, SignInInv
  <1>2. /\ At(r, "consume") /\ c \in Challenges /\ challenges[c].state = "open"
        /\ challenges' = [challenges EXCEPT ![c].state = "consumed"]
    BY DEF ConsumeMFAChallenge, SignInInv, ChallengeInv, Fits, Signing, At
  <1>3. /\ challenges'[c].state = "consumed"
        /\ challenges' \in [Challenges -> [state : {"free", "open", "consumed", "deleted"}, expires : Nat]]
        /\ \A d \in Challenges : d # c => challenges'[d] = challenges[d]
    BY <1>2 DEF SignInInv, TypeOK
  <1>4. UNCHANGED <<now, totp, codes, secrets, sets, sessions, spent>>
    BY DEF ConsumeMFAChallenge
  <1> HIDE DEF c
  <1>5. TypeOK'
    BY <1>1, <1>3, <1>4 DEF SignInInv, TypeOK, RequestRecord
  <1>6. ChallengeInv'
    <2>1. \A s \in Sessions : sessions[s].challenge # c
      BY <1>2, SignInAssumption DEF SignInInv, ChallengeInv
    <2>2. \A x \in Requests : At(x, "complete") => requests[x].challenge # c
      BY <1>2 DEF SignInInv, ChallengeInv, Fits, At
    <2>3. ASSUME NEW x \in Requests PROVE Fits(requests[x])'
      <3>1. CASE x = r
        BY <3>1, <2>1, <1>1, <1>2, <1>3, <1>4
           DEF SignInInv, ChallengeInv, Fits, Signing, Verified, At, Becomes, c
      <3>2. CASE x # r
        BY <3>2, <2>2, <1>1, <1>2, <1>3, <1>4 DEF SignInInv, ChallengeInv, Fits, At, Signing, Verified
      <3> QED BY <3>1, <3>2
    <2>4. \A q, x \in Requests :
             At(q, "complete")' /\ At(x, "complete")' /\ requests'[q].challenge = requests'[x].challenge
                => q = x
      BY <2>2, <1>1 DEF SignInInv, ChallengeInv, At, Becomes
    <2>5. \A s \in Sessions : sessions[s].challenge # NoId =>
             challenges'[sessions[s].challenge].state \in {"consumed", "deleted"}
      BY <2>1, <1>3 DEF SignInInv, ChallengeInv, TypeOK
    <2> QED BY <2>3, <2>4, <2>5, <1>4 DEF SignInInv, ChallengeInv, OneSessionPerChallenge
  <1>7. CodeInv'
    BY <1>4 DEF SignInInv, CodeInv, ActiveSecretWasProven
  <1> QED BY <1>5, <1>6, <1>7 DEF SignInInv

-----------------------------------------------------------------------------
(* Codes and enrolments *)

(* A request's challenge and session side, when only its stage moved on to   *)
(* "consume" or to rest, and codes or the replay counter changed.            *)
LEMMA OtherSideKept ==
    ASSUME SignInInv, NEW r \in Requests,
           \/ /\ At(r, "totp") \/ At(r, "recovery")
              /\ Becomes(requests'[r], "consume", requests[r].challenge, requests[r].secret, NoCode)
           \/ requests'[r] = Idle,
           \A x \in Requests : x # r => requests'[x] = requests[x],
           UNCHANGED <<challenges, sessions>>,
           \/ totp'.status = totp.status /\ totp'.secret = totp.secret
           \/ totp.status # "active"
    PROVE  ChallengeInv'
  <1>1. ASSUME NEW x \in Requests PROVE Fits(requests[x])'
    <2>1. CASE x = r
      BY <2>1 DEF SignInInv, ChallengeInv, Fits, Idle, Signing, Verified, At, Becomes
    <2>2. CASE x # r
      BY <2>2 DEF SignInInv, ChallengeInv, Fits
    <2> QED BY <2>1, <2>2
  <1>2. \A q, x \in Requests :
           At(q, "complete")' /\ At(x, "complete")' /\ requests'[q].challenge = requests'[x].challenge
              => q = x
    BY DEF SignInInv, ChallengeInv, At, Idle, Becomes
  <1> QED BY <1>1, <1>2 DEF SignInInv, ChallengeInv, OneSessionPerChallenge

(* The replay counter steps past the code, so the code stays behind it. *)
LEMMA RecordKeepsInv ==
    ASSUME SignInInv, NEW r \in Requests, RecordMFATOTPUse(r)
    PROVE  SignInInv' /\ requests[r].code \notin spent
  <1> DEFINE code == requests[r].code
  <1>1. /\ requests' \in [Requests -> RequestRecord]
        /\ Becomes(requests'[r], "consume", requests[r].challenge, requests[r].secret, NoCode)
        /\ \A x \in Requests : x # r => requests'[x] = requests[x]
    BY Turned DEF RecordMFATOTPUse, SignInInv
  <1>2. /\ At(r, "totp") /\ code.kind = "totp" /\ code.of = totp.secret
        /\ totp.status = "active" /\ totp.lastUsedStep < code.n + 1
        /\ code \in CodeIds /\ code.n \in Nat
    BY DEF RecordMFATOTPUse, Fresh, SignInInv, ChallengeInv, Fits, At, TypeOK, CodeIds
  <1>3. /\ totp' = [totp EXCEPT !.lastUsedStep = code.n + 1] /\ spent' = spent \cup {code}
        /\ UNCHANGED <<now, codes, secrets, sets, challenges, sessions>>
    BY DEF RecordMFATOTPUse
  <1>4. /\ totp'.status = totp.status /\ totp'.secret = totp.secret
        /\ totp'.lastUsedStep = code.n + 1
        /\ totp' \in [status : {"none", "pending", "active"}, secret : Nat, lastUsedStep : Nat]
    BY <1>2, <1>3 DEF SignInInv, TypeOK
  <1> HIDE DEF code
  <1>5. TypeOK'
    BY <1>1, <1>2, <1>3, <1>4 DEF SignInInv, TypeOK, RequestRecord
  <1>6. ChallengeInv'
    BY <1>1, <1>2, <1>3, <1>4, OtherSideKept
  <1>7. code \notin spent
    BY <1>2 DEF SignInInv, CodeInv, TypeOK
  <1>8. CodeInv'
    <2>1. totp'.secret <= secrets' /\ codes'.set <= sets'
      BY <1>3, <1>4 DEF SignInInv, CodeInv
    <2>2. ASSUME NEW d \in spent'
          PROVE  /\ d.kind = "totp" => d.of <= secrets'
                 /\ d.kind = "recovery" => d.of <= sets'
                 /\ d.kind = "totp" /\ d.of = totp'.secret /\ totp'.status # "none" =>
                       totp'.status = "active" /\ d.n < totp'.lastUsedStep
      <3>1. CASE d = code
        BY <3>1, <1>2, <1>3, <1>4 DEF SignInInv, CodeInv
      <3>2. CASE d \in spent
        <4>1. d.n \in Nat /\ totp.lastUsedStep \in Nat
          BY <3>2 DEF SignInInv, TypeOK, CodeIds
        <4> QED BY <4>1, <3>2, <1>2, <1>3, <1>4 DEF SignInInv, CodeInv
      <3> QED BY <3>1, <3>2, <1>3
    <2>3. \A n \in 1..CodesPerSet :
             LET d == [kind |-> "recovery", of |-> codes.set, n |-> n]
             IN  d \in spent' <=> d \in spent
      BY <1>2, <1>3
    <2>4. ActiveSecretWasProven'
      BY <1>2, <1>3, <1>4 DEF SignInInv, CodeInv, ActiveSecretWasProven
    <2> QED BY <2>1, <2>2, <2>3, <2>4, <1>3, <1>4 DEF SignInInv, CodeInv
  <1> QED BY <1>5, <1>6, <1>7, <1>8 DEF SignInInv, code

(* A recovery code leaves the unused ones as it is spent. *)
LEMMA RecoveryCodeKeepsInv ==
    ASSUME SignInInv, NEW r \in Requests, ConsumeMFARecoveryCode(r)
    PROVE  SignInInv' /\ requests[r].code \notin spent
  <1> DEFINE code == requests[r].code
  <1>1. /\ requests' \in [Requests -> RequestRecord]
        /\ Becomes(requests'[r], "consume", requests[r].challenge, requests[r].secret, NoCode)
        /\ \A x \in Requests : x # r => requests'[x] = requests[x]
    BY Turned DEF ConsumeMFARecoveryCode, SignInInv
  <1>2. /\ At(r, "recovery") /\ code.kind = "recovery" /\ code.of = codes.set
        /\ code.n \in codes.unused /\ code \in CodeIds
    BY DEF ConsumeMFARecoveryCode, SignInInv, ChallengeInv, Fits, At, TypeOK
  <1>3. /\ codes' = [codes EXCEPT !.unused = @ \ {code.n}] /\ spent' = spent \cup {code}
        /\ UNCHANGED <<now, totp, secrets, sets, challenges, sessions>>
    BY DEF ConsumeMFARecoveryCode
  <1>4. /\ codes'.set = codes.set /\ codes'.unused = codes.unused \ {code.n}
        /\ codes' \in [set : Nat, unused : SUBSET (1..CodesPerSet)]
    BY <1>3 DEF SignInInv, TypeOK
  <1>5. code = [kind |-> "recovery", of |-> codes.set, n |-> code.n]
    BY <1>2 DEF CodeIds
  <1> HIDE DEF code
  <1>6. TypeOK'
    BY <1>1, <1>2, <1>3, <1>4 DEF SignInInv, TypeOK, RequestRecord
  <1>7. ChallengeInv'
    BY <1>1, <1>2, <1>3, OtherSideKept
  <1>8. codes.set # 0 /\ code.n \in 1..CodesPerSet /\ code \notin spent
    BY <1>2, <1>5 DEF SignInInv, CodeInv, TypeOK
  <1>9. CodeInv'
    <2>1. codes'.unused = {n \in 1..CodesPerSet :
                            [kind |-> "recovery", of |-> codes'.set, n |-> n] \notin spent'}
      <3>1. ASSUME NEW n \in 1..CodesPerSet
            PROVE  [kind |-> "recovery", of |-> codes.set, n |-> n] = code <=> n = code.n
        BY <1>5
      <3> QED BY <3>1, <1>3, <1>4, <1>8 DEF SignInInv, CodeInv
    <2>2. ASSUME NEW d \in spent'
          PROVE  /\ d.kind = "totp" => d.of <= secrets'
                 /\ d.kind = "recovery" => d.of <= sets'
                 /\ d.kind = "totp" /\ d.of = totp'.secret /\ totp'.status # "none" =>
                       totp'.status = "active" /\ d.n < totp'.lastUsedStep
      BY <1>2, <1>3 DEF SignInInv, CodeInv
    <2>3. ActiveSecretWasProven'
      BY <1>3 DEF SignInInv, CodeInv, ActiveSecretWasProven
    <2> QED BY <2>1, <2>2, <2>3, <1>3, <1>4, <1>8 DEF SignInInv, CodeInv
  <1> QED BY <1>6, <1>7, <1>8, <1>9 DEF SignInInv, code

(* A new pending secret was never accepted before. *)
LEMMA UpsertKeepsInv ==
    ASSUME SignInInv, NEW r \in Requests, UpsertMFATOTP(r)
    PROVE  SignInInv'
  <1>1. /\ requests' \in [Requests -> RequestRecord] /\ requests'[r] = Idle
        /\ \A x \in Requests : x # r => requests'[x] = requests[x]
    BY Turned DEF UpsertMFATOTP, SignInInv
  <1>2. /\ totp.status # "active" /\ secrets \in Nat
        /\ totp' = [status |-> "pending", secret |-> secrets + 1, lastUsedStep |-> 0]
        /\ secrets' = secrets + 1
        /\ UNCHANGED <<now, codes, sets, challenges, sessions, spent>>
    BY DEF UpsertMFATOTP, SignInInv, TypeOK
  <1>3. TypeOK'
    BY <1>1, <1>2 DEF SignInInv, TypeOK, RequestRecord
  <1>4. ChallengeInv'
    BY <1>1, <1>2, OtherSideKept
  <1>5. CodeInv'
    <2>1. \A d \in spent : d.of \in Nat
      BY DEF SignInInv, TypeOK, CodeIds
    <2> QED BY <2>1, <1>2 DEF SignInInv, CodeInv, ActiveSecretWasProven
  <1> QED BY <1>3, <1>4, <1>5 DEF SignInInv

(* A new set of recovery codes is whole: none of them was ever spent. *)
LEMMA FreshSet ==
    ASSUME TypeOK, CodeInv, NEW more, more.kind # "recovery",
           replaceMFARecoveryCodesTx, spent' \in {spent, spent \cup {more}}
    PROVE  /\ codes' \in [set : Nat, unused : SUBSET (1..CodesPerSet)] /\ sets' \in Nat
           /\ codes'.set = sets' /\ sets' = sets + 1 /\ codes'.set # 0
           /\ codes'.unused = {n \in 1..CodesPerSet :
                                [kind |-> "recovery", of |-> codes'.set, n |-> n] \notin spent'}
  <1>1. /\ sets \in Nat /\ sets' = sets + 1
        /\ codes' = [set |-> sets + 1, unused |-> 1..CodesPerSet]
    BY DEF replaceMFARecoveryCodesTx, TypeOK
  <1>2. ASSUME NEW n \in 1..CodesPerSet
        PROVE  [kind |-> "recovery", of |-> sets + 1, n |-> n] \notin spent
    BY <1>1 DEF CodeInv
  <1>3. ASSUME NEW n \in 1..CodesPerSet
        PROVE  [kind |-> "recovery", of |-> sets + 1, n |-> n] \notin spent'
    BY <1>2
  <1> QED BY <1>1, <1>3

(* Activation proves the pending secret, spends the code and stores the      *)
(* recovery codes, all at once.                                              *)
LEMMA ActivateKeepsInv ==
    ASSUME SignInInv, NEW r \in Requests, ActivateMFATOTPWithRecoveryCodes(r)
    PROVE  SignInInv' /\ requests[r].code \notin spent
  <1> DEFINE code == requests[r].code
  <1>1. /\ requests' \in [Requests -> RequestRecord] /\ requests'[r] = Idle
        /\ \A x \in Requests : x # r => requests'[x] = requests[x]
    BY Turned DEF ActivateMFATOTPWithRecoveryCodes, SignInInv
  <1>2. /\ totp.status = "pending" /\ code.kind = "totp" /\ code.of = totp.secret
        /\ code \in CodeIds /\ code.n \in Nat
    BY DEF ActivateMFATOTPWithRecoveryCodes, SignInInv, ChallengeInv, Fits, At, TypeOK, CodeIds
  <1>3. /\ totp' = [totp EXCEPT !.status = "active", !.lastUsedStep = code.n + 1]
        /\ replaceMFARecoveryCodesTx /\ spent' = spent \cup {code}
        /\ UNCHANGED <<now, secrets, challenges, sessions>>
    BY DEF ActivateMFATOTPWithRecoveryCodes
  <1> HIDE DEF code
  <1>4. /\ totp'.status = "active" /\ totp'.secret = totp.secret /\ totp'.lastUsedStep = code.n + 1
        /\ totp' \in [status : {"none", "pending", "active"}, secret : Nat, lastUsedStep : Nat]
    <2>1. totp \in [status : {"none", "pending", "active"}, secret : Nat, lastUsedStep : Nat]
      BY DEF SignInInv, TypeOK
    <2>2. code.n + 1 \in Nat
      BY <1>2
    <2> QED BY <2>1, <2>2, <1>3
  <1>5. /\ codes' \in [set : Nat, unused : SUBSET (1..CodesPerSet)] /\ sets' \in Nat
        /\ codes'.set = sets' /\ sets' = sets + 1 /\ codes'.set # 0
        /\ codes'.unused = {n \in 1..CodesPerSet :
                             [kind |-> "recovery", of |-> codes'.set, n |-> n] \notin spent'}
    BY <1>2, <1>3, FreshSet DEF SignInInv
  <1>6. TypeOK'
    BY <1>1, <1>2, <1>3, <1>4, <1>5 DEF SignInInv, TypeOK, RequestRecord
  <1>7. ChallengeInv'
    BY <1>1, <1>2, <1>3, OtherSideKept
  <1>8. code \notin spent
    BY <1>2 DEF SignInInv, CodeInv
  <1>9. CodeInv'
    <2>1. sets \in Nat /\ \A d \in spent : d.of \in Nat
      BY DEF SignInInv, TypeOK, CodeIds
    <2>2. ASSUME NEW d \in spent'
          PROVE  /\ d.kind = "totp" => d.of <= secrets'
                 /\ d.kind = "recovery" => d.of <= sets'
                 /\ d.kind = "totp" /\ d.of = totp'.secret /\ totp'.status # "none" =>
                       totp'.status = "active" /\ d.n < totp'.lastUsedStep
      <3>1. CASE d = code
        BY <3>1, <1>2, <1>3, <1>4 DEF SignInInv, CodeInv
      <3>2. CASE d \in spent
        BY <3>2, <2>1, <1>2, <1>3, <1>4, <1>5 DEF SignInInv, CodeInv
      <3> QED BY <3>1, <3>2, <1>3
    <2>3. ActiveSecretWasProven'
      BY <1>2, <1>3, <1>4 DEF ActiveSecretWasProven
    <2> QED BY <2>1, <2>2, <2>3, <1>3, <1>4, <1>5 DEF SignInInv, CodeInv
  <1> QED BY <1>6, <1>7, <1>8, <1>9 DEF SignInInv, code

(* Regeneration replaces the whole set. *)
LEMMA ReplaceKeepsInv ==
    ASSUME SignInInv, NEW r \in Requests, ReplaceMFARecoveryCodes(r)
    PROVE  SignInInv'
  <1>1. /\ requests' \in [Requests -> RequestRecord] /\ requests'[r] = Idle
        /\ \A x \in Requests : x # r => requests'[x] = requests[x]
    BY Turned DEF ReplaceMFARecoveryCodes, SignInInv
  <1>2. replaceMFARecoveryCodesTx /\ UNCHANGED <<now, totp, secrets, challenges, sessions, spent>>
    BY DEF ReplaceMFARecoveryCodes
  <1>3. /\ codes' \in [set : Nat, unused : SUBSET (1..CodesPerSet)] /\ sets' \in Nat
        /\ codes'.set = sets' /\ sets' = sets + 1 /\ codes'.set # 0
        /\ codes'.unused = {n \in 1..CodesPerSet :
                             [kind |-> "recovery", of |-> codes'.set, n |-> n] \notin spent'}
    <2>1. NoCode.kind # "recovery"
      BY DEF NoCode
    <2> QED BY <2>1, <1>2, FreshSet DEF SignInInv
  <1>4. TypeOK'
    BY <1>1, <1>2, <1>3 DEF SignInInv, TypeOK, RequestRecord
  <1>5. ChallengeInv'
    BY <1>1, <1>2, OtherSideKept
  <1>6. CodeInv'
    <2>1. sets \in Nat /\ \A d \in spent : d.of \in Nat
      BY DEF SignInInv, TypeOK, CodeIds
    <2> QED BY <2>1, <1>2, <1>3 DEF SignInInv, CodeInv, ActiveSecretWasProven
  <1> QED BY <1>4, <1>5, <1>6 DEF SignInInv

-----------------------------------------------------------------------------
(* Steps beside the requests *)

(* Challenges only go out of use, those of present enrolments with them. *)
LEMMA DeletedKeepsInv ==
    ASSUME SignInInv,
           challenges' \in [Challenges -> [state : {"free", "open", "consumed", "deleted"}, expires : Nat]],
           \A c \in Challenges : \/ challenges'[c] = challenges[c]
                                 \/ challenges[c].state # "free" /\ challenges'[c].state = "deleted",
           requests' \in [Requests -> RequestRecord],
           \A r \in Requests : requests'[r] \in {requests[r], Idle},
           sessions' \in [Sessions -> [state : {"free", "live", "ended"}, challenge : Challenges \cup {NoId}]],
           \A s \in Sessions : sessions'[s].challenge = sessions[s].challenge,
           \/ UNCHANGED <<totp, codes>>
           \/ /\ totp' = NoTOTP /\ codes' = NoCodes
              /\ \A c \in Challenges : challenges'[c].state \in {"free", "deleted"},
           UNCHANGED <<now, secrets, sets, spent>>
    PROVE  SignInInv'
  <1>1. TypeOK'
    BY DEF SignInInv, TypeOK, RequestRecord, NoTOTP, NoCodes
  <1>2. ASSUME NEW r \in Requests PROVE Fits(requests[r])'
    <2>1. CASE requests'[r] = Idle
      BY <2>1 DEF Fits, Idle, Signing, Verified
    <2>2. CASE requests'[r] = requests[r]
      BY <2>2 DEF SignInInv, ChallengeInv, Fits, Signing, Verified
    <2> QED BY <2>1, <2>2
  <1>3. \A q, r \in Requests :
           At(q, "complete")' /\ At(r, "complete")' /\ requests'[q].challenge = requests'[r].challenge
              => q = r
    BY DEF SignInInv, ChallengeInv, At, Idle
  <1>4. \A s \in Sessions : sessions'[s].challenge # NoId =>
           challenges'[sessions'[s].challenge].state \in {"consumed", "deleted"}
    BY DEF SignInInv, ChallengeInv, TypeOK
  <1>5. ChallengeInv'
    BY <1>2, <1>3, <1>4 DEF SignInInv, ChallengeInv, OneSessionPerChallenge
  <1>6. CodeInv'
    BY DEF SignInInv, CodeInv, TypeOK, ActiveSecretWasProven, NoTOTP, NoCodes
  <1> QED BY <1>1, <1>5, <1>6 DEF SignInInv

(* Disabling, cleanup, recovery and logout. *)
LEMMA UpkeepKeepsInv ==
    ASSUME SignInInv,
           DeleteMFATOTP \/ Cleanup \/ RecoverOwner \/ \E s \in Sessions : Logout(s)
    PROVE  SignInInv'
  <1>1. /\ challenges \in [Challenges -> [state : {"free", "open", "consumed", "deleted"}, expires : Nat]]
        /\ requests \in [Requests -> RequestRecord]
        /\ sessions \in [Sessions -> [state : {"free", "live", "ended"}, challenge : Challenges \cup {NoId}]]
    BY DEF SignInInv, TypeOK, RequestRecord
  <1>2. NoOpenChallenge =>
          /\ challenges' \in [Challenges -> [state : {"free", "open", "consumed", "deleted"}, expires : Nat]]
          /\ \A c \in Challenges : \/ challenges'[c] = challenges[c]
                                   \/ challenges[c].state # "free" /\ challenges'[c].state = "deleted"
          /\ \A c \in Challenges : challenges'[c].state \in {"free", "deleted"}
    BY <1>1 DEF NoOpenChallenge
  <1>3. CASE DeleteMFATOTP
    BY <1>1, <1>2, <1>3, DeletedKeepsInv DEF DeleteMFATOTP
  <1>4. CASE Cleanup
    <2>1. /\ challenges' \in [Challenges -> [state : {"free", "open", "consumed", "deleted"}, expires : Nat]]
          /\ \A c \in Challenges : \/ challenges'[c] = challenges[c]
                                   \/ challenges[c].state # "free" /\ challenges'[c].state = "deleted"
      BY <1>1, <1>4 DEF Cleanup
    <2> QED BY <1>1, <1>4, <2>1, DeletedKeepsInv DEF Cleanup
  <1>5. CASE RecoverOwner
    <2>1. /\ requests' \in [Requests -> RequestRecord]
          /\ \A r \in Requests : requests'[r] = Idle
      BY <1>5, RestIsRecord DEF RecoverOwner
    <2>2. /\ sessions' \in [Sessions -> [state : {"free", "live", "ended"}, challenge : Challenges \cup {NoId}]]
          /\ \A s \in Sessions : sessions'[s].challenge = sessions[s].challenge
      BY <1>1, <1>5 DEF RecoverOwner
    <2> QED BY <1>2, <1>5, <2>1, <2>2, DeletedKeepsInv DEF RecoverOwner
  <1>6. ASSUME NEW s \in Sessions, Logout(s) PROVE SignInInv'
    <2>1. /\ sessions' \in [Sessions -> [state : {"free", "live", "ended"}, challenge : Challenges \cup {NoId}]]
          /\ \A t \in Sessions : sessions'[t].challenge = sessions[t].challenge
      BY <1>1, <1>6 DEF Logout
    <2> QED BY <1>1, <1>6, <2>1, DeletedKeepsInv DEF Logout
  <1> QED BY <1>3, <1>4, <1>5, <1>6

(* Time changes no row. *)
LEMMA TickKeepsInv ==
    ASSUME SignInInv, Tick
    PROVE  SignInInv'
  <1>1. TypeOK'
    BY DEF SignInInv, TypeOK, Tick
  <1>2. ChallengeInv'
    BY DEF SignInInv, ChallengeInv, Fits, At, OneSessionPerChallenge, Tick
  <1>3. CodeInv'
    BY DEF SignInInv, CodeInv, ActiveSecretWasProven, Tick
  <1> QED BY <1>1, <1>2, <1>3 DEF SignInInv

-----------------------------------------------------------------------------
(* The inductive invariant holds in every reachable state of sign-in. *)
THEOREM SignInInvariance == Spec => []SignInInv
  <1>1. Init => SignInInv
    <2> SUFFICES ASSUME Init PROVE SignInInv
      OBVIOUS
    <2>1. TypeOK
      <3>1. requests \in [Requests -> RequestRecord]
        BY RestIsRecord DEF Init
      <3> QED BY <3>1, SignInAssumption
              DEF Init, TypeOK, RequestRecord, NoTOTP, NoCodes
    <2>2. ChallengeInv
      BY SignInAssumption
         DEF Init, ChallengeInv, Fits, At, Idle, Signing, Verified, OneSessionPerChallenge
    <2>3. CodeInv
      BY DEF Init, CodeInv, NoTOTP, NoCodes, ActiveSecretWasProven
    <2> QED BY <2>1, <2>2, <2>3 DEF SignInInv
  <1>2. SignInInv /\ [Next]_vars => SignInInv'
    <2> SUFFICES ASSUME SignInInv, [Next]_vars PROVE SignInInv'
      OBVIOUS
    <2>1. ASSUME NEW r \in Requests,
                 \/ GiveUp(r) \/ LoginVerified(r) \/ ReadMFAChallenge(r) \/ verifySecondFactor(r)
                 \/ MatchCode(r) \/ BeginTOTPEnrollment(r) \/ ActivateTOTP(r) \/ ConfirmCode(r)
                 \/ RegenerateRecoveryCodes(r)
          PROVE  SignInInv'
      BY <2>1, ReadsKeepInv
    <2>2. ASSUME NEW r \in Requests,
                 \/ mfaChallengeFor(r) \/ CompleteLogin(r) \/ ConsumeMFAChallenge(r)
                 \/ RecordMFATOTPUse(r) \/ ConsumeMFARecoveryCode(r) \/ UpsertMFATOTP(r)
                 \/ ActivateMFATOTPWithRecoveryCodes(r) \/ ReplaceMFARecoveryCodes(r)
          PROVE  SignInInv'
      BY <2>2, IssueKeepsInv, CompleteKeepsInv, ConsumeKeepsInv, RecordKeepsInv,
         RecoveryCodeKeepsInv, UpsertKeepsInv, ActivateKeepsInv, ReplaceKeepsInv
    <2>3. CASE DeleteMFATOTP \/ Cleanup \/ RecoverOwner \/ \E s \in Sessions : Logout(s)
      BY <2>3, UpkeepKeepsInv
    <2>4. CASE Tick
      BY <2>4, TickKeepsInv
    <2>5. CASE UNCHANGED vars
      <3>1. TypeOK' /\ CodeInv'
        BY <2>5 DEF SignInInv, TypeOK, CodeInv, ActiveSecretWasProven, vars
      <3>2. ChallengeInv'
        BY <2>5 DEF SignInInv, ChallengeInv, Fits, At, OneSessionPerChallenge, vars
      <3> QED BY <3>1, <3>2 DEF SignInInv
    <2> QED BY <2>1, <2>2, <2>3, <2>4, <2>5 DEF Next
  <1> QED BY <1>1, <1>2, PTL DEF Spec

(* The requests that race to finish one challenge make one session of it,    *)
(* however many they are: ConsumeMFAChallenge and CompleteLogin.             *)
THEOREM ChallengesAreSingleUse == Spec => []OneSessionPerChallenge
  BY SignInInvariance, PTL DEF SignInInv, ChallengeInv

(* Rows are typed, an active secret was proven, and its recovery codes are   *)
(* whole, through every replacement, activation and recovery.                *)
THEOREM FactorStaysSound == Spec => []FactorIsSound
  <1>1. SignInInv => FactorIsSound
    BY DEF SignInInv, CodeInv, FactorIsSound, RecoveryCodesAreWhole
  <1> QED BY <1>1, SignInInvariance, PTL

(* A request's step changes no other request. *)
LEMMA OtherRequestsKept ==
    ASSUME TypeOK, NEW x \in Requests, NEW r \in Requests, r # x,
           \/ GiveUp(x) \/ LoginVerified(x) \/ mfaChallengeFor(x) \/ CompleteLogin(x)
           \/ ReadMFAChallenge(x) \/ verifySecondFactor(x) \/ MatchCode(x)
           \/ RecordMFATOTPUse(x) \/ ConsumeMFARecoveryCode(x) \/ ConsumeMFAChallenge(x)
           \/ BeginTOTPEnrollment(x) \/ UpsertMFATOTP(x)
           \/ ActivateTOTP(x) \/ ConfirmCode(x) \/ ActivateMFATOTPWithRecoveryCodes(x)
           \/ RegenerateRecoveryCodes(x) \/ ReplaceMFARecoveryCodes(x)
    PROVE  requests'[r] = requests[r]
  <1>1. requests = [q \in Requests |-> requests[q]]
    BY DEF TypeOK
  <1>2. CASE \/ GiveUp(x) \/ mfaChallengeFor(x) \/ CompleteLogin(x) \/ UpsertMFATOTP(x)
             \/ ActivateMFATOTPWithRecoveryCodes(x) \/ ReplaceMFARecoveryCodes(x)
    BY <1>1, <1>2 DEF GiveUp, mfaChallengeFor, CompleteLogin, UpsertMFATOTP,
                      ActivateMFATOTPWithRecoveryCodes, ReplaceMFARecoveryCodes, Done
  <1>3. CASE \/ LoginVerified(x) \/ ConsumeMFAChallenge(x) \/ BeginTOTPEnrollment(x)
             \/ RegenerateRecoveryCodes(x)
    BY <1>1, <1>3 DEF LoginVerified, ConsumeMFAChallenge, BeginTOTPEnrollment,
                      RegenerateRecoveryCodes, Enter
  <1>4. CASE RecordMFATOTPUse(x) \/ ConsumeMFARecoveryCode(x)
    BY <1>1, <1>4 DEF RecordMFATOTPUse, ConsumeMFARecoveryCode, Accepted
  <1>5. CASE \/ ReadMFAChallenge(x) \/ verifySecondFactor(x) \/ MatchCode(x)
             \/ ActivateTOTP(x) \/ ConfirmCode(x)
    BY <1>1, <1>5 DEF ReadMFAChallenge, verifySecondFactor, MatchCode, ActivateTOTP,
                      ConfirmCode, ReadMFATOTP
  <1> QED BY <1>2, <1>3, <1>4, <1>5

(* RecordMFATOTPUse, ConsumeMFARecoveryCode and the activation accept no     *)
(* code that any of them has accepted before.                                *)
THEOREM CodesAreSingleUse == Spec => NoCodeIsAcceptedTwice
  <1>1. ASSUME SignInInv, [Next]_vars
        PROVE  [\A r \in Requests : Accepts(r) => requests[r].code \notin spent]_vars
    <2> SUFFICES ASSUME Next, NEW r \in Requests, Accepts(r)
                 PROVE  requests[r].code \notin spent
      BY <1>1
    <2>1. /\ requests'[r] # requests[r] /\ requests[r].pc \in {"totp", "recovery", "activate"}
          /\ At(r, "activate") => totp'.status = "active" /\ totp.status = "pending"
          /\ requests'[r] = Idle => At(r, "activate")
      BY DEF Accepts, At, Idle
    <2>2. CASE RecordMFATOTPUse(r)
      BY <1>1, <2>2, RecordKeepsInv
    <2>3. CASE ConsumeMFARecoveryCode(r)
      BY <1>1, <2>3, RecoveryCodeKeepsInv
    <2>4. CASE ActivateMFATOTPWithRecoveryCodes(r)
      BY <1>1, <2>4, ActivateKeepsInv
    <2>5. ~GiveUp(r)
      <3> SUFFICES ASSUME GiveUp(r) PROVE FALSE
        OBVIOUS
      <3>1. requests'[r] = Idle
        BY <1>1, Turned DEF GiveUp, SignInInv
      <3> QED BY <2>1, <3>1 DEF GiveUp
    <2>6. /\ ~LoginVerified(r) /\ ~mfaChallengeFor(r) /\ ~CompleteLogin(r) /\ ~ReadMFAChallenge(r)
          /\ ~verifySecondFactor(r) /\ ~MatchCode(r) /\ ~ConsumeMFAChallenge(r)
          /\ ~BeginTOTPEnrollment(r) /\ ~UpsertMFATOTP(r) /\ ~ActivateTOTP(r) /\ ~ConfirmCode(r)
          /\ ~RegenerateRecoveryCodes(r) /\ ~ReplaceMFARecoveryCodes(r)
      BY <2>1 DEF LoginVerified, mfaChallengeFor, CompleteLogin, ReadMFAChallenge,
                  verifySecondFactor, MatchCode, ConsumeMFAChallenge, BeginTOTPEnrollment,
                  UpsertMFATOTP, ActivateTOTP, ConfirmCode, RegenerateRecoveryCodes,
                  ReplaceMFARecoveryCodes, At
    <2>7. ~RecoverOwner
      <3> SUFFICES ASSUME RecoverOwner PROVE FALSE
        OBVIOUS
      <3>1. requests'[r] = Idle /\ totp'.status = "none"
        BY DEF RecoverOwner, NoTOTP
      <3> QED BY <2>1, <3>1
    <2>8. ~DeleteMFATOTP /\ ~Cleanup /\ ~Tick /\ \A s \in Sessions : ~Logout(s)
      BY <2>1 DEF DeleteMFATOTP, Cleanup, Tick, Logout
    <2>9. \/ RecordMFATOTPUse(r) \/ ConsumeMFARecoveryCode(r)
          \/ ActivateMFATOTPWithRecoveryCodes(r)
      BY <1>1, <2>1, <2>5, <2>6, <2>7, <2>8, OtherRequestsKept DEF Next, SignInInv
    <2> QED BY <2>2, <2>3, <2>4, <2>9
  <1> QED BY <1>1, SignInInvariance, PTL DEF Spec, NoCodeIsAcceptedTwice

(* CompleteLogin makes a session only under the enrolment whose code was     *)
(* verified: what was disabled or replaced since has taken its challenge.    *)
THEOREM SignInsAreCurrent == Spec => FactorIsCurrent
  <1>1. ASSUME SignInInv, [Next]_vars,
               NEW s \in Sessions, NEW r \in Requests,
               sessions[s].state = "free", sessions'[s].state = "live",
               At(r, "complete"), requests'[r] = Idle
        PROVE  totp.status = "active" /\ requests[r].secret = totp.secret
    <2>1. requests'[r] # requests[r] /\ sessions'[s] # sessions[s]
      BY <1>1 DEF At, Idle
    <2>2. Next
      BY <1>1, <2>1 DEF vars
    <2>3. ~RecoverOwner
      BY <1>1 DEF RecoverOwner
    <2>4. ~DeleteMFATOTP /\ ~Cleanup /\ ~Tick /\ \A t \in Sessions : ~Logout(t)
      BY <2>1 DEF DeleteMFATOTP, Cleanup, Tick, Logout
    <2>5. /\ ~GiveUp(r) /\ ~LoginVerified(r) /\ ~mfaChallengeFor(r) /\ ~ReadMFAChallenge(r)
          /\ ~verifySecondFactor(r) /\ ~MatchCode(r) /\ ~ConsumeMFAChallenge(r)
          /\ ~RecordMFATOTPUse(r) /\ ~ConsumeMFARecoveryCode(r)
          /\ ~ActivateMFATOTPWithRecoveryCodes(r)
          /\ ~BeginTOTPEnrollment(r) /\ ~UpsertMFATOTP(r) /\ ~ActivateTOTP(r) /\ ~ConfirmCode(r)
          /\ ~RegenerateRecoveryCodes(r) /\ ~ReplaceMFARecoveryCodes(r)
      BY <1>1, <2>1
         DEF GiveUp, LoginVerified, mfaChallengeFor, ReadMFAChallenge, verifySecondFactor,
             MatchCode, ConsumeMFAChallenge, RecordMFATOTPUse, ConsumeMFARecoveryCode,
             ActivateMFATOTPWithRecoveryCodes, BeginTOTPEnrollment, UpsertMFATOTP,
             ActivateTOTP, ConfirmCode, RegenerateRecoveryCodes, ReplaceMFARecoveryCodes, At
    <2>6. CompleteLogin(r)
      BY <1>1, <2>1, <2>2, <2>3, <2>4, <2>5, OtherRequestsKept DEF Next, SignInInv
    <2> QED BY <1>1, <2>6
            DEF CompleteLogin, ChallengeStands, SignInInv, ChallengeInv, Fits, Signing, Verified, At
  <1>2. SignInInv /\ [Next]_vars =>
          [\A s \in Sessions, r \in Requests :
             /\ sessions[s].state = "free" /\ sessions'[s].state = "live"
             /\ At(r, "complete") /\ requests'[r] = Idle
             => totp.status = "active" /\ requests[r].secret = totp.secret]_vars
    BY <1>1
  <1> QED BY <1>2, SignInInvariance, PTL DEF Spec, FactorIsCurrent

=============================================================================
