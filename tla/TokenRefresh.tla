--------------------------- MODULE TokenRefresh ---------------------------
(* The refresh of a stored OAuth credential, which Pi calls under the lock of *)
(* its store when the credential has expired, and stores: refreshClineToken,  *)
(* refreshKiloCredential and refreshQoderToken, the last with an OAuth or a   *)
(* personal access token.  The provider may rotate the refresh token, answer  *)
(* incompletely, or answer in vain because the answer is lost.                *)
EXTENDS Naturals, FiniteSetsExt

CONSTANTS Floor, Margin, Hour, Long,    \* 30 s, 5 min, an hour, the default life
          Lives,                        \* what a provider may grant
          MaxTime, MaxTokens            \* bounds on the clock and the rotations

VARIABLES kind,         \* "cline", "kilo", "oauth" and "pat" of Qoder
          now,
          cred,         \* the stored credential
          phase,        \* "idle", or the attempt underway
          valid,        \* the refresh token that the provider accepts
          granted,      \* the life that its last answer granted
          flaws,        \* "lost" answers, "blank" ones, profiles not "found"
          result        \* of the last call
vars == <<kind, now, cred, phase, valid, granted, flaws, result>>

NoToken == 0
Cred == [access : Nat, refresh : Nat, expires : Nat, user : BOOLEAN, machine : BOOLEAN]

(* what each login stores; Cline's provider may send no refresh token *)
LoginExpiry(k, life) ==
  CASE k = "cline" -> Max({Floor, IF life > Margin THEN life - Margin ELSE 0})
    [] k = "kilo" -> Long
    [] OTHER -> IF life > Margin THEN life - Margin ELSE 0
Init ==
  /\ kind \in {"cline", "kilo", "oauth", "pat"} /\ now = 0 /\ phase = "idle"
  /\ valid = 1 /\ granted \in Lives /\ flaws = {} /\ result = "none"
  /\ \E r \in {NoToken, 1} :
       /\ r = NoToken => kind = "cline"
       /\ cred = [access |-> 1, refresh |-> r, expires |-> LoginExpiry(kind, granted),
                  user |-> TRUE, machine |-> TRUE]

Tick == /\ now < MaxTime /\ now' = now + 1
        /\ result' = "none"
        /\ UNCHANGED <<kind, cred, phase, valid, granted, flaws>>

(* Pi calls; Kilo has nothing to refresh with *)
Call ==
  /\ phase = "idle" /\ cred.expires <= now
  /\ IF kind = "kilo" THEN result' = "threw" /\ UNCHANGED phase
                      ELSE phase' = "first" /\ UNCHANGED result
  /\ UNCHANGED <<kind, now, cred, valid, granted, flaws>>

----------------------------------------------------------------------------
(* what becomes of the credential *)

Less(t, d) == IF t > d THEN t - d ELSE 0
Expiry(life) == IF kind = "cline" THEN Max({now + Floor, Less(now + life, Margin)})
                                  ELSE Less(now + life, Margin)

(* bug: a rotated token is dropped, the old one kept *)
RefreshKept(answer) == cred.refresh
RefreshTaken(answer) == IF answer.refresh = NoToken THEN cred.refresh ELSE answer.refresh

(* the personal access token stays; its exchange brings the identity anew *)
Renewed(answer, found) ==
  [access |-> answer.access, expires |-> Expiry(answer.life), machine |-> cred.machine,
   refresh |-> IF kind = "pat" THEN cred.refresh ELSE RefreshTaken(answer),
   user |-> IF kind = "pat" THEN found ELSE cred.user]

Extended == [cred EXCEPT !.expires = now + Hour]

(* an attempt that failed: Cline tries again after a second, then throws;      *)
(* Qoder extends what it has                                                  *)
Failed ==
  IF kind = "cline"
  THEN /\ phase' = IF phase = "first" THEN "second" ELSE "idle"
       /\ result' = IF phase = "first" THEN "none" ELSE "threw"
       /\ UNCHANGED cred
  ELSE phase' = "idle" /\ cred' = Extended /\ result' = "extended"

----------------------------------------------------------------------------
(* one request: refused, or accepted and then answered, or the answer lost *)

Accepted == kind = "pat" \/ cred.refresh = valid
Rotates(v) == \/ valid' = v /\ v = valid
              \/ kind # "pat" /\ v = valid + 1 /\ v <= MaxTokens /\ valid' = v

Answer(v, life, blank) == [access |-> IF blank THEN NoToken ELSE cred.access + 1,
                           refresh |-> IF v = valid THEN NoToken ELSE v, life |-> life]

Attempt ==
  /\ phase # "idle" /\ cred.access < MaxTokens
  /\ \/ Failed /\ UNCHANGED <<valid, granted, flaws>>
     \/ /\ Accepted
        /\ \E v \in 1..MaxTokens, life \in Lives :
             /\ Rotates(v) /\ granted' = life
             /\ \/ Failed /\ flaws' = IF v = valid THEN flaws ELSE flaws \cup {"lost"}
                \/ \E found \in {TRUE, kind # "pat"}, blank \in {FALSE, kind = "oauth"} :
                     /\ phase' = "idle" /\ result' = "renewed"
                     /\ cred' = Renewed(Answer(v, life, blank), found)
                     /\ flaws' = flaws \cup (IF blank THEN {"blank"} ELSE {})
                                       \cup (IF found THEN {} ELSE {"unfound"})
  /\ UNCHANGED <<kind, now>>

Next == Tick \/ Call \/ Attempt
Spec == Init /\ [][Next]_vars

----------------------------------------------------------------------------
(* Types of the credential and of the provider's token. *)
TypeOK ==
  /\ kind \in {"cline", "kilo", "oauth", "pat"} /\ now \in 0..MaxTime
  /\ cred \in Cred /\ phase \in {"idle", "first", "second"} /\ valid \in 1..MaxTokens
  /\ flaws \subseteq {"lost", "blank", "unfound"}
  /\ result \in {"none", "threw", "extended", "renewed"}

(* Rotation is followed: the stored refresh token is the one the provider     *)
(* accepts, after any refreshes, refusals, retries and extensions, unless an  *)
(* answer that rotated it was lost.                                           *)
RotationFollowed ==
  "lost" \in flaws \/ cred.refresh \in {valid, NoToken}

(* A refresh returns no credential that is past its own date, and the one it  *)
(* returns names the same user and machine and has a token: if the provider   *)
(* granted more than the margin, answered with a token, and the profile was   *)
(* found.  After a refusal Qoder's is the old token with a date an hour off,  *)
(* whether or not the provider still takes it.                                *)
RenewedIsUsable ==
  /\ result \in {"renewed", "extended"} /\ (kind = "cline" \/ granted > Margin) => cred.expires > now
  /\ "blank" \in flaws \/ cred.access # NoToken
  /\ "unfound" \in flaws \/ (cred.user /\ cred.machine)

RefreshSafe == TypeOK /\ RotationFollowed /\ RenewedIsUsable
============================================================================
