--------------------------- MODULE ServiceProofs ---------------------------
(***************************************************************************)
(* Proofs about the small services: LoginLockout, VersionedCache,          *)
(* CatalogDomains, MediaUploads and AuthSessions.                          *)
(***************************************************************************)
EXTENDS Integers, LoginLockout, VersionedCache, CatalogDomains, MediaUploads, AuthSessions,
        FiniteSetTheorems, TLAPS

-----------------------------------------------------------------------------
(* LoginLockout.  With its types, CounterGuarded is inductive: the command *)
(* that a counter waits for can be taken only by the request that owes it. *)

LockoutShapes ==
    /\ attemptsLost \in 0..MaxAttemptsLost /\ fails \in Nat
    /\ attempt \in [Attempts -> {"idle", "verify", "incr", "expire", "lock", "clear"}]

LockoutInv == LockoutShapes /\ CounterGuarded

LEMMA LockoutStep == LockoutInv /\ [LockoutNext]_lockoutVars => LockoutInv'
<1> SUFFICES ASSUME LockoutInv, [LockoutNext]_lockoutVars
             PROVE  LockoutInv'
    OBVIOUS
<1> USE DEF LockoutInv, LockoutShapes, CounterGuarded, Attempt
<1>l. LockoutAttempts \in Nat /\ LockoutAttempts > 1 /\ MaxAttemptsLost \in Nat
    BY LockoutAssumption
<1>1. ASSUME NEW p \in Attempts, CheckLockout(p) PROVE LockoutInv'
    BY <1>1, <1>l DEF CheckLockout
<1>2. ASSUME NEW p \in Attempts, ValidateAttempt(p) PROVE LockoutInv'
    BY <1>2, <1>l DEF ValidateAttempt
<1>3. ASSUME NEW p \in Attempts, IncrementFails(p) PROVE LockoutInv'
  <2>1. CASE fails = 0
    <3>1. attempt'[p] = "expire" /\ fails' = 1
      BY <1>3, <2>1 DEF IncrementFails
    <3> QED BY <1>3, <1>l, <3>1 DEF IncrementFails
  <2>2. CASE fails > 0 /\ fails + 1 >= LockoutAttempts
    <3>1. attempt'[p] = "lock" /\ fails' \in Nat
      BY <1>3, <2>2, <1>l DEF IncrementFails
    <3>2. \A q \in Attempts : attempt[q] = "expire" => attempt'[q] = "expire"
      BY <1>3 DEF IncrementFails
    <3> QED BY <1>3, <1>l, <2>2, <3>1, <3>2 DEF IncrementFails
  <2>3. CASE fails > 0 /\ ~(fails + 1 >= LockoutAttempts)
    <3>1. \A q \in Attempts : attempt[q] = "expire" => attempt'[q] = "expire"
      BY <1>3 DEF IncrementFails
    <3> QED BY <1>3, <1>l, <2>3, <3>1 DEF IncrementFails
  <2> QED BY <2>1, <2>2, <2>3
<1>4. ASSUME NEW p \in Attempts, ExpireFails(p) PROVE LockoutInv'
    BY <1>4, <1>l DEF ExpireFails
<1>5. ASSUME NEW p \in Attempts, SetLockout(p) PROVE LockoutInv'
  <2>1. attempt' \in [Attempts -> {"idle", "verify", "incr", "expire", "lock", "clear"}]
    BY <1>5 DEF SetLockout
  <2>2. attempt'[p] = "clear"
    BY <1>5 DEF SetLockout
  <2>3. \A q \in Attempts : attempt[q] = "expire" => attempt'[q] = "expire"
    BY <1>5 DEF SetLockout
  <2>4. locked' = TRUE /\ UNCHANGED <<attemptsLost, fails, failsExpire>>
    BY <1>5 DEF SetLockout
  <2>5. LockoutShapes'
    BY <2>1, <2>4
  <2> QED BY <2>2, <2>3, <2>4, <2>5
<1>6. ASSUME NEW p \in Attempts, ClearFailedAttempts(p) PROVE LockoutInv'
    BY <1>6, <1>l DEF ClearFailedAttempts
<1>7. ASSUME NEW p \in Attempts, AttemptDies(p) PROVE LockoutInv'
  <2>1. attemptsLost' \in 0..MaxAttemptsLost /\ attemptsLost' # 0
    BY <1>7, <1>l DEF AttemptDies
  <2>2. attempt' \in [Attempts -> {"idle", "verify", "incr", "expire", "lock", "clear"}]
    BY <1>7 DEF AttemptDies
  <2>3. UNCHANGED <<fails, failsExpire, locked>>
    BY <1>7 DEF AttemptDies
  <2>4. LockoutShapes'
    BY <2>1, <2>2, <2>3
  <2> QED BY <2>1, <2>4
<1>8. CASE FailsWindowPasses
    BY <1>8, <1>l DEF FailsWindowPasses
<1>9. CASE LockoutPasses
    BY <1>9, <1>l DEF LockoutPasses
<1>10. CASE UNCHANGED lockoutVars
    BY <1>10 DEF lockoutVars
<1> QED
    BY <1>1, <1>2, <1>3, <1>4, <1>5, <1>6, <1>7, <1>8, <1>9, <1>10 DEF LockoutNext

LEMMA LockoutStarts == LockoutInit => LockoutInv
<1>1. LockoutAttempts \in Nat /\ LockoutAttempts > 1 /\ MaxAttemptsLost \in Nat
  BY LockoutAssumption
<1>2. LockoutInit => LockoutShapes
  BY <1>1 DEF LockoutInit, LockoutShapes
<1>3. LockoutInit => fails = 0 /\ ~(0 >= LockoutAttempts)
  BY <1>1 DEF LockoutInit
<1> QED BY <1>2, <1>3 DEF LockoutInv, CounterGuarded

(* recordFailedAttempt: for any number of logins at once and any limit, a  *)
(* counter without an expiry, or at the limit, is about to be dealt with,  *)
(* as long as no request dies between its commands.                        *)
THEOREM FailedLoginsGuarded == LockoutSpec => []CounterGuarded
<1> QED
    BY LockoutStarts, LockoutStep, PTL DEF LockoutSpec, LockoutInv

(* The shape of the logins and the bound on lost requests.                 *)

LEMMA LockoutTypeStep == LockoutTypeOK /\ [LockoutNext]_lockoutVars => LockoutTypeOK'
<1> SUFFICES ASSUME LockoutTypeOK, [LockoutNext]_lockoutVars
             PROVE  LockoutTypeOK'
    OBVIOUS
<1> USE LockoutAssumption DEF LockoutTypeOK
<1>1. ASSUME NEW p \in Attempts, CheckLockout(p) PROVE LockoutTypeOK'
    BY <1>1 DEF CheckLockout, Attempt
<1>2. ASSUME NEW p \in Attempts, ValidateAttempt(p) PROVE LockoutTypeOK'
    BY <1>2 DEF ValidateAttempt, Attempt
<1>3. ASSUME NEW p \in Attempts, IncrementFails(p) PROVE LockoutTypeOK'
    BY <1>3 DEF IncrementFails, Attempt
<1>4. ASSUME NEW p \in Attempts, ExpireFails(p) PROVE LockoutTypeOK'
    BY <1>4 DEF ExpireFails, Attempt
<1>5. ASSUME NEW p \in Attempts, SetLockout(p) PROVE LockoutTypeOK'
    BY <1>5 DEF SetLockout, Attempt
<1>6. ASSUME NEW p \in Attempts, ClearFailedAttempts(p) PROVE LockoutTypeOK'
    BY <1>6 DEF ClearFailedAttempts, Attempt
<1>7. ASSUME NEW p \in Attempts, AttemptDies(p) PROVE LockoutTypeOK'
    BY <1>7 DEF AttemptDies, Attempt
<1>8. CASE FailsWindowPasses
    BY <1>8 DEF FailsWindowPasses
<1>9. CASE LockoutPasses
    BY <1>9 DEF LockoutPasses
<1>10. CASE UNCHANGED lockoutVars
    BY <1>10 DEF lockoutVars
<1> QED
    BY <1>1, <1>2, <1>3, <1>4, <1>5, <1>6, <1>7, <1>8, <1>9, <1>10
    DEF LockoutNext

LEMMA LockoutTypeStarts == LockoutInit => LockoutTypeOK
<1>1. 0 \in 0..MaxAttemptsLost
    BY LockoutAssumption
<1>2. LockoutInit => failsExpire \in BOOLEAN /\ locked \in BOOLEAN
    BY Zenon DEF LockoutInit
<1>3. LockoutInit => /\ attempt \in [Attempts -> {"idle", "verify", "incr", "expire", "lock", "clear"}]
                     /\ attemptsLost \in 0..MaxAttemptsLost /\ fails \in Nat
    BY <1>1 DEF LockoutInit
<1> QED BY <1>2, <1>3 DEF LockoutTypeOK

-----------------------------------------------------------------------------
(* CatalogDomains.  A verification token is 1 or more, so a record that    *)
(* matches one is there, and only the catalog of its holder published it.  *)

Held(h) == domain[h].catalog = HolderOf[h]

Statuses == {"ABSENT", "PENDING_DNS", "ACTIVE", "FAILED", "DISABLED"}
Rows == [catalog : Catalogs \cup {"none"}, status : Statuses, token : Nat]
Checks == [step : {"resolve", "pass", "fail"}, host : Hosts, token : Nat]
Adds == [step : {"insert", "readd"}, host : Hosts]
Reads == [host : Hosts, token : Nat]

DomainShapes ==
    /\ domain \in [Hosts -> Rows] /\ zone \in [Hosts -> Nat] /\ issued \in Nat
    /\ asks \in [Catalogs -> {NoAsk} \cup Adds \cup Checks]
    /\ round \in Seq(Reads)

(* A row that exists has a token, and so has whatever was read from it.    *)
Tokens ==
    /\ \A h \in Hosts :
          domain[h].catalog # "none" \/ domain[h].status # "ABSENT" => domain[h].token > 0
    /\ \A c \in Catalogs :
          asks[c].step \in {"resolve", "pass", "fail"}
              => asks[c].token > 0 /\ domain[asks[c].host].token > 0
    /\ \A i \in 1..Len(round) : round[i].token > 0 /\ domain[round[i].host].token > 0
    /\ verdict # "none" => round # <<>>

(* What says "pass" is about a hostname of its holder.                     *)
Passes ==
    /\ \A h \in Hosts : zone[h] # 0 => Held(h)
    /\ \A c \in Catalogs : asks[c].step = "pass" => Held(asks[c].host)
    /\ verdict = "pass" => Held(round[1].host)

DomainInv == DomainShapes /\ Tokens /\ Passes /\ ActiveIsProven

(* Rows keep their catalog and never lose their token.                     *)
RowsStay == \A h \in Hosts : /\ domain[h].catalog # "none" => domain'[h].catalog = domain[h].catalog
                             /\ domain[h].token > 0 => domain'[h].token > 0

LEMMA HeldStays ==
    ASSUME DomainShapes, RowsStay, NEW h \in Hosts, Held(h)
    PROVE  Held(h)'
<1>1. HolderOf[h] # "none"
    BY DomainAssumption
<1> QED
    BY <1>1 DEF RowsStay, Held

(* A step that writes rows and ends requests or turns of the cron job.     *)
LEMMA RowStep ==
    ASSUME DomainInv, DomainShapes', RowsStay, ActiveIsProven', UNCHANGED zone,
           \A h \in Hosts :
              domain'[h].catalog # "none" \/ domain'[h].status # "ABSENT" => domain'[h].token > 0,
           \A c \in Catalogs : asks'[c] \in {asks[c], NoAsk},
           \/ UNCHANGED <<round, verdict>>
           \/ /\ verdict' = "none"
              /\ \A i \in 1..Len(round') : \E k \in 1..Len(round) : round'[i] = round[k]
    PROVE  DomainInv'
<1> USE DEF DomainInv
<1>1. \A c \in Catalogs : asks'[c].step \in {"resolve", "pass", "fail"} =>
          /\ asks'[c] = asks[c] /\ asks[c].host \in Hosts
          /\ asks[c].step \in {"resolve", "pass", "fail"}
    BY DEF NoAsk, DomainShapes, Adds, Checks
<1>2. \A i \in 1..Len(round) : round[i].host \in Hosts
  <2>1. \A i \in 1..Len(round) : round[i] \in Reads
    BY DEF DomainShapes
  <2> QED BY <2>1 DEF Reads
<1>3. Tokens'
  <2>1. \A c \in Catalogs : asks'[c].step \in {"resolve", "pass", "fail"}
              => asks'[c].token > 0 /\ domain'[asks'[c].host].token > 0
    BY <1>1 DEF Tokens, RowsStay
  <2>2. \A i \in 1..Len(round') : round'[i].token > 0 /\ domain'[round'[i].host].token > 0
    BY <1>2 DEF Tokens, RowsStay
  <2> QED BY <2>1, <2>2 DEF Tokens
<1>4. Passes'
  <2>1. \A h \in Hosts : Held(h) => Held(h)'
    BY HeldStays
  <2>2. \A h \in Hosts : zone'[h] # 0 => Held(h)'
    BY <2>1 DEF Passes
  <2>3. \A c \in Catalogs : asks'[c].step = "pass" => domain'[asks'[c].host].catalog = HolderOf[asks'[c].host]
    BY <1>1, <2>1 DEF Passes, Held
  <2>4. verdict' = "pass" => domain'[round'[1].host].catalog = HolderOf[round'[1].host]
    <3> SUFFICES ASSUME verdict' = "pass" PROVE domain'[round'[1].host].catalog = HolderOf[round'[1].host]
        OBVIOUS
    <3>1. UNCHANGED <<round, verdict>> /\ round # <<>> /\ Held(round[1].host)
        BY DEF Tokens, Passes
    <3>2. 1 \in 1..Len(round)
        BY <3>1 DEF DomainShapes
    <3> QED BY <3>1, <3>2, <1>2, <2>1 DEF Held
  <2> QED BY <2>2, <2>3, <2>4 DEF Passes, Held
<1> QED BY <1>3, <1>4

(* SetDomain, by a check or by the administrator.                          *)
LEMMA StatusStep ==
    ASSUME DomainInv, NEW h \in Hosts, NEW status \in Statuses, SetDomain(h, status),
           domain[h].token > 0, status = "ACTIVE" => Held(h)
    PROVE  /\ domain' \in [Hosts -> Rows] /\ RowsStay /\ ActiveIsProven'
           /\ \A g \in Hosts :
                 domain'[g].catalog # "none" \/ domain'[g].status # "ABSENT" => domain'[g].token > 0
<1>1. /\ domain' \in [Hosts -> Rows]
      /\ \A g \in Hosts : /\ domain'[g].catalog = domain[g].catalog
                           /\ domain'[g].token = domain[g].token
      /\ domain'[h].status = status
      /\ \A g \in Hosts \ {h} : domain'[g] = domain[g]
    BY DEF DomainInv, DomainShapes, SetDomain, Rows
<1>2. RowsStay
    BY <1>1 DEF RowsStay
<1>3. ActiveIsProven'
    BY <1>1 DEF ActiveIsProven, DomainInv, Held
<1> QED BY <1>1, <1>2, <1>3 DEF DomainInv, Tokens

Renewed(r, n) == [r EXCEPT !.status = "PENDING_DNS", !.token = n]

LEMMA RenewedRow ==
    ASSUME NEW r \in Rows, NEW n \in Nat
    PROVE  /\ Renewed(r, n) \in Rows /\ Renewed(r, n).catalog = r.catalog
           /\ Renewed(r, n).status = "PENDING_DNS" /\ Renewed(r, n).token = n
    BY DEF Rows, Statuses, Renewed

LEMMA DomainStep == DomainInv /\ [DomainNext]_domainVars => DomainInv'
<1> SUFFICES ASSUME DomainInv, [DomainNext]_domainVars
             PROVE  DomainInv'
    OBVIOUS
<1> USE DomainAssumption DEF DomainInv, DomainShapes, cronState
<1>1. ASSUME NEW h \in Hosts, PublishTxt(h) PROVE DomainInv'
    BY <1>1 DEF PublishTxt, Tokens, Passes, Held, ActiveIsProven, Rows
<1>2. ASSUME NEW h \in Hosts, RemoveTxt(h) PROVE DomainInv'
    BY <1>2 DEF RemoveTxt, Tokens, Passes, Held, ActiveIsProven
<1>3. ASSUME NEW c \in Catalogs, NEW h \in Hosts, FindHostname(c, h) PROVE DomainInv'
  <2>1. PICK ask \in Adds : Pursue(c, ask)
    BY <1>3 DEF FindHostname, Adds
  <2>2. asks' = [asks EXCEPT ![c] = ask] /\ ask.step \in {"insert", "readd"}
        /\ UNCHANGED <<domain, created, checked, zone, issued, round, verdict>>
    BY <1>3, <2>1 DEF FindHostname, Pursue, Adds
  <2> QED BY <2>1, <2>2 DEF Tokens, Passes, Held, ActiveIsProven
<1>4. ASSUME NEW c \in Catalogs, NEW h \in Hosts, DisableDomain(c, h) PROVE DomainInv'
  <2>1. domain[h].token > 0
    BY <1>4 DEF DisableDomain, Tokens
  <2>2. SetDomain(h, "DISABLED") /\ UNCHANGED <<zone, issued, asks, round, verdict>>
    BY <1>4 DEF DisableDomain
  <2>3. "DISABLED" \in Statuses
    BY DEF Statuses
  <2> QED BY <2>1, <2>2, <2>3, StatusStep, RowStep
<1>5. ASSUME NEW c \in Catalogs, NEW h \in Hosts, RequireDomain(c, h) PROVE DomainInv'
  <2> DEFINE ask == [step |-> "resolve", host |-> h, token |-> domain[h].token]
  <2>1. asks' = [asks EXCEPT ![c] = ask] /\ domain[h].catalog = c /\ c # "none"
        /\ UNCHANGED <<domain, created, checked, zone, issued, round, verdict>>
    BY <1>5 DEF RequireDomain, Pursue
  <2>2. ask \in Checks /\ ask.step = "resolve" /\ ask.host = h /\ ask.token > 0
        /\ domain[h].token > 0
    BY <2>1 DEF Checks, Tokens, Rows
  <2> HIDE DEF ask
  <2> QED BY <2>1, <2>2 DEF Tokens, Passes, Held, ActiveIsProven
<1>6. ASSUME NEW c \in Catalogs, InsertDomain(c) PROVE DomainInv'
  <2> DEFINE h == asks[c].host
  <2>1. h \in Hosts
    BY <1>6 DEF InsertDomain, NoAsk, Adds, Checks
  <2>2. asks' \in [Catalogs -> {NoAsk} \cup Adds \cup Checks] /\ UNCHANGED <<zone, round, verdict>>
        /\ \A d \in Catalogs : asks'[d] \in {asks[d], NoAsk}
    BY <1>6 DEF InsertDomain, Answer
  <2>3. CASE domain[h] = Absent
    <3> DEFINE new == [catalog |-> c, status |-> "PENDING_DNS", token |-> issued + 1]
    <3>1. domain' = [domain EXCEPT ![h] = new] /\ issued' = issued + 1
      BY <1>6, <2>3 DEF InsertDomain
    <3>2. new \in Rows /\ new.token > 0 /\ new.status # "ACTIVE"
      BY DEF Rows, Statuses
    <3> HIDE DEF new, h
    <3>3. RowsStay
      BY <2>1, <2>3, <3>1, <3>2 DEF RowsStay, Absent
    <3>4. ActiveIsProven' /\ domain' \in [Hosts -> Rows] /\ issued' \in Nat
          /\ \A g \in Hosts :
               domain'[g].catalog # "none" \/ domain'[g].status # "ABSENT" => domain'[g].token > 0
      BY <2>1, <3>1, <3>2 DEF ActiveIsProven, Tokens
    <3> QED BY <2>2, <3>3, <3>4, RowStep
  <2>4. CASE domain[h] # Absent
    <3>1. UNCHANGED <<domain, issued>>
      BY <1>6, <2>4 DEF InsertDomain
    <3>2. RowsStay /\ ActiveIsProven'
      BY <3>1 DEF RowsStay, ActiveIsProven
    <3> QED BY <2>2, <3>1, <3>2, RowStep DEF Tokens
  <2> QED BY <2>3, <2>4
<1>7. ASSUME NEW c \in Catalogs, ReaddDomain(c) PROVE DomainInv'
  <2> DEFINE h == asks[c].host
  <2>1. h \in Hosts
    BY <1>7 DEF ReaddDomain, NoAsk, Adds, Checks
  <2>2. asks' \in [Catalogs -> {NoAsk} \cup Adds \cup Checks] /\ UNCHANGED <<zone, round, verdict>>
        /\ \A d \in Catalogs : asks'[d] \in {asks[d], NoAsk}
    BY <1>7 DEF ReaddDomain, Answer
  <2>3. domain' = [domain EXCEPT ![h].status = "PENDING_DNS", ![h].token = issued + 1]
        /\ issued' = issued + 1
    BY <1>7 DEF ReaddDomain
  <2> HIDE DEF h
  <2>4. /\ domain' \in [Hosts -> Rows]
        /\ domain'[h].catalog = domain[h].catalog /\ domain'[h].token = issued + 1
        /\ domain'[h].status = "PENDING_DNS"
        /\ \A g \in Hosts \ {h} : domain'[g] = domain[g]
    <3>1. domain[h] \in Rows /\ issued + 1 \in Nat
      BY <2>1
    <3>2. domain' = [domain EXCEPT ![h] = Renewed(domain[h], issued + 1)]
      BY <2>1, <2>3 DEF Renewed
    <3> QED BY <2>1, <3>1, <3>2, RenewedRow
  <2>5. RowsStay /\ ActiveIsProven' /\ issued' \in Nat
        /\ \A g \in Hosts :
             domain'[g].catalog # "none" \/ domain'[g].status # "ABSENT" => domain'[g].token > 0
    BY <2>1, <2>3, <2>4 DEF RowsStay, ActiveIsProven, Tokens
  <2> QED BY <2>2, <2>4, <2>5, RowStep
<1>8. ASSUME NEW c \in Catalogs, ResolveManual(c) PROVE DomainInv'
  <2>1. asks[c] \in Checks /\ asks[c].host \in Hosts /\ asks[c].token > 0
        /\ domain[asks[c].host].token > 0
    <3>1. asks[c].step = "resolve" /\ asks[c] \in {NoAsk} \cup Adds \cup Checks
      BY <1>8 DEF ResolveManual
    <3>2. asks[c] \in Checks
      BY <3>1 DEF NoAsk, Adds
    <3> QED BY <3>1, <3>2 DEF Checks, Tokens
  <2>2. PICK step \in {"pass", "fail"} :
            /\ asks' = [asks EXCEPT ![c].step = step]
            /\ step = "pass" => zone[asks[c].host] = asks[c].token
    BY <1>8 DEF ResolveManual, VerifyDomainDns
  <2>3. UNCHANGED <<domain, zone, issued, round, verdict>>
    BY <1>8 DEF ResolveManual
  <2>4. /\ asks'[c] \in Checks /\ asks'[c].host = asks[c].host
        /\ asks'[c].token = asks[c].token /\ asks'[c].step = step
        /\ asks' \in [Catalogs -> {NoAsk} \cup Adds \cup Checks]
        /\ \A d \in Catalogs \ {c} : asks'[d] = asks[d]
    BY <2>1, <2>2 DEF Checks
  <2>5. step = "pass" => Held(asks[c].host)
    BY <2>1, <2>2 DEF Passes
  <2>6. Tokens'
    BY <2>1, <2>3, <2>4 DEF Tokens
  <2>7. Passes' /\ ActiveIsProven'
    BY <2>3, <2>4, <2>5 DEF Passes, ActiveIsProven, Held
  <2> QED BY <2>3, <2>4, <2>6, <2>7
<1>9. ASSUME NEW c \in Catalogs, RecordManual(c) PROVE DomainInv'
  <2> DEFINE status == IF asks[c].step = "pass" THEN "ACTIVE" ELSE "PENDING_DNS"
  <2>1. /\ asks[c].host \in Hosts /\ domain[asks[c].host].token > 0
        /\ status \in Statuses /\ (status = "ACTIVE" => Held(asks[c].host))
    BY <1>9 DEF RecordManual, NoAsk, Adds, Checks, Tokens, Passes, Statuses
  <2>2. SetDomain(asks[c].host, status) /\ UNCHANGED <<zone, issued, round, verdict>>
    BY <1>9 DEF RecordManual
  <2>3. asks' \in [Catalogs -> {NoAsk} \cup Adds \cup Checks]
        /\ \A d \in Catalogs : asks'[d] \in {asks[d], NoAsk}
    BY <1>9 DEF RecordManual, Answer
  <2> HIDE DEF status
  <2> QED BY <2>1, <2>2, <2>3, StatusStep, RowStep
<1>10. CASE ListPendingDns
  <2>0. PICK n \in 1..CheckLimit : \E rows \in [1..n -> PendingDns] :
            round' = [i \in 1..n |-> [host |-> rows[i], token |-> domain[rows[i]].token]]
    BY <1>10, ZenonT(60) DEF ListPendingDns
  <2>1. PICK rows \in [1..n -> PendingDns] :
            round' = [i \in 1..n |-> [host |-> rows[i], token |-> domain[rows[i]].token]]
    BY <2>0
  <2>2. round = <<>> /\ UNCHANGED <<domain, zone, issued, asks, verdict>>
    BY <1>10 DEF ListPendingDns
  <2>3. n \in Nat /\ \A i \in 1..n : rows[i] \in Hosts /\ domain[rows[i]].token > 0
    <3>1. n \in Nat
      BY <2>0
    <3>2. \A h \in PendingDns : h \in Hosts /\ domain[h].token > 0
      BY DEF PendingDns, Tokens
    <3>3. \A i \in 1..n : rows[i] \in PendingDns
      BY <2>1
    <3> QED BY <3>1, <3>2, <3>3
  <2>4. \A i \in 1..n : domain[rows[i]].token \in Nat
    BY <2>3 DEF Rows
  <2>5. round' \in Seq(Reads) /\ Len(round') = n
    <3>1. \A i \in 1..n : [host |-> rows[i], token |-> domain[rows[i]].token] \in Reads
      BY <2>3, <2>4 DEF Reads
    <3> QED BY <2>1, <2>3, <3>1
  <2>6. \A i \in 1..Len(round') : round'[i].token > 0 /\ domain[round'[i].host].token > 0
    BY <2>1, <2>3, <2>5
  <2>7. verdict = "none"
    BY <2>2 DEF Tokens
  <2>8. Tokens'
    BY <2>2, <2>6, <2>7 DEF Tokens
  <2> QED BY <2>2, <2>5, <2>7, <2>8 DEF Passes, Held, ActiveIsProven
<1>h. ASSUME round # <<>>
      PROVE  /\ Head(round) = round[1] /\ 1 \in 1..Len(round) /\ round[1] \in Reads
             /\ round[1].host \in Hosts /\ round[1].token > 0 /\ domain[round[1].host].token > 0
             /\ Tail(round) \in Seq(Reads)
             /\ \A i \in 1..Len(Tail(round)) : \E k \in 1..Len(round) : Tail(round)[i] = round[k]
  <2>1. Head(round) = round[1] /\ 1 \in 1..Len(round) /\ round[1] \in Reads
    BY <1>h
  <2>2. /\ Tail(round) \in Seq(Reads) /\ Len(Tail(round)) = Len(round) - 1
        /\ Len(round) \in Nat
        /\ \A i \in 1..Len(Tail(round)) : Tail(round)[i] = round[i + 1]
    BY <1>h
  <2>3. \A i \in 1..Len(Tail(round)) : i + 1 \in 1..Len(round)
    BY <2>2
  <2>4. \A i \in 1..Len(Tail(round)) : \E k \in 1..Len(round) : Tail(round)[i] = round[k]
    BY <2>2, <2>3
  <2> QED BY <2>1, <2>2, <2>4 DEF Tokens, Reads
<1>11. CASE ResolvePending
  <2>1. round # <<>> /\ UNCHANGED <<domain, zone, issued, asks, round>>
    BY <1>11 DEF ResolvePending
  <2>2. verdict' = "pass" => Held(round[1].host)
    BY <1>11, <2>1, <1>h DEF ResolvePending, VerifyDomainDns, Passes
  <2> QED BY <2>1, <2>2 DEF Tokens, Passes, Held, ActiveIsProven
<1>r. ASSUME NEW status \in Statuses, verdict # "none", RecordAs(Head(round).host, status),
             status = "ACTIVE" => Held(Head(round).host)
      PROVE  DomainInv'
  <2>1. round # <<>>
    BY <1>r DEF Tokens
  <2>2. /\ SetDomain(round[1].host, status) /\ UNCHANGED <<zone, issued, asks>>
        /\ round' = Tail(round) /\ verdict' = "none"
    BY <1>r, <1>h, <2>1 DEF RecordAs
  <2>3. status = "ACTIVE" => Held(round[1].host)
    BY <1>r, <1>h, <2>1
  <2> QED BY <1>h, <2>1, <2>2, <2>3, StatusStep, RowStep
<1>12. CASE RecordPending
  <2> DEFINE status == IF verdict = "pass" THEN "ACTIVE" ELSE "PENDING_DNS"
  <2>1. verdict # "none" /\ RecordAs(Head(round).host, status)
    BY <1>12 DEF RecordPending
  <2>2. status \in Statuses /\ (status = "ACTIVE" => Held(Head(round).host))
    BY <2>1, <1>h DEF Statuses, Passes, Tokens
  <2> HIDE DEF status
  <2> QED BY <1>r, <2>1, <2>2
<1>13. CASE RecordFails
  <2>1. CASE RecordAs(Head(round).host, "FAILED")
    BY <1>13, <1>r, <2>1 DEF RecordFails, Statuses
  <2>2. CASE ~RecordAs(Head(round).host, "FAILED")
    <3>1. round' = <<>> /\ verdict' = "none" /\ UNCHANGED <<domain, zone, issued, asks>>
      BY <1>13, <2>2 DEF RecordFails
    <3> QED BY <3>1 DEF Tokens, Passes, Held, ActiveIsProven
  <2> QED BY <2>1, <2>2
<1>15. ASSUME NEW c \in Catalogs, AskFails(c) PROVE DomainInv'
  <2>1. /\ UNCHANGED <<domain, zone, issued, round, verdict>>
        /\ asks' \in [Catalogs -> {NoAsk} \cup Adds \cup Checks]
        /\ \A d \in Catalogs : asks'[d] \in {asks[d], NoAsk}
    BY <1>15 DEF AskFails, Answer
  <2>2. RowsStay /\ ActiveIsProven'
    BY <2>1 DEF RowsStay, ActiveIsProven
  <2> QED BY <2>1, <2>2, RowStep DEF Tokens
<1>14. CASE UNCHANGED domainVars
    BY <1>14 DEF domainVars, Tokens, Passes, Held, ActiveIsProven
<1> QED
    BY <1>1, <1>2, <1>3, <1>4, <1>5, <1>6, <1>7, <1>8, <1>9, <1>10, <1>11, <1>12, <1>13, <1>14,
       <1>15
    DEF DomainNext

LEMMA DomainStarts == DomainInit => DomainInv
    BY DEF DomainInit, DomainInv, DomainShapes, Tokens, Passes, Held, ActiveIsProven, Absent,
           NoAsk, Rows, Statuses

(* checkCurrent, checkPendingDomains, disableCurrent and createCurrent:    *)
(* for any number of catalogs, hostnames and tokens, however their reads   *)
(* and updates interleave, a domain is ACTIVE only for the catalog of the  *)
(* one who holds its zone.                                                 *)
THEOREM ActiveDomainsProven == DomainSpec => []ActiveIsProven
<1> QED
    BY DomainStarts, DomainStep, PTL DEF DomainSpec, DomainInv

(* The shape of the rows, the requests and the queue of the cron job.      *)

LEMMA OthersType ==
    ASSUME NEW s \in Seq(Hosts), NEW h \in Hosts
    PROVE  Others(s, h) \in Seq(Hosts)
<1> DEFINE spots == {i \in DOMAIN s : s[i] = h}
           i == CHOOSE k \in spots : TRUE
<1>1. CASE spots = {}
    BY <1>1 DEF Others
<1>2. CASE spots # {}
  <2>1. i \in 1..Len(s)
    BY <1>2
  <2>2. i - 1 \in 0..Len(s) /\ i + 1 \in 1..Len(s) + 1 /\ Len(s) \in Nat
    BY <2>1
  <2>3. Others(s, h) = SubSeq(s, 1, i - 1) \o SubSeq(s, i + 1, Len(s))
    BY <1>2 DEF Others
  <2> HIDE DEF spots, i
  <2>4. SubSeq(s, 1, i - 1) \in Seq(Hosts) /\ SubSeq(s, i + 1, Len(s)) \in Seq(Hosts)
    BY <2>2
  <2> QED BY <2>3, <2>4
<1> QED BY <1>1, <1>2

FullRows == [catalog : Catalogs, status : {"PENDING_DNS", "ACTIVE", "FAILED", "DISABLED"},
             token : 1..MaxTokens]
FullChecks == [step : {"resolve", "pass", "fail"}, host : Hosts, token : 1..MaxTokens]

(* A request that updates its disabled row has one: rows stay.             *)
Readded == \A c \in Catalogs : asks[c].step = "readd" => domain[asks[c].host].catalog # "none"

DomainTypes == DomainTypeOK /\ Readded

LEMMA ReaddedStays ==
    ASSUME DomainTypes, DomainTypeOK',
           \A h \in Hosts : domain[h].catalog # "none" => domain'[h].catalog # "none",
           \A c \in Catalogs : \/ asks'[c] = asks[c] \/ asks'[c].step # "readd"
                              \/ domain'[asks'[c].host].catalog # "none"
    PROVE  DomainTypes'
<1>1. \A c \in Catalogs : asks[c].step = "readd" => asks[c].host \in Hosts
    BY DEF DomainTypes, DomainTypeOK, Asks, NoAsk
<1> QED BY <1>1 DEF DomainTypes, Readded

LEMMA DomainTypeStep == DomainInv /\ DomainTypes /\ [DomainNext]_domainVars => DomainTypeOK'
<1> SUFFICES ASSUME DomainInv, DomainTypes, [DomainNext]_domainVars
             PROVE  DomainTypeOK'
    OBVIOUS
<1> USE DEF DomainTypes, DomainTypeOK, cronState
<1>m. CheckLimit \in Nat /\ MaxTokens \in Nat /\ MaxDomainFaults \in Nat
    BY DomainAssumption
(* A row with a token is not Absent. *)
<1>d. \A h \in Hosts : domain[h] # Absent => domain[h] \in FullRows
    BY DEF Domains, FullRows
<1>k. \A h \in Hosts : domain[h].token > 0 => domain[h] \in FullRows
    BY <1>d DEF Absent
<1>s. ASSUME NEW h \in Hosts, domain[h] # Absent,
             NEW status \in {"PENDING_DNS", "ACTIVE", "FAILED", "DISABLED"}, SetDomain(h, status)
      PROVE  domain' \in [Hosts -> Domains]
  <2>1. PICK v \in FullRows : v = domain[h]
    BY <1>d, <1>s
  <2>2. [v EXCEPT !.status = status] \in FullRows
    BY DEF FullRows
  <2>3. domain' = [domain EXCEPT ![h] = [v EXCEPT !.status = status]]
    BY <1>s, <2>1 DEF SetDomain
  <2> QED BY <2>2, <2>3 DEF Domains, FullRows
<1>i. ASSUME NEW c \in Catalogs, asks[c].step \in {"insert", "readd"}
      PROVE  asks[c].host \in Hosts
    BY <1>i DEF Asks, NoAsk
<1>c. ASSUME NEW c \in Catalogs, asks[c].step \in {"resolve", "pass", "fail"}
      PROVE  asks[c] \in FullChecks /\ asks[c].host \in Hosts /\ domain[asks[c].host] # Absent
  <2>0. asks[c] \in Asks
    OBVIOUS
  <2>1. asks[c] \in FullChecks
    BY <1>c, <2>0 DEF Asks, NoAsk, FullChecks
  <2>2. domain[asks[c].host].token > 0
    BY <1>c DEF DomainInv, Tokens
  <2> QED BY <2>1, <2>2 DEF FullChecks, Absent
<1>a. ASSUME NEW c \in Catalogs, Answer(c) PROVE asks' \in [Catalogs -> Asks]
    BY <1>a DEF Answer, Asks
<1>1. ASSUME NEW h \in Hosts, PublishTxt(h) PROVE DomainTypeOK'
  <2>1. domain[h].catalog = HolderOf[h] /\ HolderOf[h] # "none"
    BY <1>1, DomainAssumption DEF PublishTxt
  <2>2. domain[h].token \in 0..MaxTokens
    BY <1>d, <1>m, <2>1 DEF Absent, FullRows
  <2> QED BY <1>1, <2>2 DEF PublishTxt
<1>2. ASSUME NEW h \in Hosts, RemoveTxt(h) PROVE DomainTypeOK'
    BY <1>2, <1>m DEF RemoveTxt
<1>3. ASSUME NEW c \in Catalogs, NEW h \in Hosts, FindHostname(c, h) PROVE DomainTypeOK'
  <2>1. PICK ask \in [step : {"insert", "readd"}, host : Hosts] : Pursue(c, ask)
    BY <1>3 DEF FindHostname
  <2>2. asks' \in [Catalogs -> Asks]
    BY <2>1 DEF Pursue, Asks
  <2> QED BY <1>3, <2>2 DEF FindHostname
<1>4. ASSUME NEW c \in Catalogs, NEW h \in Hosts, DisableDomain(c, h) PROVE DomainTypeOK'
  <2>1. domain[h] # Absent
    BY <1>4, DomainAssumption DEF DisableDomain, Absent
  <2> QED BY <1>4, <2>1, <1>s DEF DisableDomain
<1>5. ASSUME NEW c \in Catalogs, NEW h \in Hosts, RequireDomain(c, h) PROVE DomainTypeOK'
  <2>1. domain[h] # Absent
    BY <1>5, DomainAssumption DEF RequireDomain, Absent
  <2>2. domain[h].token \in 1..MaxTokens
    BY <1>d, <2>1 DEF FullRows
  <2> DEFINE ask == [step |-> "resolve", host |-> h, token |-> domain[h].token]
  <2>3. ask \in Asks
    BY <2>2 DEF Asks
  <2>4. asks' = [asks EXCEPT ![c] = ask]
    BY <1>5 DEF RequireDomain, Pursue
  <2> HIDE DEF ask
  <2> QED BY <1>5, <2>3, <2>4 DEF RequireDomain
<1>6. ASSUME NEW c \in Catalogs, InsertDomain(c) PROVE DomainTypeOK'
  <2> DEFINE h == asks[c].host
  <2>1. h \in Hosts /\ asks' \in [Catalogs -> Asks] /\ UNCHANGED <<checked, zone, cronState>>
    BY <1>6, <1>i, <1>a DEF InsertDomain
  <2>2. CASE domain[h] = Absent
    <3> DEFINE new == [catalog |-> c, status |-> "PENDING_DNS", token |-> issued + 1]
    <3>1. domain' = [domain EXCEPT ![h] = new] /\ issued' = issued + 1 /\ issued < MaxTokens
          /\ created' = Append(created, h)
      BY <1>6, <2>2 DEF InsertDomain
    <3>2. issued + 1 \in 1..MaxTokens /\ issued + 1 \in 0..MaxTokens
      BY <1>m, <3>1
    <3>3. new \in Domains
      BY <3>2 DEF Domains
    <3> HIDE DEF new, h
    <3>4. domain' \in [Hosts -> Domains] /\ created' \in Seq(Hosts)
      BY <2>1, <3>1, <3>3
    <3> QED BY <2>1, <3>1, <3>2, <3>4
  <2>3. CASE domain[h] # Absent
    BY <1>6, <2>1, <2>3 DEF InsertDomain
  <2> QED BY <2>2, <2>3
<1>7. ASSUME NEW c \in Catalogs, ReaddDomain(c) PROVE DomainTypeOK'
  <2> DEFINE h == asks[c].host
  <2>1. h \in Hosts /\ asks' \in [Catalogs -> Asks] /\ UNCHANGED <<created, zone, cronState>>
    BY <1>7, <1>i, <1>a DEF ReaddDomain
  <2>2. /\ issued < MaxTokens /\ issued' = issued + 1 /\ checked' = Others(checked, h)
        /\ domain' = [domain EXCEPT ![h].status = "PENDING_DNS", ![h].token = issued + 1]
    BY <1>7 DEF ReaddDomain
  <2>3. issued + 1 \in 1..MaxTokens /\ issued + 1 \in 0..MaxTokens
    BY <1>m, <2>2
  <2>4. domain[h] # Absent
    BY <1>7 DEF ReaddDomain, Readded, Absent
  <2>5. PICK v \in FullRows : v = domain[h]
    BY <1>d, <2>1, <2>4
  <2>6. [v EXCEPT !.status = "PENDING_DNS", !.token = issued + 1] \in FullRows
    BY <2>3 DEF FullRows
  <2>7. domain' = [domain EXCEPT ![h] = [v EXCEPT !.status = "PENDING_DNS", !.token = issued + 1]]
    BY <2>1, <2>2, <2>5
  <2>8. domain' \in [Hosts -> Domains]
    BY <2>1, <2>6, <2>7 DEF Domains, FullRows
  <2>9. checked' \in Seq(Hosts)
    BY <2>1, <2>2, OthersType
  <2> QED BY <2>1, <2>2, <2>3, <2>8, <2>9
<1>8. ASSUME NEW c \in Catalogs, ResolveManual(c) PROVE DomainTypeOK'
  <2>1. PICK v \in FullChecks : v = asks[c]
    BY <1>8, <1>c DEF ResolveManual
  <2>2. PICK step \in {"pass", "fail"} : asks' = [asks EXCEPT ![c] = [v EXCEPT !.step = step]]
    BY <1>8, <2>1 DEF ResolveManual
  <2>3. [v EXCEPT !.step = step] \in Asks
    BY DEF FullChecks, Asks
  <2> QED BY <1>8, <2>2, <2>3 DEF ResolveManual
<1>9. ASSUME NEW c \in Catalogs, RecordManual(c) PROVE DomainTypeOK'
  <2> DEFINE h == asks[c].host
             status == IF asks[c].step = "pass" THEN "ACTIVE" ELSE "PENDING_DNS"
  <2>1. h \in Hosts /\ domain[h] # Absent /\ asks' \in [Catalogs -> Asks]
    BY <1>9, <1>c, <1>a DEF RecordManual
  <2>2. /\ SetDomain(h, status) /\ checked' = Append(Others(checked, h), h)
        /\ UNCHANGED <<created, zone, issued, cronState>>
    BY <1>9 DEF RecordManual
  <2>3. status \in {"PENDING_DNS", "ACTIVE", "FAILED", "DISABLED"}
    OBVIOUS
  <2> HIDE DEF h, status
  <2>4. checked' \in Seq(Hosts)
    BY <2>1, <2>2, OthersType
  <2> QED BY <2>1, <2>2, <2>3, <2>4, <1>s
<1>10. CASE ListPendingDns
  <2>1. PICK n \in 1..CheckLimit : \E rows \in [1..n -> PendingDns] :
            round' = [i \in 1..n |-> [host |-> rows[i], token |-> domain[rows[i]].token]]
    BY <1>10 DEF ListPendingDns
  <2>2. PICK rows \in [1..n -> PendingDns] :
            round' = [i \in 1..n |-> [host |-> rows[i], token |-> domain[rows[i]].token]]
    BY <2>1
  <2>3. \A h \in PendingDns : h \in Hosts /\ domain[h].token \in 1..MaxTokens
    BY <1>d DEF PendingDns, Absent, FullRows
  <2>4. \A i \in 1..n : [host |-> rows[i], token |-> domain[rows[i]].token] \in Snapshots
    BY <2>2, <2>3 DEF Snapshots
  <2>5. round' \in Seq(Snapshots)
    BY <1>m, <2>1, <2>2, <2>4
  <2> QED BY <1>10, <2>5 DEF ListPendingDns
<1>11. CASE ResolvePending
    BY <1>11 DEF ResolvePending
<1>h. ASSUME verdict # "none"
      PROVE  /\ Head(round).host \in Hosts /\ domain[Head(round).host] # Absent
             /\ Tail(round) \in Seq(Snapshots)
  <2>1. round # <<>>
    BY <1>h DEF DomainInv, Tokens
  <2>2. 1 \in 1..Len(round) /\ Head(round) = round[1] /\ round[1] \in Snapshots
        /\ Tail(round) \in Seq(Snapshots)
    BY <2>1
  <2>3. domain[round[1].host].token > 0
    BY <2>2 DEF DomainInv, Tokens
  <2> QED BY <2>2, <2>3 DEF Snapshots, Absent
<1>r. ASSUME verdict # "none", NEW status \in {"PENDING_DNS", "ACTIVE", "FAILED", "DISABLED"},
             RecordAs(Head(round).host, status), domainBudget' \in 0..MaxDomainFaults
      PROVE  DomainTypeOK'
  <2> DEFINE h == Head(round).host
  <2>1. h \in Hosts /\ domain[h] # Absent /\ Tail(round) \in Seq(Snapshots)
    BY <1>r, <1>h
  <2>2. /\ SetDomain(h, status) /\ checked' = Append(Others(checked, h), h)
        /\ round' = Tail(round) /\ verdict' = "none" /\ UNCHANGED <<created, zone, issued, asks>>
    BY <1>r DEF RecordAs
  <2> HIDE DEF h
  <2>3. checked' \in Seq(Hosts)
    BY <2>1, <2>2, OthersType
  <2>4. domain' \in [Hosts -> Domains]
    BY <2>1, <2>2, <1>s
  <2> QED BY <1>r, <2>1, <2>2, <2>3, <2>4
<1>12. CASE RecordPending
    BY <1>12, <1>r DEF RecordPending
<1>13. CASE RecordFails
  <2>1. verdict # "none" /\ domainBudget' \in 0..MaxDomainFaults
    BY <1>13, <1>m DEF RecordFails
  <2>2. CASE RecordAs(Head(round).host, "FAILED")
    BY <2>1, <2>2, <1>r
  <2>3. CASE ~RecordAs(Head(round).host, "FAILED")
    <3>1. round' = <<>> /\ verdict' = "none"
          /\ UNCHANGED <<domain, created, checked, zone, issued, asks>>
      BY <1>13, <2>3 DEF RecordFails
    <3> QED BY <2>1, <3>1
  <2> QED BY <2>2, <2>3
<1>15. ASSUME NEW c \in Catalogs, AskFails(c) PROVE DomainTypeOK'
  <2>1. asks' \in [Catalogs -> Asks]
    BY <1>15 DEF AskFails, Answer, Asks
  <2> QED BY <1>15, <2>1 DEF AskFails
<1>14. CASE UNCHANGED domainVars
    BY <1>14 DEF domainVars
<1> QED
    BY <1>1, <1>2, <1>3, <1>4, <1>5, <1>6, <1>7, <1>8, <1>9, <1>10, <1>11, <1>12, <1>13, <1>14,
       <1>15
    DEF DomainNext

LEMMA DomainTypesStep == DomainInv /\ DomainTypes /\ [DomainNext]_domainVars => DomainTypes'
<1> SUFFICES ASSUME DomainInv, DomainTypes, [DomainNext]_domainVars
             PROVE  DomainTypes'
    OBVIOUS
<1>t. DomainTypeOK'
    BY DomainTypeStep
<1>f. domain \in [Hosts -> Domains] /\ asks \in [Catalogs -> Asks]
    BY DEF DomainTypes, DomainTypeOK
(* A step that writes a status leaves the catalogs of the rows. *)
<1>s. ASSUME NEW h, NEW status, SetDomain(h, status)
      PROVE  \A g \in Hosts : domain[g].catalog # "none" => domain'[g].catalog # "none"
    BY <1>s, <1>f DEF SetDomain, Domains, Absent
<1>a. ASSUME NEW c \in Catalogs, Answer(c)
      PROVE  \A d \in Catalogs : asks'[d] = asks[d] \/ asks'[d].step # "readd"
    BY <1>a, <1>f DEF Answer, NoAsk
<1> USE ReaddedStays, <1>t
<1>1. ASSUME NEW h \in Hosts, PublishTxt(h) \/ RemoveTxt(h) PROVE DomainTypes'
    BY <1>1 DEF PublishTxt, RemoveTxt
<1>2. ASSUME NEW c \in Catalogs, NEW h \in Hosts, FindHostname(c, h) PROVE DomainTypes'
  <2>1. UNCHANGED domain
    BY <1>2 DEF FindHostname
  <2>2. \A d \in Catalogs : d # c => asks'[d] = asks[d]
    BY <1>2, <1>f DEF FindHostname, Pursue
  <2>3. \/ asks'[c].step = "insert"
        \/ asks'[c].host = h /\ domain[h].catalog = c
    BY <1>2, <1>f DEF FindHostname, Pursue
  <2>4. c # "none"
    BY DomainAssumption
  <2> QED BY <2>1, <2>2, <2>3, <2>4
<1>3. ASSUME NEW c \in Catalogs, NEW h \in Hosts, DisableDomain(c, h) PROVE DomainTypes'
    BY <1>3, <1>s DEF DisableDomain
<1>4. ASSUME NEW c \in Catalogs, NEW h \in Hosts, RequireDomain(c, h) PROVE DomainTypes'
  <2>1. UNCHANGED domain /\ \A d \in Catalogs : asks'[d] = asks[d] \/ asks'[d].step = "resolve"
    BY <1>4, <1>f DEF RequireDomain, Pursue
  <2> QED BY <2>1
<1>5. ASSUME NEW c \in Catalogs, InsertDomain(c) PROVE DomainTypes'
  <2>1. \A d \in Catalogs : asks'[d] = asks[d] \/ asks'[d].step # "readd"
    BY <1>5, <1>a DEF InsertDomain
  <2>2. CASE UNCHANGED domain
    BY <2>1, <2>2
  <2>3. CASE domain' = [domain EXCEPT ![asks[c].host] = [catalog |-> c, status |-> "PENDING_DNS",
                                                         token |-> issued + 1]]
    <3>1. c # "none"
      BY DomainAssumption
    <3>2. \A g \in Hosts : domain'[g].catalog \in {domain[g].catalog, c}
      BY <1>f, <2>3
    <3> QED BY <2>1, <3>1, <3>2
  <2> QED BY <1>5, <2>2, <2>3 DEF InsertDomain
<1>6. ASSUME NEW c \in Catalogs, ReaddDomain(c) PROVE DomainTypes'
  <2>1. \A d \in Catalogs : asks'[d] = asks[d] \/ asks'[d].step # "readd"
    BY <1>6, <1>a DEF ReaddDomain
  <2>2. \A g \in Hosts : domain'[g].catalog = domain[g].catalog
    BY <1>6, <1>f DEF ReaddDomain, Domains, Absent
  <2> QED BY <2>1, <2>2
<1>7. ASSUME NEW c \in Catalogs, ResolveManual(c) PROVE DomainTypes'
  <2>1. asks[c].step = "resolve" /\ asks[c] \in Asks
    BY <1>7, <1>f DEF ResolveManual
  <2>2. asks[c] \in FullChecks
    BY <2>1 DEF Asks, NoAsk, FullChecks
  <2>3. \A d \in Catalogs : asks'[d] = asks[d] \/ asks'[d].step # "readd"
    BY <1>7, <1>f, <2>2 DEF ResolveManual, FullChecks
  <2> QED BY <1>7, <2>3 DEF ResolveManual
<1>8. ASSUME NEW c \in Catalogs, RecordManual(c) PROVE DomainTypes'
    BY <1>8, <1>s, <1>a DEF RecordManual
<1>9. CASE ListPendingDns
    BY <1>9 DEF ListPendingDns
<1>10. CASE ResolvePending
    BY <1>10 DEF ResolvePending
<1>11. CASE RecordPending \/ RecordFails
  <2>1. CASE UNCHANGED <<domain, asks>>
    BY <2>1
  <2>2. CASE ~UNCHANGED <<domain, asks>>
    <3>1. PICK h, status : SetDomain(h, status) /\ UNCHANGED asks
      BY <1>11, <2>2 DEF RecordPending, RecordFails, RecordAs
    <3> QED BY <3>1, <1>s
  <2> QED BY <2>1, <2>2
<1>12. CASE UNCHANGED domainVars
    BY <1>12 DEF domainVars
<1>13. ASSUME NEW c \in Catalogs, AskFails(c) PROVE DomainTypes'
    BY <1>13, <1>a DEF AskFails
<1> QED
    BY <1>1, <1>2, <1>3, <1>4, <1>5, <1>6, <1>7, <1>8, <1>9, <1>10, <1>11, <1>12, <1>13
    DEF DomainNext

LEMMA DomainTypesStart == DomainInit => DomainTypes
<1>1. 0 \in 0..MaxTokens /\ MaxDomainFaults \in 0..MaxDomainFaults
    BY DomainAssumption
<1>2. Absent \in Domains /\ NoAsk \in Asks /\ NoAsk.step # "readd"
    BY DEF Domains, Asks, NoAsk
<1> QED BY <1>1, <1>2 DEF DomainInit, DomainTypes, DomainTypeOK, Readded

-----------------------------------------------------------------------------
(* MediaUploads.  A job that is past the last variant of an item has put   *)
(* all of them, and variants are never taken away, so the raw object can   *)
(* go, and the job be started again, at any moment.                        *)

Active == {"download", "put", "drop", "record"}
Jobs == [items : Seq(Keys), done : Nat, step : Active \cup {"none", "over"}, put : Nat, tries : Nat]

(* What is true of a job u: it has an item to do, and what it has put of it *)
(* is there.                                                               *)
Sound(u) ==
    /\ u.step \in Active => u.done < Len(u.items)
    /\ u.step = "download" => u.put = 0
    /\ u.step = "put" => u.put < Variants /\ rendered[u.items[u.done + 1]] >= u.put
    /\ u.step \in {"drop", "record"} => rendered[u.items[u.done + 1]] = Variants

MediaShapes ==
    /\ media \in [Keys -> {"none", "UPLOADED", "PROCESSING", "READY", "FAILED"}]
    /\ rendered \in [Keys -> 0..Variants]
    /\ upload \in [Uploads -> Jobs]
    /\ enqueuing \in [step : {"idle", "head", "mark", "add"}, items : Seq(Keys)]
    /\ enqueuing.step # "idle" => Len(enqueuing.items) > 0

MediaInv == MediaShapes /\ MediaKept /\ \A j \in Uploads : Sound(upload[j])

(* The ways a job changes.                                                 *)
Stepped(u, to) == [u EXCEPT !.step = to]
WithPut(u, n, to) == [u EXCEPT !.put = n, !.step = to]
WithDone(u, n, to) == [u EXCEPT !.done = n, !.put = 0, !.step = to]
Restarted(u, n) == [u EXCEPT !.done = 0, !.put = 0, !.step = "download", !.tries = n]

LEMMA JobSteps ==
    ASSUME NEW u \in Jobs, NEW to \in Active \cup {"over"}
    PROVE  /\ Stepped(u, to) \in Jobs /\ Stepped(u, to).step = to
           /\ Stepped(u, to).items = u.items /\ Stepped(u, to).done = u.done
           /\ Stepped(u, to).put = u.put
    BY DEF Jobs, Stepped, Active

LEMMA JobPuts ==
    ASSUME NEW u \in Jobs, NEW n \in Nat, NEW to \in Active
    PROVE  /\ WithPut(u, n, to) \in Jobs /\ WithPut(u, n, to).step = to
           /\ WithPut(u, n, to).items = u.items /\ WithPut(u, n, to).done = u.done
           /\ WithPut(u, n, to).put = n
    BY DEF Jobs, WithPut, Active

LEMMA JobGoesOn ==
    ASSUME NEW u \in Jobs, NEW n \in Nat, NEW to \in Active \cup {"over"}
    PROVE  /\ WithDone(u, n, to) \in Jobs /\ WithDone(u, n, to).step = to
           /\ WithDone(u, n, to).items = u.items /\ WithDone(u, n, to).done = n
           /\ WithDone(u, n, to).put = 0
    BY DEF Jobs, WithDone, Active

LEMMA JobRestarts ==
    ASSUME NEW u \in Jobs, NEW n \in Nat
    PROVE  /\ Restarted(u, n) \in Jobs /\ Restarted(u, n).step = "download"
           /\ Restarted(u, n).items = u.items /\ Restarted(u, n).done = 0
           /\ Restarted(u, n).put = 0
    BY DEF Jobs, Restarted, Active

(* More variants leave every job sound.                                    *)
LEMMA SoundStays ==
    ASSUME MediaShapes, rendered' \in [Keys -> 0..Variants],
           \A k \in Keys : rendered'[k] >= rendered[k],
           NEW u \in Jobs, Sound(u)
    PROVE  Sound(u)'
<1>1. u.step \in Active => u.items[u.done + 1] \in Keys
    BY DEF Sound, Jobs
<1>2. Variants \in Nat /\ \A k \in Keys : rendered[k] \in 0..Variants /\ rendered'[k] \in 0..Variants
    BY MediaAssumption DEF MediaShapes
<1>3. u.step = "put" => rendered'[u.items[u.done + 1]] >= u.put
    BY <1>1, <1>2 DEF Sound, Active, Jobs
<1>4. u.step \in {"drop", "record"} => rendered'[u.items[u.done + 1]] = Variants
    BY <1>1, <1>2 DEF Sound, Active
<1> QED BY <1>3, <1>4 DEF Sound

(* A step of one job. *)
LEMMA JobStepKeeps ==
    ASSUME MediaInv, rendered' \in [Keys -> 0..Variants],
           \A k \in Keys : rendered'[k] >= rendered[k],
           NEW j \in Uploads, NEW u \in Jobs, upload' = [upload EXCEPT ![j] = u], Sound(u)'
    PROVE  upload' \in [Uploads -> Jobs] /\ \A i \in Uploads : Sound(upload[i])'
<1>1. upload' \in [Uploads -> Jobs] /\ \A i \in Uploads : upload'[i] = IF i = j THEN u ELSE upload[i]
    BY DEF MediaInv, MediaShapes
<1>2. \A i \in Uploads : Sound(upload[i]) /\ upload[i] \in Jobs
    BY DEF MediaInv, MediaShapes
<1>3. ASSUME NEW i \in Uploads PROVE Sound(upload[i])'
  <2>1. CASE i = j
    BY <1>1, <2>1 DEF Sound
  <2>2. CASE i # j
    <3>1. upload'[i] = upload[i]
      BY <1>1, <2>2
    <3> QED BY <1>2, <3>1, SoundStays DEF MediaInv, Sound
  <2> QED BY <2>1, <2>2
<1> QED BY <1>1, <1>3

LEMMA MediaStep == MediaInv /\ [MediaNext]_mediaVars => MediaInv'
<1> SUFFICES ASSUME MediaInv, [MediaNext]_mediaVars
             PROVE  MediaInv'
    OBVIOUS
<1>v. Variants \in Nat /\ Variants > 0 /\ \A k \in Keys : rendered[k] \in 0..Variants
    BY MediaAssumption DEF MediaInv, MediaShapes
<1>g. \A k \in Keys : rendered[k] >= rendered[k]
    BY <1>v
(* Steps outside of the jobs. *)
<1>o. ASSUME UNCHANGED <<upload, rendered>>
      PROVE  upload' \in [Uploads -> Jobs] /\ \A j \in Uploads : Sound(upload[j])'
    BY <1>o DEF MediaInv, MediaShapes, Sound
<1> USE DEF MediaInv, MediaShapes, MediaKept, bucket
<1>1. ASSUME NEW k \in Keys, CreatePresignRecord(k) PROVE MediaInv'
    BY <1>1, <1>o DEF CreatePresignRecord
<1>2. ASSUME NEW k \in Keys, PutRaw(k) PROVE MediaInv'
    BY <1>2, <1>o DEF PutRaw
<1>3. ASSUME NEW k \in Keys, AbortMultipartUpload(k) PROVE MediaInv'
    BY <1>3, <1>o DEF AbortMultipartUpload
<1>4. ASSUME NEW items \in ItemLists, EnqueueFromS3(items) PROVE MediaInv'
  <2>1. items \in Seq(Keys) /\ Len(items) > 0
    <3>1. CASE \E k \in Keys : items = <<k>>
      BY <3>1
    <3>2. CASE \E k, l \in Keys : items = <<k, l>>
      BY <3>2
    <3> QED BY <3>1, <3>2 DEF ItemLists
  <2> QED BY <1>4, <1>o, <2>1 DEF EnqueueFromS3
<1>5. CASE LoadHeads
  <2>1. \/ enqueuing.step = "head" /\ enqueuing' = [enqueuing EXCEPT !.step = "mark"]
        \/ enqueuing' = NoRequest
    BY <1>5 DEF LoadHeads, Enqueues
  <2>2. /\ enqueuing' \in [step : {"idle", "head", "mark", "add"}, items : Seq(Keys)]
        /\ enqueuing'.step # "idle" => Len(enqueuing'.items) > 0
    <3>1. CASE enqueuing' = NoRequest
      BY <3>1 DEF NoRequest
    <3>2. CASE enqueuing.step = "head" /\ enqueuing' = [enqueuing EXCEPT !.step = "mark"]
      <4>1. Len(enqueuing.items) > 0 /\ enqueuing'.items = enqueuing.items
        BY <3>2
      <4>2. enqueuing' \in [step : {"idle", "head", "mark", "add"}, items : Seq(Keys)]
        BY <3>2
      <4> QED BY <4>1, <4>2
    <3> QED BY <2>1, <3>1, <3>2
  <2>3. UNCHANGED <<media, arrived, raw, rendered, upload>>
    BY <1>5 DEF LoadHeads
  <2> QED BY <1>o, <2>2, <2>3
<1>6. CASE MarkMediaAsProcessing
    BY <1>6, <1>o DEF MarkMediaAsProcessing, Enqueues
<1>7. CASE EnqueueLost
    BY <1>7, <1>o DEF EnqueueLost, NoRequest
(* Steps of a job. *)
<1>8. ASSUME NEW j \in Uploads, AddUpload(j) PROVE MediaInv'
  <2>1. enqueuing.items \in Seq(Keys) /\ Len(enqueuing.items) > 0
    BY <1>8 DEF AddUpload
  <2>2. PICK items \in Seq(Keys) : items = enqueuing.items /\ Len(items) > 0
    BY <2>1
  <2> DEFINE u == [items |-> items, done |-> 0, step |-> "download", put |-> 0, tries |-> 1]
  <2>3. u \in Jobs
    BY DEF Jobs, Active
  <2>4. upload' = [upload EXCEPT ![j] = u]
    BY <1>8, <2>2 DEF AddUpload
  <2>5. Sound(u)'
    BY <2>2 DEF Sound, Active
  <2> HIDE DEF u
  <2>6. UNCHANGED <<media, arrived, raw, rendered>> /\ enqueuing' = NoRequest
    BY <1>8 DEF AddUpload
  <2>7. upload' \in [Uploads -> Jobs] /\ \A i \in Uploads : Sound(upload[i])'
    BY <1>g, <1>v, <2>3, <2>4, <2>5, <2>6, JobStepKeeps
  <2> QED BY <2>6, <2>7 DEF NoRequest
<1>t. ASSUME NEW j \in Uploads, upload[j].step \in Active, RetryUpload(j), UNCHANGED rendered
      PROVE  upload' \in [Uploads -> Jobs] /\ \A i \in Uploads : Sound(upload[i])'
  <2>1. PICK v \in Jobs : v = upload[j]
    OBVIOUS
  <2>2. Sound(v) /\ v.step \in Active
    BY <1>t, <2>1
  <2>3. Len(v.items) > 0 /\ v.tries + 1 \in Nat
    BY <2>2 DEF Sound, Jobs
  <2>4. CASE v.tries < MaxUploadTries
    <3>1. upload' = [upload EXCEPT ![j] = Restarted(v, v.tries + 1)]
      BY <1>t, <2>1, <2>4 DEF RetryUpload, Restarted
    <3>2. Sound(Restarted(v, v.tries + 1))' /\ Restarted(v, v.tries + 1) \in Jobs
      BY <2>3, JobRestarts DEF Sound, Active
    <3> QED BY <1>t, <1>g, <1>v, <3>1, <3>2, JobStepKeeps
  <2>5. CASE ~(v.tries < MaxUploadTries)
    <3>1. upload' = [upload EXCEPT ![j] = Stepped(v, "over")]
      BY <1>t, <2>1, <2>5 DEF RetryUpload, Stepped
    <3>2. Sound(Stepped(v, "over"))' /\ Stepped(v, "over") \in Jobs
      BY <2>3, JobSteps DEF Sound, Active
    <3> QED BY <1>t, <1>g, <1>v, <3>1, <3>2, JobStepKeeps
  <2> QED BY <2>4, <2>5
<1>k. ASSUME NEW j \in Uploads, upload[j].step \in Active
      PROVE  Item(j) \in Keys /\ upload[j].done + 1 \in Nat
    BY <1>k DEF Item, Sound, Jobs
<1>9. ASSUME NEW j \in Uploads, DownloadRaw(j) PROVE MediaInv'
  <2>1. upload[j].step = "download" /\ UNCHANGED <<media, arrived, raw, rendered, enqueuing>>
    BY <1>9 DEF DownloadRaw
  <2>2. CASE RetryUpload(j)
    BY <1>t, <2>1, <2>2 DEF Active
  <2>3. CASE ~RetryUpload(j)
    <3>1. PICK v \in Jobs : v = upload[j]
      OBVIOUS
    <3>2. upload' = [upload EXCEPT ![j] = Stepped(v, "put")]
      BY <1>9, <2>3, <3>1 DEF DownloadRaw, Advance, Stepped
    <3>3. Sound(v) /\ v.step = "download"
      BY <2>1, <3>1
    <3>4. v.items[v.done + 1] \in Keys
      BY <3>3 DEF Sound, Jobs, Active
    <3>5. rendered'[v.items[v.done + 1]] >= 0
      BY <1>v, <2>1, <3>4
    <3>6. Sound(Stepped(v, "put"))' /\ Stepped(v, "put") \in Jobs
      BY <1>v, <3>3, <3>5, JobSteps DEF Sound, Active
    <3>7. upload' \in [Uploads -> Jobs] /\ \A i \in Uploads : Sound(upload[i])'
      BY <1>g, <1>v, <2>1, <3>2, <3>6, JobStepKeeps
    <3> QED BY <2>1, <3>7
  <2> QED BY <2>2, <2>3
<1>10. ASSUME NEW j \in Uploads, PutVariant(j) PROVE MediaInv'
  <2>1. PICK v \in Jobs : v = upload[j]
    OBVIOUS
  <2>2. Sound(v) /\ v.step = "put" /\ v.put + 1 \in Nat /\ v.put + 1 <= Variants
    <3>1. Sound(v) /\ v.step = "put"
      BY <1>10, <2>1 DEF PutVariant
    <3>2. v.put \in Nat
      BY DEF Jobs
    <3>3. v.put < Variants
      BY <3>1 DEF Sound
    <3> QED BY <1>v, <3>1, <3>2, <3>3
  <2>3. PICK k \in Keys : k = Item(j) /\ k = v.items[v.done + 1]
    BY <1>k, <2>1, <2>2 DEF Item, Active
  <2>4. PICK to \in {"drop", "put"} :
            /\ upload' = [upload EXCEPT ![j] = WithPut(v, v.put + 1, to)]
            /\ to = "drop" <=> v.put + 1 = Variants
    BY <1>10, <2>1 DEF PutVariant, WithPut
  <2>5. /\ rendered' = [rendered EXCEPT ![k] = IF @ < v.put + 1 THEN v.put + 1 ELSE @]
        /\ UNCHANGED <<media, arrived, raw, enqueuing>>
    BY <1>10, <2>1, <2>3 DEF PutVariant
  <2>6. /\ rendered' \in [Keys -> 0..Variants] /\ rendered'[k] >= v.put + 1
        /\ \A l \in Keys : rendered'[l] >= rendered[l]
    BY <1>v, <2>2, <2>5
  <2>7. to = "drop" => rendered'[k] = Variants
    BY <1>v, <2>2, <2>4, <2>6
  <2>8. to = "put" => v.put + 1 < Variants
    BY <1>v, <2>2, <2>4
  <2>9. Sound(WithPut(v, v.put + 1, to))' /\ WithPut(v, v.put + 1, to) \in Jobs
    <3> DEFINE w == WithPut(v, v.put + 1, to)
    <3>1. /\ w \in Jobs /\ w.step = to /\ w.items = v.items /\ w.done = v.done
          /\ w.put = v.put + 1
      <4>1. to \in Active
        BY DEF Active
      <4> QED BY <2>2, <4>1, JobPuts
    <3>2. w.done < Len(w.items)
      BY <2>2, <3>1 DEF Sound, Active
    <3>3. w.items[w.done + 1] = k
      BY <2>3, <3>1
    <3> HIDE DEF w
    <3>4. Sound(w)'
      BY <2>6, <2>7, <2>8, <3>1, <3>2, <3>3 DEF Sound, Active
    <3> QED BY <3>1, <3>4 DEF w
  <2>10. upload' \in [Uploads -> Jobs] /\ \A i \in Uploads : Sound(upload[i])'
    BY <2>4, <2>6, <2>9, JobStepKeeps
  <2>11. MediaKept'
    BY <1>v, <2>5, <2>6
  <2> QED BY <2>5, <2>6, <2>10, <2>11
<1>11. ASSUME NEW j \in Uploads, DropRaw(j) PROVE MediaInv'
  <2>1. PICK v \in Jobs : v = upload[j]
    OBVIOUS
  <2>2. Sound(v) /\ v.step = "drop" /\ upload' = [upload EXCEPT ![j] = Stepped(v, "record")]
        /\ UNCHANGED <<media, arrived, rendered, enqueuing>>
    BY <1>11, <2>1 DEF DropRaw, Advance, Stepped
  <2>3. Item(j) \in Keys /\ rendered[Item(j)] = Variants
    BY <1>k, <2>1, <2>2 DEF Item, Sound, Active
  <2>4. raw' = raw \/ raw' = raw \ {Item(j)}
    BY <1>11 DEF DropRaw
  <2>5. Sound(Stepped(v, "record"))' /\ Stepped(v, "record") \in Jobs
    BY <2>2, JobSteps DEF Sound, Active
  <2>6. upload' \in [Uploads -> Jobs] /\ \A i \in Uploads : Sound(upload[i])'
    BY <1>g, <1>v, <2>2, <2>5, JobStepKeeps
  <2> QED BY <2>2, <2>3, <2>4, <2>6
<1>12. ASSUME NEW j \in Uploads, CreateMediaRecord(j) PROVE MediaInv'
  <2>1. PICK v \in Jobs : v = upload[j]
    OBVIOUS
  <2>2. Sound(v) /\ v.step = "record" /\ v.done + 1 \in Nat /\ v.done < Len(v.items)
        /\ UNCHANGED <<arrived, raw, rendered, enqueuing>>
    BY <1>12, <2>1 DEF CreateMediaRecord, Sound, Jobs, Active
  <2>3. Item(j) \in Keys /\ rendered[Item(j)] = Variants
    BY <1>k, <2>1, <2>2 DEF Item, Sound, Active
  <2>4. media' = [media EXCEPT ![Item(j)] = "READY"]
    BY <1>12 DEF CreateMediaRecord
  <2>5. PICK to \in {"over", "download"} :
            /\ upload' = [upload EXCEPT ![j] = WithDone(v, v.done + 1, to)]
            /\ to = "over" <=> v.done + 1 = Len(v.items)
    BY <1>12, <2>1 DEF CreateMediaRecord, WithDone
  <2>6. to = "download" => v.done + 1 < Len(v.items)
    BY <2>2, <2>5 DEF Jobs
  <2>7. Sound(WithDone(v, v.done + 1, to))' /\ WithDone(v, v.done + 1, to) \in Jobs
    <3> DEFINE w == WithDone(v, v.done + 1, to)
    <3>1. /\ w \in Jobs /\ w.step = to /\ w.items = v.items /\ w.done = v.done + 1
          /\ w.put = 0
      <4>1. to \in Active \cup {"over"}
        BY DEF Active
      <4>2. PICK n \in Nat : n = v.done + 1
        BY <2>2
      <4>3. w = WithDone(v, n, to)
        BY <4>2
      <4> HIDE DEF w
      <4> QED BY <4>1, <4>2, <4>3, JobGoesOn
    <3> HIDE DEF w
    <3>2. Sound(w)'
      BY <2>6, <3>1 DEF Sound, Active
    <3> QED BY <3>1, <3>2 DEF w
  <2>8. upload' \in [Uploads -> Jobs] /\ \A i \in Uploads : Sound(upload[i])'
    BY <1>g, <1>v, <2>2, <2>5, <2>7, JobStepKeeps
  <2> QED BY <2>2, <2>3, <2>4, <2>8
<1>13. ASSUME NEW j \in Uploads, UploadFails(j) PROVE MediaInv'
    BY <1>13, <1>t DEF UploadFails, Active
<1>14. ASSUME NEW j \in Uploads, ForgetUpload(j) PROVE MediaInv'
  <2>1. upload' = [upload EXCEPT ![j] = NoUpload]
        /\ UNCHANGED <<media, arrived, raw, rendered, enqueuing>>
    BY <1>14 DEF ForgetUpload
  <2>2. NoUpload \in Jobs /\ Sound(NoUpload)'
    BY DEF NoUpload, Jobs, Sound, Active
  <2>3. upload' \in [Uploads -> Jobs] /\ \A i \in Uploads : Sound(upload[i])'
    BY <1>g, <1>v, <2>1, <2>2, JobStepKeeps
  <2> QED BY <2>1, <2>3
<1>15. CASE UNCHANGED mediaVars
    BY <1>15, <1>o DEF mediaVars
<1> QED
    BY <1>1, <1>2, <1>3, <1>4, <1>5, <1>6, <1>7, <1>8, <1>9, <1>10, <1>11, <1>12, <1>13,
       <1>14, <1>15
    DEF MediaNext

LEMMA MediaStarts == MediaInit => MediaInv
<1> SUFFICES ASSUME MediaInit PROVE MediaInv
  OBVIOUS
<1>1. Variants \in Nat
  BY MediaAssumption
<1>2. NoUpload \in Jobs /\ Sound(NoUpload)
  BY DEF NoUpload, Jobs, Sound, Active
<1> QED
  BY <1>1, <1>2 DEF MediaInit, MediaInv, MediaShapes, MediaKept, NoRequest

(* uploadFromS3KeyWithProgress: for any number of keys, jobs, attempts and *)
(* variants, and whatever fails, an uploaded image is in the bucket, raw   *)
(* or as all its variants, and a READY media has all of them.              *)
THEOREM ImagesKept == MediaSpec => []MediaKept
<1> QED
    BY MediaStarts, MediaStep, PTL DEF MediaSpec, MediaInv

(* The shape of the jobs and of the request that enqueues.                 *)

LEMMA ItemListsType ==
    ASSUME NEW items \in ItemLists
    PROVE  items \in Seq(Keys) /\ Len(items) \in 1..2
<1>1. CASE \E k \in Keys : items = <<k>>
    BY <1>1
<1>2. CASE \E k, l \in Keys : items = <<k, l>>
    BY <1>2
<1> QED BY <1>1, <1>2 DEF ItemLists

UploadJobs == [items : ItemLists, done : 0..2, put : 0..Variants,
               step : {"download", "put", "drop", "record", "over"},
               tries : 1..MaxUploadTries]

LEMMA MediaTypeStep == MediaInv /\ MediaTypeOK /\ [MediaNext]_mediaVars => MediaTypeOK'
<1> SUFFICES ASSUME MediaInv, MediaTypeOK, [MediaNext]_mediaVars
             PROVE  MediaTypeOK'
    OBVIOUS
<1> USE DEF MediaTypeOK, bucket
<1>m. /\ Variants \in Nat /\ Variants > 0 /\ MaxUploadTries \in Nat /\ MaxUploadTries > 0
      /\ MaxMediaFaults \in Nat
    BY MediaAssumption
<1>f. ASSUME MediaFault PROVE mediaBudget' \in 0..MaxMediaFaults
    BY <1>f, <1>m DEF MediaFault
<1>u. upload \in [Uploads -> {NoUpload} \cup UploadJobs]
    BY DEF UploadJobs
<1>j. ASSUME NEW j \in Uploads, NEW u \in {NoUpload} \cup UploadJobs, upload' = [upload EXCEPT ![j] = u],
             media' \in [Keys -> {"none", "UPLOADED", "PROCESSING", "READY", "FAILED"}],
             arrived' \subseteq Keys, raw' \subseteq Keys, rendered' \in [Keys -> 0..Variants],
             enqueuing' \in {enqueuing, NoRequest}, mediaBudget' \in 0..MaxMediaFaults
      PROVE  MediaTypeOK'
  <2>1. upload' \in [Uploads -> {NoUpload} \cup UploadJobs]
    BY <1>u, <1>j
  <2> QED BY <1>j, <2>1 DEF UploadJobs
(* A job at work is one of UploadJobs. *)
<1>a. ASSUME NEW j \in Uploads, upload[j].step \in Active
      PROVE  /\ upload[j] \in UploadJobs /\ Item(j) \in Keys
             /\ upload[j].done \in Nat /\ upload[j].done < Len(upload[j].items)
             /\ Len(upload[j].items) \in 1..2
  <2>1. upload[j] \in UploadJobs
    BY <1>a, <1>u DEF NoUpload, Active
  <2>2. upload[j].items \in Seq(Keys) /\ Len(upload[j].items) \in 1..2 /\ upload[j].done \in Nat
    BY <2>1, ItemListsType DEF UploadJobs
  <2>3. upload[j].done < Len(upload[j].items)
    BY <1>a DEF MediaInv, Sound
  <2> QED BY <2>1, <2>2, <2>3 DEF Item
<1>1. ASSUME NEW k \in Keys, CreatePresignRecord(k) PROVE MediaTypeOK'
    BY <1>1 DEF CreatePresignRecord
<1>2. ASSUME NEW k \in Keys, PutRaw(k) PROVE MediaTypeOK'
    BY <1>2 DEF PutRaw
<1>3. ASSUME NEW k \in Keys, AbortMultipartUpload(k) PROVE MediaTypeOK'
    BY <1>3 DEF AbortMultipartUpload
<1>4. ASSUME NEW items \in ItemLists, EnqueueFromS3(items) PROVE MediaTypeOK'
    BY <1>4 DEF EnqueueFromS3
<1>q. ASSUME NEW from \in {"head", "mark"}, NEW to \in {"mark", "add"}, Enqueues(from, to)
      PROVE  enqueuing' \in [step : {"head", "mark", "add"}, items : ItemLists]
    BY <1>q DEF Enqueues, NoRequest
<1>5. CASE LoadHeads
  <2>1. UNCHANGED <<media, bucket, upload, mediaBudget>>
    BY <1>5 DEF LoadHeads
  <2>2. Enqueues("head", "mark") \/ enqueuing' = NoRequest
    BY <1>5 DEF LoadHeads
  <2>3. enqueuing' \in {NoRequest} \cup [step : {"head", "mark", "add"}, items : ItemLists]
    BY <2>2, <1>q
  <2> QED BY <2>1, <2>3
<1>6. CASE MarkMediaAsProcessing
  <2>1. UNCHANGED <<bucket, upload, mediaBudget>> /\ Enqueues("mark", "add")
    BY <1>6 DEF MarkMediaAsProcessing
  <2>2. media' \in [Keys -> {"none", "UPLOADED", "PROCESSING", "READY", "FAILED"}]
    BY <1>6 DEF MarkMediaAsProcessing
  <2>3. enqueuing' \in [step : {"head", "mark", "add"}, items : ItemLists]
    BY <2>1, <1>q
  <2> QED BY <2>1, <2>2, <2>3
<1>7. CASE EnqueueLost
    BY <1>7, <1>f DEF EnqueueLost
<1>8. ASSUME NEW j \in Uploads, AddUpload(j) PROVE MediaTypeOK'
  <2>1. enqueuing.items \in ItemLists
    BY <1>8 DEF AddUpload, NoRequest
  <2> DEFINE u == [items |-> enqueuing.items, done |-> 0, step |-> "download", put |-> 0,
                   tries |-> 1]
  <2>2. u \in UploadJobs
    BY <1>m, <2>1 DEF UploadJobs
  <2>3. upload' = [upload EXCEPT ![j] = u]
        /\ UNCHANGED <<media, bucket, mediaBudget>> /\ enqueuing' = NoRequest
    BY <1>8 DEF AddUpload
  <2> HIDE DEF u
  <2> QED BY <2>2, <2>3, <1>j
<1>t. ASSUME NEW j \in Uploads, upload[j].step \in Active, RetryUpload(j),
             UNCHANGED <<media, bucket, enqueuing>>, mediaBudget' \in 0..MaxMediaFaults
      PROVE  MediaTypeOK'
  <2>1. PICK v \in UploadJobs : v = upload[j]
    BY <1>t, <1>a
  <2>2. CASE v.tries < MaxUploadTries
    <3> DEFINE u == [v EXCEPT !.done = 0, !.put = 0, !.step = "download", !.tries = v.tries + 1]
    <3>1. upload' = [upload EXCEPT ![j] = u]
      BY <1>t, <2>1, <2>2 DEF RetryUpload
    <3>2. u \in UploadJobs
      <4>1. v.tries \in 1..MaxUploadTries
        BY DEF UploadJobs
      <4>2. v.tries + 1 \in 1..MaxUploadTries /\ 0 \in 0..Variants /\ 0 \in 0..2
        BY <1>m, <2>2, <4>1
      <4> QED BY <4>2 DEF UploadJobs
    <3> HIDE DEF u
    <3> QED BY <1>t, <1>j, <3>1, <3>2
  <2>3. CASE ~(v.tries < MaxUploadTries)
    <3> DEFINE u == [v EXCEPT !.step = "over"]
    <3>1. upload' = [upload EXCEPT ![j] = u]
      BY <1>t, <2>1, <2>3 DEF RetryUpload
    <3>2. u \in UploadJobs
      BY DEF UploadJobs
    <3> HIDE DEF u
    <3> QED BY <1>t, <1>j, <3>1, <3>2
  <2> QED BY <2>2, <2>3
<1>9. ASSUME NEW j \in Uploads, DownloadRaw(j) PROVE MediaTypeOK'
  <2>1. upload[j].step \in Active /\ UNCHANGED <<media, bucket, enqueuing, mediaBudget>>
    BY <1>9 DEF DownloadRaw, Active
  <2>2. CASE RetryUpload(j)
    BY <1>t, <2>1, <2>2
  <2>3. CASE ~RetryUpload(j)
    <3>1. PICK v \in UploadJobs : v = upload[j]
      BY <1>a, <2>1
    <3> DEFINE u == [v EXCEPT !.step = "put"]
    <3>2. upload' = [upload EXCEPT ![j] = u]
      BY <1>9, <2>3, <3>1 DEF DownloadRaw, Advance
    <3>3. u \in UploadJobs
      BY DEF UploadJobs
    <3> HIDE DEF u
    <3> QED BY <1>j, <2>1, <3>2, <3>3
  <2> QED BY <2>2, <2>3
<1>10. ASSUME NEW j \in Uploads, PutVariant(j) PROVE MediaTypeOK'
  <2>1. upload[j].step = "put" /\ UNCHANGED <<media, arrived, raw, enqueuing, mediaBudget>>
    BY <1>10 DEF PutVariant
  <2>2. PICK v \in UploadJobs : v = upload[j]
    BY <1>a, <2>1 DEF Active
  <2>3. v.put \in 0..Variants /\ v.put < Variants
    BY <2>1, <2>2 DEF UploadJobs, MediaInv, Sound
  <2>4. v.put + 1 \in 0..Variants
    BY <1>m, <2>3
  <2>5. rendered' \in [Keys -> 0..Variants]
    BY <1>10, <2>1, <2>2, <2>4, <1>a DEF PutVariant, Active
  <2>6. PICK to \in {"drop", "put"} :
            upload' = [upload EXCEPT ![j] = [v EXCEPT !.put = v.put + 1, !.step = to]]
    BY <1>10, <2>2 DEF PutVariant
  <2> DEFINE u == [v EXCEPT !.put = v.put + 1, !.step = to]
  <2>7. u \in UploadJobs
    BY <2>4 DEF UploadJobs
  <2> HIDE DEF u
  <2> QED BY <1>j, <2>1, <2>5, <2>6, <2>7 DEF u
<1>11. ASSUME NEW j \in Uploads, DropRaw(j) PROVE MediaTypeOK'
  <2>1. upload[j].step = "drop" /\ UNCHANGED <<media, arrived, rendered, enqueuing>>
        /\ raw' \subseteq Keys /\ mediaBudget' \in 0..MaxMediaFaults
    BY <1>11, <1>f DEF DropRaw, Advance
  <2>2. PICK v \in UploadJobs : v = upload[j]
    BY <1>a, <2>1 DEF Active
  <2> DEFINE u == [v EXCEPT !.step = "record"]
  <2>3. upload' = [upload EXCEPT ![j] = u]
    BY <1>11, <2>2 DEF DropRaw, Advance
  <2>4. u \in UploadJobs
    BY DEF UploadJobs
  <2> HIDE DEF u
  <2> QED BY <1>j, <2>1, <2>3, <2>4
<1>12. ASSUME NEW j \in Uploads, CreateMediaRecord(j) PROVE MediaTypeOK'
  <2>1. upload[j].step = "record" /\ UNCHANGED <<bucket, enqueuing, mediaBudget>>
    BY <1>12 DEF CreateMediaRecord
  <2>2. PICK v \in UploadJobs : v = upload[j]
    BY <1>a, <2>1 DEF Active
  <2>3. v.done + 1 \in 0..2
    <3>1. v.done \in Nat /\ Len(v.items) \in 1..2 /\ v.done < Len(v.items)
      BY <1>a, <2>1, <2>2 DEF Active
    <3>2. PICK n \in 1..2 : n = Len(v.items)
      BY <3>1
    <3>3. v.done < n
      BY <3>1, <3>2
    <3> QED BY <3>1, <3>3
  <2>4. media' \in [Keys -> {"none", "UPLOADED", "PROCESSING", "READY", "FAILED"}]
    BY <1>12, <1>a, <2>1 DEF CreateMediaRecord, Active
  <2>5. PICK to \in {"over", "download"} :
            upload' = [upload EXCEPT ![j] = [v EXCEPT !.done = v.done + 1, !.put = 0, !.step = to]]
    BY <1>12, <2>2 DEF CreateMediaRecord
  <2> DEFINE u == [v EXCEPT !.done = v.done + 1, !.put = 0, !.step = to]
  <2>6. u \in UploadJobs
    <3>1. 0 \in 0..Variants
      BY <1>m
    <3> QED BY <2>3, <3>1 DEF UploadJobs
  <2> HIDE DEF u
  <2> QED BY <1>j, <2>1, <2>4, <2>5, <2>6 DEF u
<1>13. ASSUME NEW j \in Uploads, UploadFails(j) PROVE MediaTypeOK'
    BY <1>13, <1>t, <1>f DEF UploadFails, Active
<1>14. ASSUME NEW j \in Uploads, ForgetUpload(j) PROVE MediaTypeOK'
    BY <1>14, <1>j DEF ForgetUpload
<1>15. CASE UNCHANGED mediaVars
    BY <1>15 DEF mediaVars
<1> QED
    BY <1>1, <1>2, <1>3, <1>4, <1>5, <1>6, <1>7, <1>8, <1>9, <1>10, <1>11, <1>12, <1>13,
       <1>14, <1>15
    DEF MediaNext

LEMMA MediaTypeStarts == MediaInit => MediaTypeOK
    BY MediaAssumption DEF MediaInit, MediaTypeOK

-----------------------------------------------------------------------------
(* VersionedCache.  An answer is at least as new as the versions of its    *)
(* key, because the versions are read before the database and lag behind   *)
(* it; and the versions of a key are at least what was announced when the  *)
(* read began.  The numbers of a lost command are lost: the invariant      *)
(* speaks of the behaviours in which Redis has answered so far.            *)

Numbers == [Scopes -> Int]

CacheShapes ==
    /\ stored \in Numbers /\ bumping \in Numbers /\ version \in Numbers
    /\ entries \subseteq [key : Numbers, value : Numbers]
    /\ reading \in [Readers -> {"idle", "version", "get", "load", "set", "done"}]
    /\ unread \in [Readers -> SUBSET Scopes]
    /\ cacheKey \in [Readers -> Numbers]
    /\ answer \in [Readers -> Numbers] /\ due \in [Readers -> Numbers]
    /\ cacheBudget \in 0..MaxCacheFaults
    /\ \A p \in Readers : reading[p] # "version" => unread[p] = {}

VersionsLag ==
    \A s \in Scopes : /\ stored[s] = version[s] + bumping[s]
                        /\ version[s] >= 0 /\ bumping[s] >= 0

EntriesNew == \A e \in entries : AtLeast(e.value, e.key)

ReadsBetween ==
    \A p \in Readers :
        /\ AtLeast(version, due[p]) /\ AtLeast(version, cacheKey[p])
        /\ \A s \in Scopes \ unread[p] : cacheKey[p][s] >= due[p][s]
        /\ reading[p] \in {"set", "done"} => AtLeast(answer[p], cacheKey[p])

CacheInv ==
    /\ CacheShapes
    /\ cacheBudget = MaxCacheFaults => VersionsLag /\ EntriesNew /\ ReadsBetween

LEMMA CacheStep == CacheInv /\ [CacheNext]_cacheVars => CacheInv'
<1> SUFFICES ASSUME CacheInv, [CacheNext]_cacheVars
             PROVE  CacheInv'
    OBVIOUS
<1> USE DEF CacheInv, reads
<1>m. MaxCacheFaults \in Nat
    BY CacheAssumption
(* After a fault only the shapes are left to show. *)
<1>f. ASSUME CacheFault
      PROVE  cacheBudget' \in 0..MaxCacheFaults /\ cacheBudget' # MaxCacheFaults
    BY <1>f, <1>m DEF CacheFault, CacheShapes
<1>1. ASSUME NEW s \in Scopes, CommitWrite(s) PROVE CacheInv'
  <2>1. CacheShapes'
    BY <1>1 DEF CommitWrite, CacheShapes, Numbers
  <2>2. VersionsLag => VersionsLag'
    <3>1. \A r \in Scopes : stored[r] \in Int /\ version[r] \in Int /\ bumping[r] \in Int
      BY DEF CacheShapes, Numbers
    <3>2. \A r \in Scopes : /\ version'[r] = version[r]
                            /\ stored'[r] = IF r = s THEN stored[r] + 1 ELSE stored[r]
                            /\ bumping'[r] = IF r = s THEN bumping[r] + 1 ELSE bumping[r]
      BY <1>1 DEF CommitWrite, CacheShapes, Numbers
    <3> QED BY <3>1, <3>2 DEF VersionsLag
  <2>3. UNCHANGED <<version, entries, reading, unread, cacheKey, answer, due, cacheBudget>>
    BY <1>1 DEF CommitWrite
  <2> QED BY <2>1, <2>2, <2>3 DEF EntriesNew, ReadsBetween, AtLeast
<1>2. ASSUME NEW s \in Scopes, BumpVersion(s) PROVE CacheInv'
  <2>1. CacheShapes'
    BY <1>2 DEF BumpVersion, CacheShapes, Numbers
  <2>2. VersionsLag => VersionsLag'
    <3>1. \A r \in Scopes : stored[r] \in Int /\ version[r] \in Int /\ bumping[r] \in Int
      BY DEF CacheShapes, Numbers
    <3>2. /\ bumping[s] > 0
          /\ \A r \in Scopes : /\ stored'[r] = stored[r]
                               /\ version'[r] = IF r = s THEN version[r] + 1 ELSE version[r]
                               /\ bumping'[r] = IF r = s THEN bumping[r] - 1 ELSE bumping[r]
      BY <1>2 DEF BumpVersion, CacheShapes, Numbers
    <3> QED BY <3>1, <3>2 DEF VersionsLag
  <2>3. UNCHANGED <<entries, reading, unread, cacheKey, answer, due, cacheBudget>>
        /\ version' = [version EXCEPT ![s] = @ + 1]
    BY <1>2 DEF BumpVersion
  <2>4. ReadsBetween => ReadsBetween'
    <3>1. \A r \in Scopes : version'[r] >= version[r] /\ version[r] \in Int /\ version'[r] \in Int
      BY <2>3 DEF CacheShapes, Numbers
    <3>2. \A p \in Readers, r \in Scopes : due[p][r] \in Int /\ cacheKey[p][r] \in Int
      BY DEF CacheShapes, Numbers
    <3>3. ASSUME NEW p \in Readers
          PROVE  /\ AtLeast(version, due[p]) => AtLeast(version', due[p])
                 /\ AtLeast(version, cacheKey[p]) => AtLeast(version', cacheKey[p])
      BY <3>1, <3>2 DEF AtLeast
    <3> QED BY <2>3, <3>3 DEF ReadsBetween, AtLeast
  <2> QED BY <2>1, <2>2, <2>3, <2>4 DEF EntriesNew, AtLeast
<1>3. ASSUME NEW s \in Scopes, BumpFails(s) PROVE CacheInv'
  <2>1. CacheShapes'
    BY <1>3, <1>f DEF BumpFails, CacheShapes, Numbers
  <2> QED BY <1>3, <1>f, <2>1 DEF BumpFails
<1>4. ASSUME NEW p \in Readers, BeginRead(p) PROVE CacheInv'
  <2>1. Zero \in Numbers /\ Announced \in Numbers
    BY DEF Zero, Announced, Numbers, CacheShapes
  <2>2. CacheShapes'
    BY <1>4, <2>1 DEF BeginRead, CacheShapes
  <2>3. UNCHANGED <<stored, bumping, version, entries, cacheBudget>>
    BY <1>4 DEF BeginRead
  <2>4. CASE cacheBudget = MaxCacheFaults
    <3>1. AtLeast(version, Announced) /\ AtLeast(version, Zero)
      BY <2>4 DEF VersionsLag, AtLeast, Announced, Zero, CacheShapes, Numbers
    <3>2. ReadsBetween'
      BY <1>4, <2>1, <2>3, <2>4, <3>1 DEF BeginRead, ReadsBetween, AtLeast, CacheShapes
    <3> QED BY <2>2, <2>3, <2>4, <3>2 DEF VersionsLag, EntriesNew, AtLeast
  <2> QED BY <2>2, <2>3, <2>4
<1>5. ASSUME NEW p \in Readers, NEW s \in Scopes, GetVersion(p, s) PROVE CacheInv'
  <2>1. /\ reading[p] = "version" /\ s \in unread[p]
        /\ unread' = [unread EXCEPT ![p] = @ \ {s}]
        /\ reading' = [reading EXCEPT ![p] = IF unread[p] = {s} THEN "get" ELSE "version"]
        /\ UNCHANGED <<stored, bumping, version, entries, answer, due>>
    BY <1>5 DEF GetVersion
  <2>2. /\ reading' \in [Readers -> {"idle", "version", "get", "load", "set", "done"}]
        /\ unread' \in [Readers -> SUBSET Scopes]
        /\ \A q \in Readers : reading'[q] # "version" => unread'[q] = {}
    BY <2>1 DEF CacheShapes
  <2>3. CASE CacheFault /\ UNCHANGED cacheKey
    BY <1>f, <2>1, <2>2, <2>3 DEF CacheShapes
  <2>4. CASE cacheKey' = [cacheKey EXCEPT ![p][s] = version[s]] /\ UNCHANGED cacheBudget
    <3>1. /\ cacheKey' \in [Readers -> Numbers]
          /\ \A q \in Readers, r \in Scopes :
                cacheKey'[q][r] = IF q = p /\ r = s THEN version[s] ELSE cacheKey[q][r]
      BY <2>4 DEF CacheShapes, Numbers
    <3>2. CacheShapes'
      BY <2>1, <2>2, <2>4, <3>1 DEF CacheShapes
    <3>3. ASSUME ReadsBetween PROVE ReadsBetween'
      <4>1. \A r \in Scopes : version[r] \in Int
        BY DEF CacheShapes, Numbers
      <4>2. \A q \in Readers : AtLeast(version, cacheKey'[q])
        BY <3>1, <3>3, <4>1 DEF ReadsBetween, AtLeast
      <4>3. \A q \in Readers : \A r \in Scopes \ unread'[q] : cacheKey'[q][r] >= due[q][r]
        BY <2>1, <3>1, <3>3 DEF ReadsBetween, AtLeast, CacheShapes
      <4>4. \A q \in Readers : reading'[q] \in {"set", "done"} => AtLeast(answer[q], cacheKey'[q])
        BY <2>1, <3>1, <3>3 DEF ReadsBetween, AtLeast, CacheShapes
      <4> QED BY <2>1, <3>3, <4>2, <4>3, <4>4 DEF ReadsBetween, AtLeast
    <3> QED BY <2>1, <2>4, <3>2, <3>3 DEF VersionsLag, EntriesNew, AtLeast
  <2> QED BY <1>5, <2>3, <2>4 DEF GetVersion
<1>6. ASSUME NEW p \in Readers, GetJson(p) PROVE CacheInv'
  <2>1. UNCHANGED <<stored, bumping, version, entries, unread, cacheKey, due>>
        /\ reading[p] = "get"
    BY <1>6 DEF GetJson, Goes
  <2>2. CASE reading' = [reading EXCEPT ![p] = "load"] /\ UNCHANGED answer
             /\ (UNCHANGED cacheBudget \/ CacheFault)
    <3>1. CacheShapes'
      BY <1>f, <2>1, <2>2 DEF CacheShapes
    <3>2. ReadsBetween => ReadsBetween'
      BY <2>1, <2>2 DEF ReadsBetween, AtLeast, CacheShapes
    <3> QED BY <1>f, <2>1, <2>2, <3>1, <3>2 DEF VersionsLag, EntriesNew, AtLeast
  <2>3. CASE \E e \in entries : /\ e.key = cacheKey[p]
                                /\ answer' = [answer EXCEPT ![p] = e.value]
                                /\ reading' = [reading EXCEPT ![p] = "done"]
                                /\ UNCHANGED cacheBudget
    <3>1. PICK e \in entries : /\ e.key = cacheKey[p]
                               /\ answer' = [answer EXCEPT ![p] = e.value]
                               /\ reading' = [reading EXCEPT ![p] = "done"]
                               /\ UNCHANGED cacheBudget
      BY <2>3
    <3>2. CacheShapes'
      BY <2>1, <3>1 DEF CacheShapes
    <3>3. EntriesNew /\ ReadsBetween => ReadsBetween'
      BY <2>1, <3>1 DEF EntriesNew, ReadsBetween, AtLeast, CacheShapes
    <3> QED BY <2>1, <3>1, <3>2, <3>3 DEF VersionsLag, EntriesNew, AtLeast
  <2> QED BY <1>6, <2>2, <2>3 DEF GetJson, Goes
<1>7. ASSUME NEW p \in Readers, Load(p) PROVE CacheInv'
  <2>1. /\ UNCHANGED <<stored, bumping, version, entries, unread, cacheKey, due, cacheBudget>>
        /\ reading[p] = "load" /\ reading' = [reading EXCEPT ![p] = "set"]
        /\ answer' = [answer EXCEPT ![p] = stored]
    BY <1>7 DEF Load, Goes
  <2>2. CacheShapes'
    BY <2>1 DEF CacheShapes
  <2>3. ASSUME VersionsLag, ReadsBetween PROVE ReadsBetween'
    <3>1. \A r \in Scopes : /\ stored[r] >= version[r] /\ stored[r] \in Int /\ version[r] \in Int
                            /\ cacheKey[p][r] \in Int
      BY <2>3 DEF VersionsLag, CacheShapes, Numbers
    <3>2. AtLeast(stored, cacheKey[p])
      BY <2>3, <3>1 DEF ReadsBetween, AtLeast
    <3> QED BY <2>1, <2>3, <3>2 DEF ReadsBetween, AtLeast, CacheShapes
  <2> QED BY <2>1, <2>2, <2>3 DEF VersionsLag, EntriesNew, AtLeast
<1>8. ASSUME NEW p \in Readers, SetJson(p) PROVE CacheInv'
  <2>1. /\ UNCHANGED <<stored, bumping, version, unread, cacheKey, answer, due>>
        /\ reading[p] = "set" /\ reading' = [reading EXCEPT ![p] = "done"]
    BY <1>8 DEF SetJson, Goes
  <2>2. ReadsBetween => ReadsBetween'
    BY <2>1 DEF ReadsBetween, AtLeast, CacheShapes
  <2>3. CASE CacheFault /\ UNCHANGED entries
    BY <1>f, <2>1, <2>3 DEF CacheShapes
  <2>4. CASE /\ entries' = {e \in entries : e.key # cacheKey[p]}
                              \cup {[key |-> cacheKey[p], value |-> answer[p]]}
             /\ UNCHANGED cacheBudget
    <3>1. CacheShapes'
      BY <2>1, <2>4 DEF CacheShapes
    <3>2. ASSUME EntriesNew, ReadsBetween PROVE EntriesNew'
      <4>1. AtLeast(answer[p], cacheKey[p])
        BY <2>1, <3>2 DEF ReadsBetween
      <4> QED BY <2>4, <3>2, <4>1 DEF EntriesNew, AtLeast
    <3> QED BY <2>1, <2>2, <2>4, <3>1, <3>2 DEF VersionsLag
  <2> QED BY <1>8, <2>3, <2>4 DEF SetJson
<1>9. ASSUME NEW k, ExpireEntry(k) PROVE CacheInv'
    BY <1>9 DEF ExpireEntry, CacheShapes, VersionsLag, EntriesNew, ReadsBetween, AtLeast
<1>10. CASE UNCHANGED cacheVars
    BY <1>10 DEF cacheVars, CacheShapes, VersionsLag, EntriesNew, ReadsBetween, AtLeast
<1> QED
    BY <1>1, <1>2, <1>3, <1>4, <1>5, <1>6, <1>7, <1>8, <1>9, <1>10 DEF CacheNext

LEMMA CacheStarts == CacheInit => CacheInv
<1> SUFFICES ASSUME CacheInit PROVE CacheInv
  OBVIOUS
<1>1. MaxCacheFaults \in Nat /\ Zero \in Numbers /\ \A s \in Scopes : Zero[s] = 0
  BY CacheAssumption DEF Zero, Numbers
<1> QED
  BY <1>1 DEF CacheInit, CacheInv, CacheShapes, VersionsLag, EntriesNew, ReadsBetween, AtLeast

LEMMA CacheInvFresh == CacheInv => ReadsFresh
<1> SUFFICES ASSUME CacheInv, cacheBudget = MaxCacheFaults, NEW p \in Readers,
                    reading[p] = "done", NEW s \in Scopes
             PROVE  answer[p][s] >= due[p][s]
  BY DEF ReadsFresh, AtLeast
<1>1. answer[p][s] \in Int /\ cacheKey[p][s] \in Int /\ due[p][s] \in Int
  BY DEF CacheInv, CacheShapes, Numbers
<1>2. answer[p][s] >= cacheKey[p][s] /\ cacheKey[p][s] >= due[p][s]
  BY DEF CacheInv, CacheShapes, ReadsBetween, AtLeast
<1> QED BY <1>1, <1>2

(* getVersion, getJson, setJson and bumpVersion: for any number of scopes, *)
(* reads and writes, while Redis answers, a read returns every write that  *)
(* was announced before it began.                                          *)
THEOREM CachedReadsFresh == CacheSpec => []ReadsFresh
<1> QED
    BY CacheStarts, CacheInvFresh, CacheStep, PTL DEF CacheSpec

(* Numbers of writes stay within MaxWrites: a version counts no more bumps *)
(* than there are writes, also when bumps are lost.                        *)
VersionsBounded == \A s \in Scopes : version[s] + bumping[s] <= stored[s]

CacheTypes == CacheTypeOK /\ VersionsBounded

LEMMA CacheTypesStep == CacheTypes /\ [CacheNext]_cacheVars => CacheTypes'
<1> SUFFICES ASSUME CacheTypes, [CacheNext]_cacheVars
             PROVE  CacheTypes'
    OBVIOUS
<1> USE CacheAssumption DEF CacheTypes, CacheTypeOK, VersionsBounded, reads, CacheFault
<1>n. \A s \in Scopes : stored[s] \in 0..MaxWrites /\ bumping[s] \in 0..MaxWrites
                        /\ version[s] \in 0..MaxWrites
    BY DEF Versions
<1>z. Zero \in Versions /\ Announced \in Versions
    BY <1>n DEF Zero, Versions, Announced
<1>1. ASSUME NEW s \in Scopes, CommitWrite(s) PROVE CacheTypes'
  <2>1. /\ stored[s] + 1 \in 0..MaxWrites /\ bumping[s] + 1 \in 0..MaxWrites
        /\ stored' = [stored EXCEPT ![s] = stored[s] + 1]
        /\ bumping' = [bumping EXCEPT ![s] = bumping[s] + 1]
        /\ UNCHANGED <<version, entries, reads, cacheBudget>>
    BY <1>1, <1>n DEF CommitWrite
  <2>2. stored' \in Versions /\ bumping' \in Versions
    BY <2>1 DEF Versions
  <2>3. VersionsBounded'
    BY <1>n, <2>1 DEF Versions
  <2> QED BY <2>1, <2>2, <2>3
<1>2. ASSUME NEW s \in Scopes, BumpVersion(s) PROVE CacheTypes'
  <2>1. /\ version[s] + 1 \in 0..MaxWrites /\ bumping[s] - 1 \in 0..MaxWrites
        /\ version' = [version EXCEPT ![s] = version[s] + 1]
        /\ bumping' = [bumping EXCEPT ![s] = bumping[s] - 1]
        /\ UNCHANGED <<stored, entries, reads, cacheBudget>>
    BY <1>2, <1>n DEF BumpVersion
  <2>2. version' \in Versions /\ bumping' \in Versions
    BY <2>1 DEF Versions
  <2>3. VersionsBounded'
    BY <1>n, <2>1 DEF Versions
  <2> QED BY <2>1, <2>2, <2>3
<1>3. ASSUME NEW s \in Scopes, BumpFails(s) PROVE CacheTypes'
  <2>1. /\ bumping[s] - 1 \in 0..MaxWrites /\ cacheBudget' \in 0..MaxCacheFaults
        /\ bumping' = [bumping EXCEPT ![s] = bumping[s] - 1]
        /\ UNCHANGED <<stored, version, entries, reads>>
    BY <1>3, <1>n DEF BumpFails
  <2>2. bumping' \in Versions
    BY <2>1 DEF Versions
  <2>3. VersionsBounded'
    BY <1>n, <2>1 DEF Versions
  <2> QED BY <2>1, <2>2, <2>3
<1>4. ASSUME NEW p \in Readers, BeginRead(p) PROVE CacheTypes'
    BY <1>4, <1>z DEF BeginRead
<1>5. ASSUME NEW p \in Readers, NEW s \in Scopes, GetVersion(p, s) PROVE CacheTypes'
  <2>1. UNCHANGED <<stored, bumping, version, entries, answer, due>>
    BY <1>5 DEF GetVersion
  <2>2. cacheKey' \in [Readers -> Versions] /\ cacheBudget' \in 0..MaxCacheFaults
    <3>1. CASE cacheKey' = [cacheKey EXCEPT ![p][s] = version[s]] /\ UNCHANGED cacheBudget
      <4>1. [cacheKey[p] EXCEPT ![s] = version[s]] \in Versions
        BY <1>n DEF Versions
      <4> QED BY <3>1, <4>1
    <3>2. CASE CacheFault /\ UNCHANGED cacheKey
      BY <3>2
    <3> QED BY <1>5, <3>1, <3>2 DEF GetVersion
  <2>3. unread' \in [Readers -> SUBSET Scopes]
        /\ reading' \in [Readers -> {"idle", "version", "get", "load", "set", "done"}]
    BY <1>5 DEF GetVersion
  <2> QED BY <2>1, <2>2, <2>3
<1>6. ASSUME NEW p \in Readers, GetJson(p) PROVE CacheTypes'
  <2>1. UNCHANGED <<stored, bumping, version, entries, unread, cacheKey, due>>
    BY <1>6 DEF GetJson
  <2>2. answer' \in [Readers -> Versions]
    BY <1>6 DEF GetJson
  <2>3. reading' \in [Readers -> {"idle", "version", "get", "load", "set", "done"}]
    BY <1>6 DEF GetJson, Goes
  <2>4. cacheBudget' \in 0..MaxCacheFaults
    BY <1>6 DEF GetJson
  <2> QED BY <2>1, <2>2, <2>3, <2>4
<1>7. ASSUME NEW p \in Readers, Load(p) PROVE CacheTypes'
    BY <1>7 DEF Load, Goes
<1>8. ASSUME NEW p \in Readers, SetJson(p) PROVE CacheTypes'
  <2>1. UNCHANGED <<stored, bumping, version, unread, cacheKey, answer, due>>
    BY <1>8 DEF SetJson
  <2>2. reading' \in [Readers -> {"idle", "version", "get", "load", "set", "done"}]
    BY <1>8 DEF SetJson, Goes
  <2>3. cacheBudget' \in 0..MaxCacheFaults
    BY <1>8 DEF SetJson
  <2>4. entries' \subseteq [key : Versions, value : Versions]
    BY <1>8 DEF SetJson
  <2> QED BY <2>1, <2>2, <2>3, <2>4
<1>9. ASSUME NEW k \in Versions, ExpireEntry(k) PROVE CacheTypes'
    BY <1>9 DEF ExpireEntry
<1>10. CASE UNCHANGED cacheVars
    BY <1>10 DEF cacheVars
<1> QED
    BY <1>1, <1>2, <1>3, <1>4, <1>5, <1>6, <1>7, <1>8, <1>9, <1>10 DEF CacheNext

LEMMA CacheTypesStart == CacheInit => CacheTypes
<1>1. /\ Zero \in Versions /\ MaxCacheFaults \in 0..MaxCacheFaults
      /\ \A s \in Scopes : Zero[s] = 0
    BY CacheAssumption DEF Zero, Versions
<1> QED BY <1>1 DEF CacheInit, CacheTypes, CacheTypeOK, VersionsBounded

-----------------------------------------------------------------------------
(* AuthSessions.                                                           *)

(* LPUSH and LTRIM: a sequence with a new head, cut at n.                  *)
LEMMA PushedLogin ==
    ASSUME NEW S, NEW s \in Seq(S), NEW x \in S, NEW n \in 1..Len(s) + 1,
           NEW t, t = SubSeq(<<x>> \o s, 1, n)
    PROVE  /\ t \in Seq(S) /\ Len(t) = n
           /\ t[1] = x
           /\ \A i \in 1..n - 1 : t[i + 1] = s[i]
<1>1. <<x>> \o s \in Seq(S) /\ Len(<<x>> \o s) = Len(s) + 1
  OBVIOUS
<1>2. (<<x>> \o s)[1] = x /\ \A i \in 1..Len(s) : (<<x>> \o s)[i + 1] = s[i]
  OBVIOUS
<1>3. t \in Seq(S) /\ Len(t) = n /\ \A i \in 1..n : t[i] = (<<x>> \o s)[i]
  BY <1>1
<1> QED BY <1>2, <1>3

(* The invariant.  A change of the password in progress is a closing that  *)
(* has been counted and has not raised the number of the password yet.     *)
Updating == {p \in Requests : pc[p] = "update"}

UpdatesCounted ==
    IsFiniteSet(Updating) /\ password + Cardinality(Updating) <= closings + 1

(* The list of logins names every session that is not excused.             *)
LoginsListed == live \ excused \subseteq Listed

(* A closing request keeps only an excused session, deletes every other    *)
(* one, and once it has deleted them no other one is alive.                *)
ClosingsCover ==
    \A p \in Requests :
        /\ pc[p] = "list" => sid[p] \in excused \cup {NoSession}
        /\ pc[p] = "delete" => live \ excused \subseteq found[p]
        /\ pc[p] = "reset" => live \subseteq excused

(* A session of an older password is going to be closed.                   *)
OldAwaitClosing ==
    \A s \in live \ excused :
        begunWith[s] = password \/ \E p \in Requests : pc[p] \in {"kept", "list", "delete"}

AuthInv == AuthTypeOK /\ UpdatesCounted /\ LoginsListed /\ ClosingsCover /\ OldAwaitClosing


(* A change of the password that is begun is counted among the closings    *)
(* until it updates the password.                                          *)
LEMMA UpdatesKept ==
    ASSUME UpdatesCounted, Updating' \subseteq Updating, password' = password,
           password \in Nat, closings \in Nat, closings' \in Nat, closings <= closings'
    PROVE  UpdatesCounted'
<1>1. IsFiniteSet(Updating') /\ Cardinality(Updating') <= Cardinality(Updating)
  BY FS_Subset DEF UpdatesCounted
<1>2. Cardinality(Updating) \in Nat /\ Cardinality(Updating') \in Nat
  BY <1>1, FS_CardinalityType DEF UpdatesCounted
<1> QED BY <1>1, <1>2 DEF UpdatesCounted

LEMMA CountStep == AuthTypeOK /\ UpdatesCounted /\ [AuthNext]_authVars => UpdatesCounted'
<1> SUFFICES ASSUME AuthTypeOK, UpdatesCounted, [AuthNext]_authVars PROVE UpdatesCounted'
  OBVIOUS
<1>a. password \in Nat /\ closings \in Nat /\ DOMAIN pc = Requests
  BY AuthAssumption DEF AuthTypeOK
<1>b. IsFiniteSet(Updating) /\ Cardinality(Updating) \in Nat
  BY FS_CardinalityType DEF UpdatesCounted
<1>c. pc = [q \in Requests |-> pc[q]]
  BY DEF AuthTypeOK
<1>0. /\ password \in Nat /\ closings \in Nat /\ pc = [q \in Requests |-> pc[q]]
      /\ IsFiniteSet(Updating) /\ Cardinality(Updating) \in Nat
  BY <1>a, <1>b, <1>c
<1>1. ASSUME NEW p \in Requests, VerifyCurrentPassword(p) PROVE UpdatesCounted'
  <2>1. Updating' = Updating \cup {p} /\ p \notin Updating
    BY <1>0, <1>1 DEF VerifyCurrentPassword, Step, Updating
  <2>2. IsFiniteSet(Updating') /\ Cardinality(Updating') = Cardinality(Updating) + 1
    BY <1>0, <2>1, FS_AddElement
  <2>3. closings' = closings + 1 /\ password' = password
    BY <1>1 DEF VerifyCurrentPassword, Close
  <2> QED BY <1>0, <2>2, <2>3 DEF UpdatesCounted
<1>2. ASSUME NEW p \in Requests, UpdatePassword(p) PROVE UpdatesCounted'
  <2>1. Updating' = Updating \ {p} /\ p \in Updating
    BY <1>0, <1>2 DEF UpdatePassword, Step, Updating
  <2>2. IsFiniteSet(Updating') /\ Cardinality(Updating') = Cardinality(Updating) - 1
    BY <1>0, <2>1, FS_RemoveElement
  <2>3. closings' = closings /\ password' = password + 1
    BY <1>2 DEF UpdatePassword
  <2> QED BY <1>0, <2>2, <2>3 DEF UpdatesCounted
<1>3. ASSUME ~ (\E p \in Requests : VerifyCurrentPassword(p) \/ UpdatePassword(p))
      PROVE  UpdatesCounted'
  <2>1. Updating' \subseteq Updating
    <3> USE <1>0 DEF Updating, Step
    <3>1. ASSUME NEW p \in Requests, ValidateUser(p) PROVE Updating' \subseteq Updating
      BY <3>1 DEF ValidateUser
    <3>2. ASSUME NEW p \in Requests, ReuseSession(p) PROVE Updating' \subseteq Updating
      BY <3>2 DEF ReuseSession
    <3>3. ASSUME NEW p \in Requests, CreateForUser(p) PROVE Updating' \subseteq Updating
      BY <3>3 DEF CreateForUser
    <3>4. ASSUME NEW p \in Requests, ConsumeHandoff(p) PROVE Updating' \subseteq Updating
      BY <3>4 DEF ConsumeHandoff
    <3>5. ASSUME NEW p \in Requests, RevokeOtherSessions(p) PROVE Updating' \subseteq Updating
      BY <3>5 DEF RevokeOtherSessions
    <3>6. ASSUME NEW p \in Requests, ReadKept(p) PROVE Updating' \subseteq Updating
      BY <3>6 DEF ReadKept
    <3>7. ASSUME NEW p \in Requests, ListForUser(p) PROVE Updating' \subseteq Updating
      BY <3>7 DEF ListForUser
    <3>8. ASSUME NEW p \in Requests, DeleteListed(p) PROVE Updating' \subseteq Updating
      BY <3>8 DEF DeleteListed
    <3>9. ASSUME NEW p \in Requests, ResetLogins(p) PROVE Updating' \subseteq Updating
      BY <3>9 DEF ResetLogins
    <3>10. ASSUME NEW p \in Requests, Logout(p) PROVE Updating' \subseteq Updating
      BY <3>10 DEF Logout
    <3>11. ASSUME NEW p \in Requests, DeleteSession(p) PROVE Updating' \subseteq Updating
      BY <3>11 DEF DeleteSession
    <3>12. ASSUME NEW p \in Requests, ReadPrimary(p) PROVE Updating' \subseteq Updating
      BY <3>12 DEF ReadPrimary
    <3>13. ASSUME NEW p \in Requests, DeletePrimary(p) PROVE Updating' \subseteq Updating
      BY <3>13 DEF DeletePrimary
    <3>14. ASSUME NEW p \in Requests, RedisReadFails(p) PROVE Updating' \subseteq Updating
      BY <3>14 DEF RedisReadFails
    <3>15. ASSUME NEW p \in Requests, RequestDies(p) PROVE Updating' \subseteq Updating
      BY <3>15 DEF RequestDies
    <3>16. ASSUME \/ CreateHandoff \/ HandoffExpires \/ UNCHANGED authVars
                \/ \E s \in Sids : SessionExpires(s)
          PROVE Updating' \subseteq Updating
      BY <3>16 DEF CreateHandoff, HandoffExpires, authVars, SessionExpires
    <3> QED BY <1>3, <3>1, <3>2, <3>3, <3>4, <3>5, <3>6, <3>7, <3>8, <3>9, <3>10, <3>11, <3>12, <3>13, <3>14, <3>15, <3>16 DEF AuthNext
  <2>2. password' = password /\ closings' \in Nat /\ closings <= closings'
    BY <1>0, <1>3 DEF AuthNext, Close, authVars, store, request, ValidateUser, ReuseSession,
       CreateForUser, ConsumeHandoff, RevokeOtherSessions, ReadKept, ListForUser, DeleteListed,
       ResetLogins, Logout, DeleteSession, ReadPrimary, DeletePrimary, RedisReadFails,
       RequestDies, CreateHandoff, HandoffExpires, SessionExpires
  <2> QED BY <1>0, <2>1, <2>2, UpdatesKept
<1> QED BY <1>1, <1>2, <1>3


(* The list of logins after createForUser: the new session, then the old   *)
(* ones as far as the limit allows.                                        *)
LEMMA CreatedLogin ==
    ASSUME AuthTypeOK, NEW p \in Requests, CreateForUser(p)
    PROVE  /\ logins' \in Seq(1..opened') /\ Len(logins') <= MaxLogins /\ Len(logins') > 0
           /\ logins'[1] = opened'
           /\ \A i \in 1..Len(logins) : i < MaxLogins =>
                  i + 1 \in 1..Len(logins') /\ logins'[i + 1] = logins[i]
<1> DEFINE len == IF Len(logins) < MaxLogins THEN Len(logins) + 1 ELSE MaxLogins
<1>1. opened' = opened + 1 /\ opened \in Nat /\ logins \in Seq(1..opened)
  BY DEF CreateForUser, AuthTypeOK
<1>2. logins \in Seq(1..opened') /\ opened' \in 1..opened'
  BY <1>1
<1>3. len \in 1..Len(logins) + 1 /\ len <= MaxLogins /\ Len(logins) \in Nat
      /\ \A i \in 1..Len(logins) : i < MaxLogins => i \in 1..len - 1
  BY <1>1, AuthAssumption DEF AuthTypeOK
<1>4. logins' = SubSeq(<<opened'>> \o logins, 1, len)
  BY DEF CreateForUser
<1> HIDE DEF len
<1>5. /\ logins' \in Seq(1..opened') /\ Len(logins') = len
      /\ logins'[1] = opened'
      /\ \A i \in 1..len - 1 : logins'[i + 1] = logins[i]
  BY <1>2, <1>3, <1>4, PushedLogin
<1> QED BY <1>3, <1>5


LEMMA AuthTypeStep == AuthTypeOK /\ UpdatesCounted /\ [AuthNext]_authVars => AuthTypeOK'
<1> SUFFICES ASSUME AuthTypeOK, UpdatesCounted, [AuthNext]_authVars PROVE AuthTypeOK'
  OBVIOUS
<1> USE AuthAssumption DEF AuthTypeOK, Sids, Closing, store, request, Step, Close, AuthFault
<1>a. live \subseteq Sids /\ 1..opened \subseteq Sids
  OBVIOUS
<1>1. ASSUME NEW p \in Requests, ValidateUser(p) PROVE AuthTypeOK'
  BY <1>1 DEF ValidateUser
<1>2. ASSUME NEW p \in Requests, ReuseSession(p) PROVE AuthTypeOK'
  BY <1>2 DEF ReuseSession
<1>3. ASSUME NEW p \in Requests, ConsumeHandoff(p) PROVE AuthTypeOK'
  BY <1>3 DEF ConsumeHandoff
<1>4. ASSUME NEW p \in Requests, VerifyCurrentPassword(p) PROVE AuthTypeOK'
  BY <1>4 DEF VerifyCurrentPassword
<1>5. ASSUME NEW p \in Requests, RevokeOtherSessions(p) PROVE AuthTypeOK'
  BY <1>5 DEF RevokeOtherSessions
<1>6. ASSUME NEW p \in Requests, DeleteListed(p) PROVE AuthTypeOK'
  BY <1>6 DEF DeleteListed
<1>7. ASSUME NEW p \in Requests, Logout(p) PROVE AuthTypeOK'
  BY <1>7 DEF Logout
<1>8. ASSUME NEW p \in Requests, DeleteSession(p) PROVE AuthTypeOK'
  BY <1>8 DEF DeleteSession
<1>9. ASSUME NEW p \in Requests, ReadPrimary(p) PROVE AuthTypeOK'
  BY <1>9 DEF ReadPrimary
<1>10. ASSUME NEW p \in Requests, DeletePrimary(p) PROVE AuthTypeOK'
  BY <1>10 DEF DeletePrimary
<1>11. ASSUME NEW p \in Requests, RequestDies(p) PROVE AuthTypeOK'
  BY <1>11 DEF RequestDies
<1>12. CASE UNCHANGED authVars
  BY <1>12 DEF authVars
<1>13. ASSUME HandoffExpires PROVE AuthTypeOK'
  BY <1>13 DEF HandoffExpires
<1>14. ASSUME CreateHandoff PROVE AuthTypeOK'
  BY <1>14, <1>a, SMTT(40) DEF CreateHandoff
<1>15. ASSUME NEW s \in Sids, SessionExpires(s) PROVE AuthTypeOK'
  BY <1>15 DEF SessionExpires
<1>16. ASSUME NEW p \in Requests, UpdatePassword(p) PROVE AuthTypeOK'
  <2>1. Cardinality(Updating) \in Nat \ {0} /\ password + Cardinality(Updating) <= closings + 1
    <3>1. p \in Updating
      BY <1>16 DEF UpdatePassword, Updating
    <3>2. IsFiniteSet(Updating) /\ Cardinality(Updating) \in Nat
      BY FS_CardinalityType DEF UpdatesCounted
    <3> QED BY <3>1, <3>2, FS_EmptySet DEF UpdatesCounted
  <2>2. password' = password + 1 /\ password' \in 1..MaxClosings + 1
    BY <1>16, <2>1 DEF UpdatePassword
  <2>3. begunWith' \in [Sids -> 0..password'] /\ knows' \in [Requests -> 0..password']
        /\ handoff' \in 0..password'
    BY <1>16, <2>2 DEF UpdatePassword
  <2> QED BY <1>16, <2>2, <2>3 DEF UpdatePassword
<1>17. ASSUME NEW p \in Requests, ReadKept(p) PROVE AuthTypeOK'
  <2>1. excused' \subseteq Sids
    BY <1>17, <1>a DEF ReadKept
  <2>2. sid' \in [Requests -> 1..opened \cup {NoSession}]
    BY <1>17 DEF ReadKept
  <2>3. pc' \in [Requests -> {"idle", "create", "logout", "read", "unset"} \cup Closing]
    BY <1>17 DEF ReadKept
  <2> QED BY <1>17, <2>1, <2>2, <2>3 DEF ReadKept
<1>18. ASSUME NEW p \in Requests, ListForUser(p) PROVE AuthTypeOK'
  <2>1. Listed \subseteq Sids
    <3>1. \A i \in 1..Len(logins) : logins[i] \in 1..opened
      BY SMTT(40)
    <3> QED BY <3>1, <1>a DEF Listed
  <2>2. found' \in [Requests -> SUBSET Sids]
    BY <1>18, <2>1 DEF ListForUser
  <2>3. pc' \in [Requests -> {"idle", "create", "logout", "read", "unset"} \cup Closing]
    BY <1>18 DEF ListForUser
  <2> QED BY <1>18, <2>2, <2>3 DEF ListForUser
<1>19. ASSUME NEW p \in Requests, ResetLogins(p) PROVE AuthTypeOK'
  <2>1. logins' \in Seq(1..opened) /\ Len(logins') <= MaxLogins
    <3>1. CASE sid[p] = NoSession
      BY <1>19, <3>1 DEF ResetLogins
    <3>2. CASE sid[p] # NoSession
      <4>1. sid[p] \in 1..opened /\ logins' = <<sid[p]>>
        BY <1>19, <3>2 DEF ResetLogins
      <4> QED BY <4>1
    <3> QED BY <3>1, <3>2
  <2> QED BY <1>19, <2>1, <1>a DEF ResetLogins
<1>20. ASSUME NEW p \in Requests, RedisReadFails(p) PROVE AuthTypeOK'
  <2>1. excused' \subseteq Sids
    BY <1>20, <1>a DEF RedisReadFails
  <2>3. sid' \in [Requests -> 1..opened \cup {NoSession}]
    BY <1>20 DEF RedisReadFails
  <2>2. pc' \in [Requests -> {"idle", "create", "logout", "read", "unset"} \cup Closing]
    BY <1>20 DEF RedisReadFails
  <2> QED BY <1>20, <2>1, <2>2, <2>3 DEF RedisReadFails
<1>21. ASSUME NEW p \in Requests, CreateForUser(p) PROVE AuthTypeOK'
  <2>1. opened' = opened + 1 /\ opened' \in Sids /\ 1..opened \subseteq 1..opened'
    BY <1>21 DEF CreateForUser
  <2>2. logins' \in Seq(1..opened') /\ Len(logins') <= MaxLogins
    BY <1>21, <2>1, CreatedLogin
  <2>3. excused' \subseteq Sids
    <3>1. Len(logins) = MaxLogins => logins[MaxLogins] \in Sids
      OBVIOUS
    <3> QED BY <1>21, <2>1, <3>1 DEF CreateForUser
  <2>4. begunWith' \in [Sids -> 0..password]
    BY <1>21, <2>1 DEF CreateForUser
  <2>5. sid' \in [Requests -> 1..opened' \cup {NoSession}]
    BY <1>21, <2>1 DEF CreateForUser
  <2>6. live' \subseteq 1..opened' /\ primary' \in Sids
    BY <1>21, <2>1 DEF CreateForUser
  <2>7. pc' \in [Requests -> {"idle", "create", "logout", "read", "unset"} \cup Closing]
        /\ knows' \in [Requests -> 0..password]
    BY <1>21 DEF CreateForUser
  <2>8. UNCHANGED <<closings, authBudget, password, handoff, found>>
    BY <1>21 DEF CreateForUser
  <2>9. /\ opened' \in 0..MaxSessions /\ primary' \in Sids \cup {NoSession}
        /\ begunWith' \in [Sids -> 0..password'] /\ knows' \in [Requests -> 0..password']
        /\ authBudget' \in 0..MaxAuthFaults
        /\ password' \in 1..MaxClosings + 1 /\ closings' \in 0..MaxClosings
        /\ handoff' \in 0..password'
        /\ found' \in [Requests -> SUBSET Sids]
    BY <2>1, <2>4, <2>6, <2>7, <2>8
  <2> HIDE DEF Sids, Closing
  <2> QED BY <2>2, <2>3, <2>5, <2>6, <2>7, <2>9
<1> QED
  BY <1>1, <1>2, <1>3, <1>4, <1>5, <1>6, <1>7, <1>8, <1>9, <1>10, <1>11, <1>12, <1>13, <1>14, <1>15, <1>16, <1>17, <1>18, <1>19, <1>20, <1>21 DEF AuthNext

(* A step that opens no session and only lets a request into the closing   *)
(* at its beginning leaves what closing requests see alone.                *)
LEMMA ClosingsGoOn ==
    ASSUME LoginsListed, ClosingsCover, OldAwaitClosing,
           live' \subseteq live, UNCHANGED <<logins, begunWith, password, excused>>,
           \A p \in Requests :
               /\ pc'[p] \in {"list", "delete", "reset"}
                    => pc'[p] = pc[p] /\ sid'[p] = sid[p] /\ found'[p] = found[p]
               /\ pc[p] \in {"kept", "list", "delete"} => pc'[p] = pc[p]
    PROVE  LoginsListed' /\ ClosingsCover' /\ OldAwaitClosing'
<1>1. LoginsListed'
  BY DEF LoginsListed, Listed
<1>2. ClosingsCover'
  BY DEF ClosingsCover
<1>3. OldAwaitClosing'
  BY DEF OldAwaitClosing
<1> QED BY <1>1, <1>2, <1>3

LEMMA ClosingStep ==
    ASSUME AuthInv, [AuthNext]_authVars PROVE LoginsListed' /\ ClosingsCover' /\ OldAwaitClosing'
<1> USE DEF Step
<1>a. /\ LoginsListed /\ ClosingsCover /\ OldAwaitClosing
      /\ pc = [q \in Requests |-> pc[q]] /\ sid = [q \in Requests |-> sid[q]]
      /\ found = [q \in Requests |-> found[q]]
  BY DEF AuthInv, AuthTypeOK
(* Steps outside of the closing, and into it.                              *)
<1>1. ASSUME NEW p \in Requests, ValidateUser(p) PROVE LoginsListed' /\ ClosingsCover' /\ OldAwaitClosing'
  BY <1>1, <1>a, ClosingsGoOn DEF ValidateUser, store, request
<1>2. ASSUME NEW p \in Requests, ReuseSession(p) PROVE LoginsListed' /\ ClosingsCover' /\ OldAwaitClosing'
  BY <1>2, <1>a, ClosingsGoOn DEF ReuseSession, store, request
<1>3. ASSUME NEW p \in Requests, ConsumeHandoff(p) PROVE LoginsListed' /\ ClosingsCover' /\ OldAwaitClosing'
  BY <1>3, <1>a, ClosingsGoOn DEF ConsumeHandoff, store, request
<1>4. ASSUME NEW p \in Requests, VerifyCurrentPassword(p) PROVE LoginsListed' /\ ClosingsCover' /\ OldAwaitClosing'
  BY <1>4, <1>a, ClosingsGoOn DEF VerifyCurrentPassword, store, request
<1>5. ASSUME NEW p \in Requests, RevokeOtherSessions(p) PROVE LoginsListed' /\ ClosingsCover' /\ OldAwaitClosing'
  BY <1>5, <1>a, ClosingsGoOn DEF RevokeOtherSessions, store, request
<1>6. ASSUME NEW p \in Requests, Logout(p) PROVE LoginsListed' /\ ClosingsCover' /\ OldAwaitClosing'
  BY <1>6, <1>a, ClosingsGoOn DEF Logout, store, request
<1>7. ASSUME NEW p \in Requests, DeleteSession(p) PROVE LoginsListed' /\ ClosingsCover' /\ OldAwaitClosing'
  BY <1>7, <1>a, ClosingsGoOn DEF DeleteSession, store, request
<1>8. ASSUME NEW p \in Requests, ReadPrimary(p) PROVE LoginsListed' /\ ClosingsCover' /\ OldAwaitClosing'
  BY <1>8, <1>a, ClosingsGoOn DEF ReadPrimary, store, request
<1>9. ASSUME NEW p \in Requests, DeletePrimary(p) PROVE LoginsListed' /\ ClosingsCover' /\ OldAwaitClosing'
  BY <1>9, <1>a, ClosingsGoOn DEF DeletePrimary, store, request
<1>10. CASE CreateHandoff \/ HandoffExpires \/ UNCHANGED authVars \/ \E s \in Sids : SessionExpires(s)
  BY <1>10, <1>a, ClosingsGoOn
  DEF CreateHandoff, HandoffExpires, authVars, SessionExpires, store, request
(* The steps of a closing request.                                        *)
<1>11. ASSUME NEW p \in Requests, UpdatePassword(p) PROVE LoginsListed' /\ ClosingsCover' /\ OldAwaitClosing'
  BY <1>11, <1>a DEF UpdatePassword, store, request, LoginsListed, Listed, ClosingsCover, OldAwaitClosing
<1>12. ASSUME NEW p \in Requests, ReadKept(p) PROVE LoginsListed' /\ ClosingsCover' /\ OldAwaitClosing'
  <2>1. excused \subseteq excused' /\ UNCHANGED <<live, logins, begunWith, password, found>>
    BY <1>12 DEF ReadKept
  <2>2. sid'[p] \in excused' \cup {NoSession} /\ \A q \in Requests \ {p} : sid'[q] = sid[q]
    BY <1>12, <1>a DEF ReadKept
  <2>3. pc'[p] = "list" /\ \A q \in Requests \ {p} : pc'[q] = pc[q]
    BY <1>12, <1>a DEF ReadKept
  <2>4. LoginsListed'
    BY <2>1, <1>a DEF LoginsListed, Listed
  <2>5. ClosingsCover'
    BY <2>1, <2>2, <2>3, <1>a DEF ClosingsCover
  <2>6. OldAwaitClosing'
    BY <2>1, <2>3, <1>a DEF OldAwaitClosing
  <2> QED BY <2>4, <2>5, <2>6
<1>13. ASSUME NEW p \in Requests, ListForUser(p) PROVE LoginsListed' /\ ClosingsCover' /\ OldAwaitClosing'
  <2>1. live \ excused \subseteq Listed \ {sid[p]}
    <3>1. NoSession \notin live
      <4>1. opened \in 0..MaxSessions /\ live \subseteq 1..opened
        BY DEF AuthInv, AuthTypeOK
      <4>2. 1..opened \subseteq 1..MaxSessions
        BY <4>1, AuthAssumption
      <4> QED BY <4>1, <4>2, AuthAssumption
    <3> QED BY <1>13, <1>a, <3>1 DEF ListForUser, LoginsListed, ClosingsCover
  <2>2. found'[p] = Listed \ {sid[p]} /\ \A q \in Requests \ {p} : found'[q] = found[q]
    BY <1>13, <1>a DEF ListForUser
  <2>3. UNCHANGED <<live, logins, begunWith, password, excused, sid>>
    BY <1>13 DEF ListForUser, store
  <2>4. pc'[p] = "delete" /\ \A q \in Requests \ {p} : pc'[q] = pc[q]
    BY <1>13, <1>a DEF ListForUser
  <2> QED BY <2>1, <2>2, <2>3, <2>4, <1>a DEF LoginsListed, Listed, ClosingsCover, OldAwaitClosing
<1>14. ASSUME NEW p \in Requests, DeleteListed(p) PROVE LoginsListed' /\ ClosingsCover' /\ OldAwaitClosing'
  <2>1. live' \subseteq excused
    BY <1>14, <1>a DEF DeleteListed, ClosingsCover
  <2>2. UNCHANGED <<logins, begunWith, password, excused, sid, found>>
    BY <1>14 DEF DeleteListed, request
  <2>3. live' \subseteq live /\ \A q \in Requests : pc'[q] = "list" => pc[q] = "list"
    BY <1>14, <1>a DEF DeleteListed
  <2> QED BY <2>1, <2>2, <2>3, <1>a DEF LoginsListed, ClosingsCover, OldAwaitClosing
<1>15. ASSUME NEW p \in Requests, ResetLogins(p) PROVE LoginsListed' /\ ClosingsCover' /\ OldAwaitClosing'
  <2>1. live' \subseteq excused'
    BY <1>15, <1>a DEF ResetLogins, ClosingsCover
  <2>2. UNCHANGED <<excused>> /\ \A q \in Requests : pc'[q] = "list" => pc[q] = "list" /\ sid'[q] = sid[q]
    BY <1>15, <1>a DEF ResetLogins
  <2> QED BY <2>1, <2>2, <1>a DEF LoginsListed, ClosingsCover, OldAwaitClosing
<1>16. ASSUME NEW p \in Requests, RedisReadFails(p) PROVE LoginsListed' /\ ClosingsCover' /\ OldAwaitClosing'
  <2>1. UNCHANGED <<live, logins, begunWith, password, found>>
    BY <1>16 DEF RedisReadFails
  <2>2. CASE Step(p, "list", "delete") /\ excused' = excused \cup live /\ UNCHANGED sid
    <3>1. \A q \in Requests : pc'[q] = "list" => pc[q] = "list" /\ sid'[q] = sid[q]
      BY <2>2, <1>a
    <3> QED BY <2>1, <2>2, <3>1, <1>a DEF LoginsListed, ClosingsCover, OldAwaitClosing
  <2>3. CASE Step(p, "kept", "list") /\ sid' = [sid EXCEPT ![p] = NoSession] /\ UNCHANGED excused
    <3>1. pc'[p] = "list" /\ \A q \in Requests \ {p} : pc'[q] = pc[q]
      BY <2>3, <1>a
    <3>2. sid'[p] = NoSession /\ \A q \in Requests \ {p} : sid'[q] = sid[q]
      BY <2>3, <1>a
    <3>3. LoginsListed' /\ ClosingsCover'
      BY <2>1, <2>3, <3>1, <3>2, <1>a DEF LoginsListed, Listed, ClosingsCover
    <3>4. OldAwaitClosing'
      BY <2>1, <2>3, <3>1, <1>a DEF OldAwaitClosing
    <3> QED BY <3>3, <3>4
  <2> QED BY <1>16, <2>2, <2>3 DEF RedisReadFails
<1>17. ASSUME NEW p \in Requests, RequestDies(p) PROVE LoginsListed' /\ ClosingsCover' /\ OldAwaitClosing'
  <2>1. CASE pc[p] \in {"kept", "list", "delete"}
    <3>1. live' \subseteq excused' /\ excused \subseteq excused'
      BY <1>17, <2>1 DEF RequestDies
    <3>2. \A q \in Requests : pc'[q] = "list" => pc[q] = "list" /\ sid'[q] = sid[q]
      BY <1>17, <1>a DEF RequestDies
    <3> QED
      BY <1>a, <3>1, <3>2 DEF LoginsListed, ClosingsCover, OldAwaitClosing
  <2>2. CASE pc[p] \notin {"kept", "list", "delete"}
    BY <1>17, <1>a, <2>2, ClosingsGoOn DEF RequestDies
  <2> QED BY <2>1, <2>2
(* A new session is excused unless it is begun with the current password   *)
(* and no request has read the list; the one it pushes off the list is too. *)
<1>18. ASSUME NEW p \in Requests, CreateForUser(p) PROVE LoginsListed' /\ ClosingsCover' /\ OldAwaitClosing'
  <2>a. AuthTypeOK
    BY DEF AuthInv
  <2>1. live' = live \cup {opened'} /\ opened' \notin live /\ UNCHANGED <<password, found, sid>>
    BY <1>18, <2>a DEF CreateForUser, AuthTypeOK
  <2>2. \A s \in live : begunWith'[s] = begunWith[s]
    BY <1>18, <2>a, <2>1 DEF CreateForUser, AuthTypeOK
  <2>3. begunWith'[opened'] = knows[p]
    <3>1. opened' = opened + 1 /\ opened < MaxSessions /\ opened \in 0..MaxSessions
      BY <1>18, <2>a DEF CreateForUser, AuthTypeOK
    <3>2. opened' \in Sids
      BY <3>1, AuthAssumption DEF Sids
    <3> QED BY <1>18, <2>a, <3>2 DEF CreateForUser, AuthTypeOK
  <2>4. excused \subseteq excused' /\ (Len(logins) = MaxLogins => logins[MaxLogins] \in excused')
    BY <1>18 DEF CreateForUser
  <2>5. opened' \notin excused' => /\ ~ (knows[p] < password)
                                   /\ \A q \in Requests : pc[q] \notin {"delete", "reset"}
    BY <1>18 DEF CreateForUser
  <2>6. opened' \notin excused' => knows[p] = password
    <3>1. knows[p] \in 0..password /\ password \in Nat
      BY <2>a, AuthAssumption DEF AuthTypeOK
    <3> QED BY <2>5, <3>1
  <2>7. pc'[p] = "idle" /\ pc[p] = "create" /\ \A q \in Requests \ {p} : pc'[q] = pc[q]
    BY <1>18, <1>a DEF CreateForUser
  <2>8. LoginsListed'
    <3>1. /\ logins' \in Seq(1..opened') /\ Len(logins') > 0 /\ logins'[1] = opened'
          /\ \A i \in 1..Len(logins) : i < MaxLogins =>
                 i + 1 \in 1..Len(logins') /\ logins'[i + 1] = logins[i]
      BY <1>18, <2>a, CreatedLogin
    <3>2. opened' \in Listed'
      BY <3>1 DEF Listed
    <3>3. ASSUME NEW s \in live \ excused, s \notin excused' PROVE s \in Listed'
      <4>1. PICK i \in 1..Len(logins) : s = logins[i]
        BY <1>a DEF LoginsListed, Listed
      <4>2. Len(logins) <= MaxLogins /\ Len(logins) \in Nat /\ MaxLogins \in Nat
        BY <2>a, AuthAssumption DEF AuthTypeOK
      <4>3. i < MaxLogins
        BY <2>4, <3>3, <4>1, <4>2
      <4>4. i + 1 \in 1..Len(logins') /\ logins'[i + 1] = s
        BY <3>1, <4>1, <4>3
      <4> QED BY <4>4 DEF Listed
    <3> QED BY <2>1, <2>4, <3>2, <3>3 DEF LoginsListed
  <2>9. ClosingsCover'
    BY <1>a, <2>1, <2>4, <2>5, <2>7 DEF ClosingsCover
  <2>10. OldAwaitClosing'
    BY <1>a, <2>1, <2>2, <2>3, <2>4, <2>6, <2>7 DEF OldAwaitClosing
  <2> QED BY <2>8, <2>9, <2>10
<1> QED
  BY <1>1, <1>2, <1>3, <1>4, <1>5, <1>6, <1>7, <1>8, <1>9, <1>10, <1>11, <1>12, <1>13, <1>14, <1>15, <1>16, <1>17, <1>18 DEF AuthNext

LEMMA AuthStep == AuthInv /\ [AuthNext]_authVars => AuthInv'
  BY CountStep, AuthTypeStep, ClosingStep DEF AuthInv

LEMMA AuthStarts == AuthInit => AuthInv
<1> SUFFICES ASSUME AuthInit PROVE AuthInv
  OBVIOUS
<1>1. Updating = {}
  BY DEF AuthInit, Updating
<1>2. UpdatesCounted
  BY <1>1, FS_EmptySet, AuthAssumption DEF AuthInit, UpdatesCounted
<1>3. AuthTypeOK
  BY AuthAssumption DEF AuthInit, AuthTypeOK, Sids, Closing
<1> QED
  BY <1>2, <1>3 DEF AuthInit, AuthInv, LoginsListed, ClosingsCover, OldAwaitClosing

LEMMA AuthInvCloses == AuthInv => OldSessionsClosed
  BY DEF AuthInv, OldAwaitClosing, OldSessionsClosed, Closing

(* changePassword: for any number of requests, sessions and changes, and   *)
(* whatever dies or fails, a change of the password that is over has left  *)
(* no session of an older one but those that are excused.                  *)
THEOREM OldSessionsAreClosed == AuthSpec => []OldSessionsClosed
  BY AuthInvCloses, AuthStarts, AuthStep, PTL DEF AuthSpec

=============================================================================
