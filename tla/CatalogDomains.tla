--------------------------- MODULE CatalogDomains ---------------------------
(***************************************************************************)
(* Custom domains of catalogs.  An administrator attaches a hostname and   *)
(* gets a verification token; whoever holds the zone publishes the token   *)
(* and points the hostname at the platform; a manual check or the cron job *)
(* compares the two and activates the domain.  A row is read, the DNS is   *)
(* asked and the row is updated by id in separate steps.  Primary domains, *)
(* www and the legacy domain column are left out; TXT is required, as it   *)
(* is by default.                                                          *)
(***************************************************************************)
EXTENDS Naturals, Sequences, FiniteSets

CONSTANTS Catalogs,
          Hosts,          \* hostnames, unique over all catalogs
          HolderOf,       \* the catalog whose owner holds the zone of a hostname
          Pointed,        \* hostnames that resolve to the platform
          CheckLimit,     \* rows the cron job takes (25 in the code)
          MaxTokens,      \* tokens generated
          MaxDomainFaults \* database errors of the cron job

ASSUME DomainAssumption ==
    /\ "none" \notin Catalogs
    /\ HolderOf \in [Hosts -> Catalogs] /\ Pointed \subseteq Hosts
    /\ CheckLimit \in Nat \ {0} /\ MaxTokens \in Nat /\ MaxDomainFaults \in Nat

VARIABLES domain,       \* the row of each hostname
          created,      \* hostnames in the order of createdAt
          checked,      \* hostnames in the order of lastCheckedAt, where set
          zone,         \* the token its TXT record holds, 0 for none
          issued,       \* tokens generated so far
          asks,         \* the request of each catalog's administrator
          round,        \* rows the cron job has read and not yet updated
          verdict,      \* what the DNS said about the first of them
          domainBudget  \* database errors that may still happen

domainVars == <<domain, created, checked, zone, issued, asks, round, verdict,
                domainBudget>>

Absent == [catalog |-> "none", status |-> "ABSENT", token |-> 0]
Domains == {Absent} \cup [catalog : Catalogs,
                          status : {"PENDING_DNS", "ACTIVE", "FAILED", "DISABLED"},
                          token : 1..MaxTokens]
NoAsk == [step |-> "idle"]
Asks == {NoAsk}
        \cup [step : {"insert", "readd"}, host : Hosts]
        \cup [step : {"resolve", "pass", "fail"}, host : Hosts, token : 1..MaxTokens]
Snapshots == [host : Hosts, token : 1..MaxTokens]

DomainTypeOK ==
    /\ domain \in [Hosts -> Domains]
    /\ created \in Seq(Hosts) /\ checked \in Seq(Hosts)
    /\ zone \in [Hosts -> 0..MaxTokens]
    /\ issued \in 0..MaxTokens
    /\ asks \in [Catalogs -> Asks]
    /\ round \in Seq(Snapshots)
    /\ verdict \in {"none", "pass", "fail"}
    /\ domainBudget \in 0..MaxDomainFaults

DomainInit ==
    /\ domain = [h \in Hosts |-> Absent]
    /\ created = <<>> /\ checked = <<>>
    /\ zone = [h \in Hosts |-> 0]
    /\ issued = 0
    /\ asks = [c \in Catalogs |-> NoAsk]
    /\ round = <<>> /\ verdict = "none"
    /\ domainBudget = MaxDomainFaults

Answer(c) == asks' = [asks EXCEPT ![c] = NoAsk]
Pursue(c, ask) == asks[c] = NoAsk /\ asks' = [asks EXCEPT ![c] = ask]
(* s without h, which is in it once at most.                               *)
Others(s, h) ==
    LET spots == {i \in DOMAIN s : s[i] = h}
        i == CHOOSE k \in spots : TRUE
    IN  IF spots = {} THEN s ELSE SubSeq(s, 1, i - 1) \o SubSeq(s, i + 1, Len(s))
SetDomain(h, status) == domain' = [domain EXCEPT ![h].status = status]
cronState == <<round, verdict, domainBudget>>

\* Mutant: a hostname that resolves to the platform is enough.
VerifyDomainDnsWithoutTxt(h, token) == h \in Pointed

(* verifyDomainDns: the TXT record holds the token of the row that was     *)
(* read, and the hostname resolves to the platform.                        *)
VerifyDomainDns(h, token) == zone[h] = token /\ h \in Pointed
-----------------------------------------------------------------------------
(* The holder of a zone publishes the token its catalog was shown.  The    *)
(* record of a hostname that does not resolve decides nothing.             *)
PublishTxt(h) ==
    /\ h \in Pointed /\ domain[h].catalog = HolderOf[h]
    /\ zone[h] # domain[h].token
    /\ zone' = [zone EXCEPT ![h] = domain[h].token]
    /\ UNCHANGED <<domain, created, checked, issued, asks, cronState>>

RemoveTxt(h) ==
    /\ zone[h] # 0
    /\ zone' = [zone EXCEPT ![h] = 0]
    /\ UNCHANGED <<domain, created, checked, issued, asks, cronState>>

(* createCurrent reads: a hostname of another catalog, or one of its own   *)
(* that is not DISABLED, is refused.                                       *)
FindHostname(c, h) ==
    /\ issued < MaxTokens
    /\ \/ domain[h] = Absent /\ Pursue(c, [step |-> "insert", host |-> h])
       \/ /\ domain[h].catalog = c /\ domain[h].status = "DISABLED"
          /\ Pursue(c, [step |-> "readd", host |-> h])
    /\ UNCHANGED <<domain, created, checked, zone, issued, cronState>>

(* ... and inserts; the unique hostname lets one of two requests through.  *)
InsertDomain(c) ==
    LET h == asks[c].host IN
    /\ asks[c].step = "insert"
    /\ IF domain[h] = Absent
       THEN /\ issued < MaxTokens /\ issued' = issued + 1
            /\ domain' = [domain EXCEPT ![h] = [catalog |-> c, status |-> "PENDING_DNS",
                                                token |-> issued']]
            /\ created' = Append(created, h)
       ELSE UNCHANGED <<domain, created, issued>>
    /\ Answer(c)
    /\ UNCHANGED <<checked, zone, cronState>>

(* ... or updates its disabled row by id, with a token of its own.         *)
ReaddDomain(c) ==
    LET h == asks[c].host IN
    /\ asks[c].step = "readd"
    /\ issued < MaxTokens /\ issued' = issued + 1
    /\ domain' = [domain EXCEPT ![h].status = "PENDING_DNS", ![h].token = issued']
    /\ checked' = Others(checked, h)
    /\ Answer(c)
    /\ UNCHANGED <<created, zone, cronState>>

(* disableCurrent.                                                         *)
DisableDomain(c, h) ==
    /\ asks[c] = NoAsk
    /\ domain[h].catalog = c
    /\ SetDomain(h, "DISABLED")
    /\ UNCHANGED <<created, checked, zone, issued, asks, cronState>>
-----------------------------------------------------------------------------
(* checkCurrent: the row, whatever its status, the DNS, the update.        *)

RequireDomain(c, h) ==
    /\ domain[h].catalog = c
    /\ Pursue(c, [step |-> "resolve", host |-> h, token |-> domain[h].token])
    /\ UNCHANGED <<domain, created, checked, zone, issued, cronState>>

ResolveManual(c) ==
    LET ask == asks[c] IN
    /\ ask.step = "resolve"
    /\ asks' = [asks EXCEPT ![c].step =
                   IF VerifyDomainDns(ask.host, ask.token) THEN "pass" ELSE "fail"]
    /\ UNCHANGED <<domain, created, checked, zone, issued, cronState>>

RecordManual(c) ==
    LET ask == asks[c] IN
    /\ ask.step \in {"pass", "fail"}
    /\ SetDomain(ask.host, IF ask.step = "pass" THEN "ACTIVE" ELSE "PENDING_DNS")
    /\ checked' = Append(Others(checked, ask.host), ask.host)
    /\ Answer(c)
    /\ UNCHANGED <<created, zone, issued, cronState>>

(* A statement of a request throws: no handler, nothing is written.        *)
AskFails(c) ==
    /\ asks[c] # NoAsk
    /\ Answer(c)
    /\ UNCHANGED <<domain, created, checked, zone, issued, cronState>>
-----------------------------------------------------------------------------
(* The cron job: checkPendingDomains.                                      *)

PendingDns == {h \in Hosts : domain[h].status \in {"PENDING_DNS", "FAILED"}}

(* The order of listPendingDns: never checked first, by creation; then the *)
(* longest ago.                                                            *)
Queue == SelectSeq(created, LAMBDA h : \A i \in DOMAIN checked : checked[i] # h) \o checked
Earlier(g, h) == \E i, j \in DOMAIN Queue : i < j /\ Queue[i] = g /\ Queue[j] = h

(* The first CheckLimit rows in that order, or all of them.                *)
ListPendingDns ==
    \E n \in 1..CheckLimit : \E rows \in [1..n -> PendingDns] :
        /\ round = <<>>
        /\ n = Cardinality(PendingDns) \/ (n = CheckLimit /\ n < Cardinality(PendingDns))
        /\ \A i, j \in 1..n : i < j => Earlier(rows[i], rows[j])
        /\ \A i \in 1..n, h \in PendingDns :
              h \in {rows[j] : j \in 1..n} \/ Earlier(rows[i], h)
        /\ round' = [i \in 1..n |-> [host |-> rows[i], token |-> domain[rows[i]].token]]
        /\ UNCHANGED <<domain, created, checked, zone, issued, asks, verdict, domainBudget>>

ResolvePending ==
    /\ round # <<>> /\ verdict = "none"
    /\ verdict' = IF VerifyDomainDns(Head(round).host, Head(round).token)
                  THEN "pass" ELSE "fail"
    /\ UNCHANGED <<domain, created, checked, zone, issued, asks, round, domainBudget>>

(* The update of the row by id ends its turn.                              *)
RecordAs(h, status) ==
    /\ SetDomain(h, status)
    /\ checked' = Append(Others(checked, h), h)
    /\ round' = Tail(round) /\ verdict' = "none"
    /\ UNCHANGED <<created, zone, issued, asks>>

\* Mutant: lastCheckedAt is written for the domains that pass only.
RecordPendingUnmarked ==
    LET h == Head(round).host IN
    /\ verdict # "none"
    /\ SetDomain(h, IF verdict = "pass" THEN "ACTIVE" ELSE "PENDING_DNS")
    /\ checked' = IF verdict = "pass" THEN Append(Others(checked, h), h) ELSE checked
    /\ round' = Tail(round) /\ verdict' = "none"
    /\ UNCHANGED <<created, zone, issued, asks, domainBudget>>

RecordPending ==
    /\ verdict # "none"
    /\ RecordAs(Head(round).host, IF verdict = "pass" THEN "ACTIVE" ELSE "PENDING_DNS")
    /\ UNCHANGED domainBudget

(* The update throws: the handler of the error marks the row FAILED, or    *)
(* throws as well and ends the round.                                      *)
RecordFails ==
    /\ verdict # "none"
    /\ domainBudget > 0 /\ domainBudget' = domainBudget - 1
    /\ \/ RecordAs(Head(round).host, "FAILED")
       \/ /\ round' = <<>> /\ verdict' = "none"
          /\ UNCHANGED <<domain, created, checked, zone, issued, asks>>

DomainNext ==
    \/ \E h \in Hosts : PublishTxt(h) \/ RemoveTxt(h)
    \/ \E c \in Catalogs :
          \/ InsertDomain(c) \/ ReaddDomain(c) \/ ResolveManual(c) \/ RecordManual(c)
          \/ AskFails(c)
          \/ \E h \in Hosts : FindHostname(c, h) \/ DisableDomain(c, h) \/ RequireDomain(c, h)
    \/ ListPendingDns \/ ResolvePending \/ RecordPending \/ RecordFails

(* The cron job runs again and again and finishes its rounds.              *)
DomainFairness ==
    WF_domainVars(ListPendingDns) /\ WF_domainVars(ResolvePending) /\ WF_domainVars(RecordPending)

DomainSpec == DomainInit /\ [][DomainNext]_domainVars /\ DomainFairness
-----------------------------------------------------------------------------
(* Properties.                                                             *)

(* A hostname is served, and given a certificate, only for the catalog of  *)
(* the one who holds its zone, however checks with old tokens, disabling   *)
(* and attaching again interleave.                                         *)
ActiveIsProven ==
    \A h \in Hosts : domain[h].status = "ACTIVE" => domain[h].catalog = HolderOf[h]

(* A hostname whose records stay right is activated, or disabled by its    *)
(* administrator, although the cron job takes a limited number of rows and *)
(* others are never going to pass.                                         *)
DomainsActivate ==
    \A h \in Hosts :
        <>[](domain[h] # Absent /\ VerifyDomainDns(h, domain[h].token))
            => []<>(domain[h].status \in {"ACTIVE", "DISABLED"})
=============================================================================
