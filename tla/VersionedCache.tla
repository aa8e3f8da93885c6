--------------------------- MODULE VersionedCache ---------------------------
(***************************************************************************)
(* The versioned read cache.  Cached answers live in Redis under keys that *)
(* carry the versions of the scopes they depend on (for a child catalog,   *)
(* its own and its parent's); a write commits to the database and then     *)
(* increments the version of its scope.  Old keys are never deleted: they  *)
(* are no longer asked for, and expire.  A value is what the database held *)
(* when it was read: the number of writes to each scope.                   *)
(***************************************************************************)
EXTENDS Naturals, FiniteSets

CONSTANTS Scopes,          \* the scopes an answer depends on
          Readers,         \* reads at work at the same time
          MaxWrites,       \* writes to a scope
          MaxCacheFaults   \* Redis commands that fail

ASSUME CacheAssumption ==
    /\ IsFiniteSet(Scopes) /\ Scopes # {}
    /\ MaxWrites \in Nat /\ MaxCacheFaults \in Nat

VARIABLES stored,       \* writes committed to each scope
          bumping,      \* writes of each scope whose bumpVersion is to come
          version,      \* the version key of each scope
          entries,      \* the cached answers: key and value
          reading,      \* where each read is
          unread,       \* scopes whose version a read has still to get
          cacheKey,     \* the versions it got
          answer,       \* what it returns
          due,          \* what it must return at least
          cacheBudget   \* Redis commands that may still fail

cacheVars == <<stored, bumping, version, entries, reading, unread, cacheKey,
               answer, due, cacheBudget>>

Versions == [Scopes -> 0..MaxWrites]
Zero == [s \in Scopes |-> 0]
AtLeast(x, y) == \A s \in Scopes : x[s] >= y[s]

(* The writes of a scope that are announced: all but the ones to be bumped.*)
Announced == [s \in Scopes |-> stored[s] - bumping[s]]

CacheTypeOK ==
    /\ stored \in Versions /\ bumping \in Versions /\ version \in Versions
    /\ entries \subseteq [key : Versions, value : Versions]
    /\ reading \in [Readers -> {"idle", "version", "get", "load", "set", "done"}]
    /\ unread \in [Readers -> SUBSET Scopes]
    /\ cacheKey \in [Readers -> Versions]
    /\ answer \in [Readers -> Versions] /\ due \in [Readers -> Versions]
    /\ cacheBudget \in 0..MaxCacheFaults

CacheInit ==
    /\ stored = Zero /\ bumping = Zero /\ version = Zero
    /\ entries = {}
    /\ reading = [p \in Readers |-> "idle"]
    /\ unread = [p \in Readers |-> {}]
    /\ cacheKey = [p \in Readers |-> Zero]
    /\ answer = [p \in Readers |-> Zero]
    /\ due = [p \in Readers |-> Zero]
    /\ cacheBudget = MaxCacheFaults

CacheFault == cacheBudget > 0 /\ cacheBudget' = cacheBudget - 1
Goes(p, from, to) == reading[p] = from /\ reading' = [reading EXCEPT ![p] = to]
reads == <<reading, unread, cacheKey, answer, due>>
-----------------------------------------------------------------------------
(* A write commits, and its handler or its event increments the version.   *)
CommitWrite(s) ==
    /\ stored[s] < MaxWrites
    /\ stored' = [stored EXCEPT ![s] = @ + 1]
    /\ bumping' = [bumping EXCEPT ![s] = @ + 1]
    /\ UNCHANGED <<version, entries, reads, cacheBudget>>

BumpVersion(s) ==
    /\ bumping[s] > 0
    /\ version' = [version EXCEPT ![s] = @ + 1]
    /\ bumping' = [bumping EXCEPT ![s] = @ - 1]
    /\ UNCHANGED <<stored, entries, reads, cacheBudget>>

(* bumpVersion swallows the error: the writer goes on as if it had worked. *)
BumpFails(s) ==
    /\ bumping[s] > 0
    /\ CacheFault
    /\ bumping' = [bumping EXCEPT ![s] = @ - 1]
    /\ UNCHANGED <<stored, version, entries, reads>>
-----------------------------------------------------------------------------
(* A read: build...CacheKey, getJson, the query, setJson.                  *)

BeginRead(p) ==
    /\ reading[p] \in {"idle", "done"}
    /\ reading' = [reading EXCEPT ![p] = "version"]
    /\ unread' = [unread EXCEPT ![p] = Scopes]
    /\ cacheKey' = [cacheKey EXCEPT ![p] = Zero]
    /\ answer' = [answer EXCEPT ![p] = Zero]
    /\ due' = [due EXCEPT ![p] = Announced]
    /\ UNCHANGED <<stored, bumping, version, entries, cacheBudget>>

(* getVersion of one scope; a version that cannot be read counts as 0.     *)
GetVersion(p, s) ==
    /\ reading[p] = "version" /\ s \in unread[p]
    /\ unread' = [unread EXCEPT ![p] = @ \ {s}]
    /\ reading' = [reading EXCEPT ![p] = IF unread[p] = {s} THEN "get" ELSE "version"]
    /\ \/ cacheKey' = [cacheKey EXCEPT ![p][s] = version[s]] /\ UNCHANGED cacheBudget
       \/ CacheFault /\ UNCHANGED cacheKey
    /\ UNCHANGED <<stored, bumping, version, entries, answer, due>>

(* getJson: a hit is the answer; a miss and an error lead to the database. *)
GetJson(p) ==
    /\ \/ \E e \in entries :
             /\ e.key = cacheKey[p]
             /\ answer' = [answer EXCEPT ![p] = e.value]
             /\ Goes(p, "get", "done")
             /\ UNCHANGED cacheBudget
       \/ /\ \A e \in entries : e.key # cacheKey[p]
          /\ Goes(p, "get", "load")
          /\ UNCHANGED <<answer, cacheBudget>>
       \/ Goes(p, "get", "load") /\ CacheFault /\ UNCHANGED answer
    /\ UNCHANGED <<stored, bumping, version, entries, unread, cacheKey, due>>

Load(p) ==
    /\ Goes(p, "load", "set")
    /\ answer' = [answer EXCEPT ![p] = stored]
    /\ UNCHANGED <<stored, bumping, version, entries, unread, cacheKey, due, cacheBudget>>

\* Mutant: the key of the answer is built when it is stored.
SetJsonLateKey(p) ==
    /\ Goes(p, "set", "done")
    /\ entries' = {e \in entries : e.key # version}
                     \cup {[key |-> version, value |-> answer[p]]}
    /\ UNCHANGED <<stored, bumping, version, unread, cacheKey, answer, due, cacheBudget>>

(* setJson overwrites what is there; an error is swallowed.                *)
SetJson(p) ==
    /\ Goes(p, "set", "done")
    /\ \/ /\ entries' = {e \in entries : e.key # cacheKey[p]}
                          \cup {[key |-> cacheKey[p], value |-> answer[p]]}
          /\ UNCHANGED cacheBudget
       \/ CacheFault /\ UNCHANGED entries
    /\ UNCHANGED <<stored, bumping, version, unread, cacheKey, answer, due>>

\* Mutant: answers under the current key have no time to live.
ExpireOldEntry(k) ==
    /\ k # version
    /\ \E e \in entries : e.key = k
    /\ entries' = {e \in entries : e.key # k}
    /\ UNCHANGED <<stored, bumping, version, reads, cacheBudget>>

(* The time to live of an answer passes.                                   *)
ExpireEntry(k) ==
    /\ \E e \in entries : e.key = k
    /\ entries' = {e \in entries : e.key # k}
    /\ UNCHANGED <<stored, bumping, version, reads, cacheBudget>>

CacheNext ==
    \/ \E s \in Scopes : CommitWrite(s) \/ BumpVersion(s) \/ BumpFails(s)
    \/ \E p \in Readers :
          \/ BeginRead(p) \/ GetJson(p) \/ Load(p) \/ SetJson(p)
          \/ \E s \in Scopes : GetVersion(p, s)
    \/ \E k \in Versions : ExpireEntry(k)

(* Redis expires the keys.                                                 *)
CacheFairness == \A k \in Versions : WF_cacheVars(ExpireEntry(k))

CacheSpec == CacheInit /\ [][CacheNext]_cacheVars /\ CacheFairness
-----------------------------------------------------------------------------
(* Properties.                                                             *)

(* A read returns every write that was announced before it began, however  *)
(* slow reads, writes and bumps interleave and whichever versions its key  *)
(* mixes, as long as Redis answers.                                        *)
ReadsFresh ==
    cacheBudget = MaxCacheFaults =>
        \A p \in Readers : reading[p] = "done" => AtLeast(answer[p], due[p])

(* After a lost bump or a version that could not be read, stale answers    *)
(* are only served until they expire: in the end what is cached is current.*)
StaleEnds == <>[](\A e \in entries : e.value = stored)
=============================================================================
