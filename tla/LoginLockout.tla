---------------------------- MODULE LoginLockout ----------------------------
(***************************************************************************)
(* The failed logins of one address in Redis: a counter that expires, and  *)
(* the lock it leads to.  Every Redis command is a step of its request.    *)
(***************************************************************************)
EXTENDS Naturals

CONSTANTS Attempts,        \* logins at work at the same time
          LockoutAttempts, \* failed logins until the lock (20 in the code)
          MaxAttemptsLost  \* requests that die

ASSUME LockoutAssumption ==
    LockoutAttempts \in Nat \ {0, 1} /\ MaxAttemptsLost \in Nat

VARIABLES attemptsLost, \* requests that died
          attempt,      \* where each login is
          fails,        \* the counter, 0 when the key does not exist
          failsExpire,  \* the key has an expiry
          locked        \* the lock exists

lockoutVars == <<attemptsLost, attempt, fails, failsExpire, locked>>

LockoutTypeOK ==
    /\ attemptsLost \in 0..MaxAttemptsLost
    /\ attempt \in [Attempts -> {"idle", "verify", "incr", "expire", "lock", "clear"}]
    /\ fails \in Nat
    /\ failsExpire \in BOOLEAN /\ locked \in BOOLEAN

LockoutInit ==
    /\ attemptsLost = 0
    /\ attempt = [p \in Attempts |-> "idle"]
    /\ fails = 0 /\ failsExpire = FALSE /\ locked = FALSE

Attempt(p, from, to) == attempt[p] = from /\ attempt' = [attempt EXCEPT ![p] = to]

CheckLockout(p) ==
    /\ ~locked
    /\ Attempt(p, "idle", "verify")
    /\ UNCHANGED <<attemptsLost, fails, failsExpire, locked>>

(* validateUser: right, or wrong (UnauthorizedException).  What fails for  *)
(* another reason, a ForbiddenException of assertCatalogAccess or an error *)
(* of the database, neither counts nor clears.                             *)
ValidateAttempt(p) ==
    /\ \E to \in {"clear", "incr", "idle"} : Attempt(p, "verify", to)
    /\ UNCHANGED <<attemptsLost, fails, failsExpire, locked>>

\* Mutant: the expiry is set for the second failure.
IncrementFailsLate(p) ==
    /\ fails' = fails + 1
    /\ Attempt(p, "incr", IF fails = 1 THEN "expire"
                          ELSE IF fails' >= LockoutAttempts THEN "lock" ELSE "idle")
    /\ UNCHANGED <<attemptsLost, failsExpire, locked>>

(* recordFailedAttempt: INCR, EXPIRE for the first, and at the limit SET of *)
(* the lock and DEL of the counter.                                        *)
IncrementFails(p) ==
    /\ fails' = fails + 1
    /\ Attempt(p, "incr", IF fails' = 1 THEN "expire"
                          ELSE IF fails' >= LockoutAttempts THEN "lock" ELSE "idle")
    /\ UNCHANGED <<attemptsLost, failsExpire, locked>>

ExpireFails(p) ==
    /\ Attempt(p, "expire", "idle")
    /\ failsExpire' = (fails > 0)
    /\ UNCHANGED <<attemptsLost, fails, locked>>

SetLockout(p) ==
    /\ Attempt(p, "lock", "clear")
    /\ locked' = TRUE
    /\ UNCHANGED <<attemptsLost, fails, failsExpire>>

(* DEL of the counter: the end of recordFailedAttempt at the limit, and    *)
(* clearFailedAttempts after a login.                                      *)
ClearFailedAttempts(p) ==
    /\ Attempt(p, "clear", "idle")
    /\ fails' = 0 /\ failsExpire' = FALSE
    /\ UNCHANGED <<attemptsLost, locked>>

FailsWindowPasses ==
    /\ failsExpire
    /\ fails' = 0 /\ failsExpire' = FALSE
    /\ UNCHANGED <<attemptsLost, attempt, locked>>

LockoutPasses ==
    /\ locked
    /\ locked' = FALSE
    /\ UNCHANGED <<attemptsLost, attempt, fails, failsExpire>>

AttemptDies(p) ==
    /\ attemptsLost < MaxAttemptsLost /\ attempt[p] # "idle"
    /\ attemptsLost' = attemptsLost + 1
    /\ attempt' = [attempt EXCEPT ![p] = "idle"]
    /\ UNCHANGED <<fails, failsExpire, locked>>

LockoutNext ==
    \/ \E p \in Attempts :
          \/ CheckLockout(p) \/ ValidateAttempt(p) \/ IncrementFails(p) \/ ExpireFails(p)
          \/ SetLockout(p) \/ ClearFailedAttempts(p) \/ AttemptDies(p)
    \/ FailsWindowPasses \/ LockoutPasses

LockoutSpec == LockoutInit /\ [][LockoutNext]_lockoutVars
-----------------------------------------------------------------------------
(* Properties.                                                             *)

(* Whatever other logins do to the counter between the commands of one:    *)
(* a counter without an expiry is about to get one, and a counter at the   *)
(* limit is about to become a lock or to be deleted.  A request that dies  *)
(* between its commands may leave either behind.                           *)
CounterGuarded ==
    attemptsLost = 0 =>
        /\ fails > 0 /\ ~failsExpire => \E p \in Attempts : attempt[p] = "expire"
        /\ fails >= LockoutAttempts => \E p \in Attempts : attempt[p] \in {"lock", "clear"}
===========================================================================
