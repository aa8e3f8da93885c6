---------------------------- MODULE AuthSessions ----------------------------
(***************************************************************************)
(* The sessions of one user in Redis: the session keys, the primary        *)
(* session, the list of logins, and the handoff token that opens a         *)
(* catalog's site.                                                         *)
(* A Redis MULTI is one step; every other command of a request is a step.  *)
(* Passwords are numbered: a session remembers under which one it began.   *)
(***************************************************************************)
EXTENDS Naturals, Sequences

CONSTANTS Requests,        \* requests at work at the same time
          MaxSessions,     \* sessions opened in a behaviour
          MaxLogins,       \* length of the list of logins (20 in the code)
          MaxClosings,     \* changes of the password and revocations
          MaxAuthFaults,   \* requests that die and reads of Redis that fail
          NoSession

ASSUME AuthAssumption ==
    /\ MaxSessions \in Nat /\ MaxLogins \in Nat \ {0}
    /\ MaxClosings \in Nat
    /\ NoSession \notin 1..MaxSessions
    /\ MaxAuthFaults \in Nat

VARIABLES authBudget,  \* faults that may still happen
          live,        \* sessions whose key exists
          primary,     \* the primary session's key
          logins,      \* the list of logins, newest first
          opened,      \* sessions opened so far
          begunWith,   \* the password each session began with
          password,    \* the current password
          handoff,     \* password of the login that asked for the token, 0: none
          pc,          \* where each request is
          sid,         \* the session a request acts for
          knows,       \* the password a login was checked against
          found,       \* the sessions a request listed
          closings,    \* changes and revocations so far
          excused      \* sessions no change of password has to end

authVars == <<authBudget, live, primary, logins, opened, begunWith, password,
              handoff, pc, sid, knows, found, closings, excused>>

Sids == 1..MaxSessions
Listed == {logins[i] : i \in 1..Len(logins)}

Closing == {"update", "kept", "list", "delete", "reset"}

AuthTypeOK ==
    /\ authBudget \in 0..MaxAuthFaults
    /\ live \subseteq 1..opened
    /\ primary \in Sids \cup {NoSession}
    /\ logins \in Seq(1..opened) /\ Len(logins) <= MaxLogins
    /\ opened \in 0..MaxSessions
    /\ begunWith \in [Sids -> 0..password]
    /\ password \in 1..MaxClosings + 1 /\ closings \in 0..MaxClosings
    /\ handoff \in 0..password
    /\ pc \in [Requests -> {"idle", "create", "logout", "read", "unset"} \cup Closing]
    /\ sid \in [Requests -> 1..opened \cup {NoSession}]
    /\ knows \in [Requests -> 0..password]
    /\ found \in [Requests -> SUBSET Sids]
    /\ excused \subseteq Sids

AuthInit ==
    /\ authBudget = MaxAuthFaults
    /\ live = {} /\ primary = NoSession /\ logins = <<>> /\ opened = 0
    /\ begunWith = [s \in Sids |-> 0]
    /\ password = 1 /\ handoff = 0
    /\ pc = [p \in Requests |-> "idle"]
    /\ sid = [p \in Requests |-> NoSession]
    /\ knows = [p \in Requests |-> 0]
    /\ found = [p \in Requests |-> {}]
    /\ excused = {} /\ closings = 0

Step(p, from, to) == pc[p] = from /\ pc' = [pc EXCEPT ![p] = to]

Close == closings < MaxClosings /\ closings' = closings + 1

store == <<live, primary, logins, opened, begunWith, excused>>
request == <<sid, knows, found>>
-----------------------------------------------------------------------------
(* login and loginForCatalog.                                              *)

(* validateUser: the password is right; what a wrong one does is in        *)
(* LoginLockout.                                                           *)
ValidateUser(p) ==
    /\ Step(p, "idle", "create")
    /\ knows' = [knows EXCEPT ![p] = password]
    /\ UNCHANGED <<closings, authBudget, store, password, handoff, sid, found>>

(* tryReuseSession: the cookie names a session of the user that is alive.  *)
ReuseSession(p) ==
    /\ live # {}
    /\ Step(p, "create", "idle")
    /\ knows' = [knows EXCEPT ![p] = 0]
    /\ UNCHANGED <<closings, authBudget, store, password, handoff, sid, found>>

\* Mutant: the list of logins is not trimmed.
CreateForUserUntrimmed(p) ==
    /\ opened < MaxSessions
    /\ Step(p, "create", "idle")
    /\ opened' = opened + 1
    /\ live' = live \cup {opened'}
    /\ begunWith' = [begunWith EXCEPT ![opened'] = knows[p]]
    /\ primary' = opened'
    /\ logins' = <<opened'>> \o logins
    /\ knows' = [knows EXCEPT ![p] = 0]
    /\ UNCHANGED <<closings, authBudget, excused, password, handoff, sid, found>>

(* createForUser, one MULTI.  A session is excused from a change of the    *)
(* password when its login was checked against an older one, or when a     *)
(* closing request has read the list already; so is one that the limit     *)
(* drops from the list.                                                    *)
CreateForUser(p) ==
    /\ opened < MaxSessions
    /\ Step(p, "create", "idle")
    /\ opened' = opened + 1
    /\ live' = live \cup {opened'}
    /\ begunWith' = [begunWith EXCEPT ![opened'] = knows[p]]
    /\ primary' = opened'
    /\ logins' = SubSeq(<<opened'>> \o logins, 1,
                        IF Len(logins) < MaxLogins THEN Len(logins) + 1 ELSE MaxLogins)
    /\ excused' = excused
         \cup (IF \/ knows[p] < password
                  \/ \E q \in Requests : pc[q] \in {"delete", "reset"}
               THEN {opened'} ELSE {})
         \cup (IF Len(logins) = MaxLogins THEN {logins[MaxLogins]} ELSE {})
    /\ knows' = [knows EXCEPT ![p] = 0]
    /\ UNCHANGED <<closings, authBudget, password, handoff, sid, found>>

-----------------------------------------------------------------------------
(* The handoff token: issued to a session, consumed once by GETDEL, which  *)
(* opens a session without a password.                                     *)
CreateHandoff ==
    /\ live # {} /\ handoff = 0
    /\ handoff' \in {begunWith[s] : s \in live}
    /\ UNCHANGED <<closings, authBudget, store, password, pc, request>>

ConsumeHandoff(p) ==
    /\ handoff # 0
    /\ Step(p, "idle", "create")
    /\ knows' = [knows EXCEPT ![p] = handoff]
    /\ handoff' = 0
    /\ UNCHANGED <<closings, authBudget, store, password, sid, found>>

HandoffExpires ==
    /\ handoff # 0
    /\ handoff' = 0
    /\ UNCHANGED <<closings, authBudget, store, password, pc, request>>
-----------------------------------------------------------------------------
(* changePassword, and revokeOtherSessions, which enters after the update. *)

VerifyCurrentPassword(p) ==
    /\ Close
    /\ \E s \in live : sid' = [sid EXCEPT ![p] = s]
    /\ Step(p, "idle", "update")
    /\ UNCHANGED <<authBudget, store, password, handoff, knows, found>>

UpdatePassword(p) ==
    /\ Step(p, "update", "kept")
    /\ password' = password + 1
    /\ UNCHANGED <<closings, authBudget, store, handoff, request>>

RevokeOtherSessions(p) ==
    /\ Close
    /\ \E s \in live : sid' = [sid EXCEPT ![p] = s]
    /\ Step(p, "idle", "kept")
    /\ UNCHANGED <<authBudget, store, password, handoff, knows, found>>

(* destroyAllForUserExcept: the session to keep is gone, or it is kept     *)
(* although it began with an older password.                               *)
ReadKept(p) ==
    /\ Step(p, "kept", "list")
    /\ sid' = [sid EXCEPT ![p] = IF @ \in live THEN @ ELSE NoSession]
    /\ excused' = excused \cup ({sid[p]} \cap live)
    /\ UNCHANGED <<closings, authBudget, live, primary, logins, opened, begunWith, password,
                   handoff, knows, found>>

ListForUser(p) ==
    /\ Step(p, "list", "delete")
    /\ found' = [found EXCEPT ![p] = Listed \ {sid[p]}]
    /\ UNCHANGED <<closings, authBudget, store, password, handoff, sid, knows>>

\* Mutant: only the primary session is deleted.
DeletePrimaryOnly(p) ==
    /\ Step(p, "delete", "reset")
    /\ live' = live \ (found[p] \cap {primary})
    /\ UNCHANGED <<closings, authBudget, primary, logins, opened, begunWith, excused, password,
                   handoff, request>>

DeleteListed(p) ==
    /\ Step(p, "delete", "reset")
    /\ live' = live \ found[p]
    /\ UNCHANGED <<closings, authBudget, primary, logins, opened, begunWith, excused, password,
                   handoff, request>>

(* The last MULTI: the kept session becomes the primary one and the only   *)
(* one of the list, or both keys are deleted.                              *)
ResetLogins(p) ==
    /\ Step(p, "reset", "idle")
    /\ primary' = sid[p]
    /\ logins' = IF sid[p] = NoSession THEN <<>> ELSE <<sid[p]>>
    /\ sid' = [sid EXCEPT ![p] = NoSession]
    /\ found' = [found EXCEPT ![p] = {}]
    /\ UNCHANGED <<closings, authBudget, live, opened, begunWith, excused, password, handoff,
                   knows>>
-----------------------------------------------------------------------------
(* destroy, of a logout or of revokeSession.                               *)

Logout(p) ==
    /\ \E s \in live : sid' = [sid EXCEPT ![p] = s]
    /\ Step(p, "idle", "logout")
    /\ UNCHANGED <<closings, authBudget, store, password, handoff, knows, found>>

DeleteSession(p) ==
    /\ Step(p, "logout", "read")
    /\ live' = live \ {sid[p]}
    /\ UNCHANGED <<closings, authBudget, primary, logins, opened, begunWith, excused, password,
                   handoff, request>>

ReadPrimary(p) ==
    /\ Step(p, "read", IF primary = sid[p] THEN "unset" ELSE "idle")
    /\ sid' = [sid EXCEPT ![p] = IF primary = @ THEN @ ELSE NoSession]
    /\ UNCHANGED <<closings, authBudget, store, password, handoff, knows, found>>

DeletePrimary(p) ==
    /\ Step(p, "unset", "idle")
    /\ primary' = NoSession
    /\ sid' = [sid EXCEPT ![p] = NoSession]
    /\ UNCHANGED <<closings, authBudget, live, logins, opened, begunWith, excused, password,
                   handoff, knows, found>>

SessionExpires(s) ==
    /\ s \in live
    /\ live' = live \ {s}
    /\ primary' = IF primary = s THEN NoSession ELSE primary
    /\ UNCHANGED <<closings, authBudget, logins, opened, begunWith, excused, password, handoff,
                   pc, request>>
-----------------------------------------------------------------------------
(* Redis fails a read that the service answers for: listForUser returns    *)
(* the empty list and get returns null, and the request goes on.  Nothing  *)
(* is deleted then, and the sessions are off the list.                     *)
AuthFault == authBudget > 0 /\ authBudget' = authBudget - 1

RedisReadFails(p) ==
    /\ AuthFault
    /\ \/ Step(p, "list", "delete") /\ excused' = excused \cup live /\ UNCHANGED sid
       \/ /\ Step(p, "kept", "list") /\ sid' = [sid EXCEPT ![p] = NoSession]
          /\ UNCHANGED excused
    /\ UNCHANGED <<closings, live, primary, logins, opened, begunWith, password, handoff, knows,
                   found>>

(* The process dies; a change that dies before its end closes nothing.     *)
RequestDies(p) ==
    /\ AuthFault
    /\ pc[p] # "idle"
    /\ pc' = [pc EXCEPT ![p] = "idle"]
    /\ sid' = [sid EXCEPT ![p] = NoSession]
    /\ knows' = [knows EXCEPT ![p] = 0]
    /\ found' = [found EXCEPT ![p] = {}]
    /\ excused' = IF pc[p] \in {"kept", "list", "delete"} THEN excused \cup live
                  ELSE excused
    /\ UNCHANGED <<closings, live, primary, logins, opened, begunWith, password, handoff>>

AuthNext ==
    \/ \E p \in Requests :
          \/ ValidateUser(p) \/ ReuseSession(p) \/ CreateForUser(p)
          \/ ConsumeHandoff(p) \/ VerifyCurrentPassword(p)
          \/ UpdatePassword(p) \/ RevokeOtherSessions(p) \/ ReadKept(p)
          \/ ListForUser(p) \/ DeleteListed(p) \/ ResetLogins(p) \/ Logout(p)
          \/ DeleteSession(p) \/ ReadPrimary(p) \/ DeletePrimary(p)
          \/ RedisReadFails(p) \/ RequestDies(p)
    \/ CreateHandoff \/ HandoffExpires
    \/ \E s \in Sids : SessionExpires(s)

AuthSpec == AuthInit /\ [][AuthNext]_authVars
-----------------------------------------------------------------------------
(* Properties.                                                             *)

(* Once a change of the password is over, every session that is alive      *)
(* began with the current password, except the session that changed it,    *)
(* sessions the list of logins had dropped, sessions of logins that were   *)
(* under way during the change, and the ones a change that died or could   *)
(* not read the list has left.                                             *)
OldSessionsClosed ==
    (\A p \in Requests : pc[p] \notin Closing) =>
        \A s \in live : begunWith[s] = password \/ s \in excused
=============================================================================
