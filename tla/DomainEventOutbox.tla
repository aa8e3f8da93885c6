-------------------------- MODULE DomainEventOutbox --------------------------
(***************************************************************************)
(* The durable outbox of domain events (src/src/shared/domain-events): rows *)
(* in PostgreSQL, dispatchers that claim and deliver them, the in-process   *)
(* bus with its memory of handled events, the drain job, manual retries and *)
(* the cleanup.                                                            *)
(*                                                                         *)
(* A worker is one call of dispatchMany, drainPending or retryByIds; it     *)
(* runs in a process, shares that process's bus, and dies with it.  Each    *)
(* statement and each awaited handler is one step.                          *)
(***************************************************************************)
EXTENDS Integers, FiniteSets

CONSTANTS
    Event,        \* domain events, by eventId
    Process,      \* server processes
    Worker,       \* concurrent calls of the dispatcher
    ProcessOf,    \* the process of a worker
    Handlers,     \* number of handlers subscribed to an event
    MaxAttempts,  \* DEFAULT_MAX_ATTEMPTS
    MaxCrashes,   \* bound: crashes of a process and statements the database refuses
    Faults        \* subset of {"throw", "crash", "database", "slow"}

ASSUME OutboxAssumption ==
    /\ Event # {}
    /\ ProcessOf \in [Worker -> Process]
    /\ Handlers \in Nat \ {0} /\ MaxAttempts \in Nat \ {0} /\ MaxCrashes \in Nat
    /\ Faults \subseteq {"throw", "crash", "database", "slow"}

VARIABLES
    row,       \* row[e]: the outbox row of event e
    wk,        \* wk[w]: the call worker w runs
    handled,   \* handled[p], handling[p]: the bus's sets in process p
    handling,
    ran,       \* ran[e]: the handlers that returned normally for e, in any process
    published, \* events dispatchMany was called with
    crashes    \* crashes and refused statements so far

vars == <<row, wk, handled, handling, ran, published, crashes>>

----------------------------------------------------------------------------
Status == {"ABSENT", "PENDING", "PROCESSING", "PROCESSED", "FAILED", "DELETED"}

\* stale: lockedAt is older than DEFAULT_PROCESSING_STALE_MS
RowRecord == [status: Status, attempts: Nat, stale: BOOLEAN]

\* A call: what it is (mode), the rows it read and has not reached yet, the row
\* it works on and the next handler.
Call == [mode: {"none", "direct", "drain", "retry"},
         pc: {"idle", "find", "next", "enter", "handle", "processed", "failed"},
         todo: SUBSET Event, e: Event, h: 1..Handlers]

Idle == [mode |-> "none", pc |-> "idle", todo |-> {},
         e |-> CHOOSE e \in Event : TRUE, h |-> 1]

AllHandlers == 1..Handlers

\* w has claimed e and not yet marked it.
Working(w, e) == wk[w].e = e /\ wk[w].pc \in {"enter", "handle", "processed", "failed"}

Step(w, call) == wk' = [wk EXCEPT ![w] = call]

\* The next row of the loop in processRows; the call returns when there is none.
Onward(call) ==
    IF call.todo = {} THEN Idle ELSE [Idle EXCEPT !.mode = call.mode, !.pc = "next",
                                                 !.todo = call.todo]

Init ==
    /\ row = [e \in Event |-> [status |-> "ABSENT", attempts |-> 0, stale |-> FALSE]]
    /\ wk = [w \in Worker |-> Idle]
    /\ handled = [p \in Process |-> {}]
    /\ handling = [p \in Process |-> {}]
    /\ ran = [e \in Event |-> {}]
    /\ published = {}
    /\ crashes = 0

----------------------------------------------------------------------------
(* Writing and finding rows *)

\* createMany with skipDuplicates
Appended(S) ==
    [e \in Event |-> IF e \in S /\ row[e].status = "ABSENT"
                     THEN [row[e] EXCEPT !.status = "PENDING"] ELSE row[e]]

\* appendTx: the row commits with the business change it is about.
AppendTx(e) ==
    /\ row[e].status = "ABSENT" /\ e \notin published
    /\ row' = Appended({e})
    /\ UNCHANGED <<wk, handled, handling, ran, published, crashes>>

\* dispatchMany, called once for an event, whether or not appendTx has written it.
Dispatch(w, S) ==
    /\ wk[w].pc = "idle" /\ S # {} /\ S \cap published = {}
    /\ row' = Appended(S)
    /\ published' = published \cup S
    /\ Step(w, [Idle EXCEPT !.mode = "direct", !.pc = "find", !.todo = S])
    /\ UNCHANGED <<handled, handling, ran, crashes>>

FindDispatchable(w) ==
    /\ wk[w].pc = "find"
    /\ Step(w, Onward([wk[w] EXCEPT !.todo =
                          {e \in wk[w].todo : row[e].status \in {"PENDING", "FAILED"}}]))
    /\ UNCHANGED <<row, handled, handling, ran, published, crashes>>

\* Mutant: the drain leaves rows of a dead worker alone.
ClaimableFresh(r) == r.status \in {"PENDING", "FAILED"}

\* What a worker may claim; the drain also looks at the attempts.
Claimable(r) == r.status \in {"PENDING", "FAILED"} \/ (r.status = "PROCESSING" /\ r.stale)

Due(r) == Claimable(r) /\ r.attempts < MaxAttempts

Drain(w) ==
    LET due == {e \in Event : Due(row[e])} IN
    /\ wk[w].pc = "idle" /\ due # {}
    /\ Step(w, [Idle EXCEPT !.mode = "drain", !.pc = "next", !.todo = due])
    /\ UNCHANGED <<row, handled, handling, ran, published, crashes>>

\* A manual retry does not look at the attempts; the guard bounds the model.
Retry(w, S) ==
    LET found == {e \in S : row[e].status \in {"PENDING", "PROCESSING", "FAILED"}} IN
    /\ wk[w].pc = "idle" /\ found # {}
    /\ \A e \in found : row[e].attempts <= MaxAttempts
    /\ Step(w, [Idle EXCEPT !.mode = "retry", !.pc = "next", !.todo = found])
    /\ UNCHANGED <<row, handled, handling, ran, published, crashes>>

----------------------------------------------------------------------------
(* processRows *)

\* Mutant: whatever its status, the row read before is taken.
MarkProcessingAnyStatus(w, e) ==
    /\ wk[w].pc = "next" /\ e \in wk[w].todo
    /\ row' = [row EXCEPT ![e] = [status |-> "PROCESSING", attempts |-> @.attempts + 1,
                                  stale |-> FALSE]]
    /\ Step(w, [wk[w] EXCEPT !.pc = "enter", !.e = e, !.todo = @ \ {e}])
    /\ UNCHANGED <<handled, handling, ran, published, crashes>>

\* markProcessing: the claim, or a skip when another worker has the row.
MarkProcessing(w, e) ==
    /\ wk[w].pc = "next" /\ e \in wk[w].todo
    /\ \/ /\ Claimable(row[e])
          /\ row' = [row EXCEPT ![e] = [status |-> "PROCESSING", attempts |-> @.attempts + 1,
                                        stale |-> FALSE]]
          /\ Step(w, [wk[w] EXCEPT !.pc = "enter", !.e = e, !.todo = @ \ {e}])
       \/ /\ ~Claimable(row[e])
          /\ Step(w, Onward([wk[w] EXCEPT !.todo = @ \ {e}]))
          /\ UNCHANGED row
    /\ UNCHANGED <<handled, handling, ran, published, crashes>>

\* bus.dispatch: an event this process has handled, or is handling in another
\* call, is not delivered again, and the call returns normally.
EnterBus(w) ==
    LET p == ProcessOf[w]
        e == wk[w].e IN
    /\ wk[w].pc = "enter"
    /\ \/ /\ e \in handled[p] \cup handling[p]
          /\ Step(w, [wk[w] EXCEPT !.pc = "processed"])
          /\ UNCHANGED handling
       \/ /\ e \notin handled[p] \cup handling[p]
          /\ Step(w, [wk[w] EXCEPT !.pc = "handle", !.h = 1])
          /\ handling' = [handling EXCEPT ![p] = @ \cup {e}]
    /\ UNCHANGED <<row, handled, ran, published, crashes>>

\* Mutant: the loop over the handlers runs one past the end.
HandlerReturnsPastEnd(w) ==
    /\ wk[w].pc = "handle"
    /\ ran' = [ran EXCEPT ![wk[w].e] = @ \cup {wk[w].h}]
    /\ wk[w].h <= Handlers
    /\ Step(w, [wk[w] EXCEPT !.h = @ + 1])
    /\ UNCHANGED <<row, handled, handling, published, crashes>>

\* A handler returns; after the last one the event is handled.
HandlerReturns(w) ==
    LET p == ProcessOf[w]
        e == wk[w].e
        h == wk[w].h IN
    /\ wk[w].pc = "handle"
    /\ ran' = [ran EXCEPT ![e] = @ \cup {h}]
    /\ \/ /\ h < Handlers
          /\ Step(w, [wk[w] EXCEPT !.h = h + 1])
          /\ UNCHANGED <<handled, handling>>
       \/ /\ h = Handlers
          /\ Step(w, [wk[w] EXCEPT !.pc = "processed"])
          /\ handled' = [handled EXCEPT ![p] = @ \cup {e}]
          /\ handling' = [handling EXCEPT ![p] = @ \ {e}]
    /\ UNCHANGED <<row, published, crashes>>

\* Mutants: no finally; the event counts as handled although a handler threw.
HandlerThrowsLeaking(w) ==
    /\ "throw" \in Faults
    /\ wk[w].pc = "handle"
    /\ Step(w, [wk[w] EXCEPT !.pc = "failed"])
    /\ UNCHANGED <<row, handled, handling, ran, published, crashes>>
HandlerThrowsHandled(w) ==
    LET p == ProcessOf[w] IN
    /\ "throw" \in Faults
    /\ wk[w].pc = "handle"
    /\ Step(w, [wk[w] EXCEPT !.pc = "failed"])
    /\ handled' = [handled EXCEPT ![p] = @ \cup {wk[w].e}]
    /\ handling' = [handling EXCEPT ![p] = @ \ {wk[w].e}]
    /\ UNCHANGED <<row, ran, published, crashes>>

\* A handler throws: the event is not handled, and no longer being handled.
HandlerThrows(w) ==
    LET p == ProcessOf[w] IN
    /\ "throw" \in Faults
    /\ wk[w].pc = "handle"
    /\ Step(w, [wk[w] EXCEPT !.pc = "failed"])
    /\ handling' = [handling EXCEPT ![p] = @ \ {wk[w].e}]
    /\ UNCHANGED <<row, handled, ran, published, crashes>>

\* markProcessed and markFailed update by id, whatever the row's status is.
Mark(w, status) ==
    row' = [row EXCEPT ![wk[w].e] = [@ EXCEPT !.status = status, !.stale = FALSE]]

MarkProcessed(w) ==
    /\ wk[w].pc = "processed"
    /\ Mark(w, "PROCESSED")
    /\ Step(w, Onward(wk[w]))
    /\ UNCHANGED <<handled, handling, ran, published, crashes>>

\* dispatchMany rethrows and leaves its other rows to the drain.
MarkFailed(w) ==
    /\ wk[w].pc = "failed"
    /\ Mark(w, "FAILED")
    /\ Step(w, IF wk[w].mode = "direct" THEN Idle ELSE Onward(wk[w]))
    /\ UNCHANGED <<handled, handling, ran, published, crashes>>

\* The database refuses the statement w is at.  After bus.dispatch that is inside
\* the try, so the row is marked FAILED although it was delivered; anywhere else the
\* error ends the call and leaves the row as it is.
DatabaseFails(w) ==
    /\ "database" \in Faults /\ crashes < MaxCrashes
    /\ wk[w].pc \in {"find", "next", "processed", "failed"}
    /\ crashes' = crashes + 1
    /\ Step(w, IF wk[w].pc = "processed" THEN [wk[w] EXCEPT !.pc = "failed"] ELSE Idle)
    /\ UNCHANGED <<row, handled, handling, ran, published>>

----------------------------------------------------------------------------
(* The environment *)

\* DEFAULT_PROCESSING_STALE_MS pass.  Unless workers may be slow, a live worker is
\* done with a row before that.
GoStale(e) ==
    /\ row[e].status = "PROCESSING" /\ ~row[e].stale
    /\ "slow" \in Faults \/ \A w \in Worker : ~Working(w, e)
    /\ row' = [row EXCEPT ![e] = [@ EXCEPT !.stale = TRUE]]
    /\ UNCHANGED <<wk, handled, handling, ran, published, crashes>>

\* deleteProcessedBefore: the retention is days, so no worker has the row.
CleanUp(e) ==
    /\ row[e].status = "PROCESSED" /\ \A w \in Worker : ~Working(w, e)
    /\ row' = [row EXCEPT ![e] = [@ EXCEPT !.status = "DELETED"]]
    /\ UNCHANGED <<wk, handled, handling, ran, published, crashes>>

\* A process dies and starts again with an empty bus.
Crash(p) ==
    /\ "crash" \in Faults /\ crashes < MaxCrashes
    /\ crashes' = crashes + 1
    /\ wk' = [w \in Worker |-> IF ProcessOf[w] = p THEN Idle ELSE wk[w]]
    /\ handled' = [handled EXCEPT ![p] = {}]
    /\ handling' = [handling EXCEPT ![p] = {}]
    /\ UNCHANGED <<row, ran, published>>

Proceed(w) ==
    \/ FindDispatchable(w)
    \/ \E e \in Event : MarkProcessing(w, e)
    \/ EnterBus(w)
    \/ HandlerReturns(w)
    \/ HandlerThrows(w)
    \/ MarkProcessed(w)
    \/ MarkFailed(w)

Next ==
    \/ \E e \in Event : AppendTx(e) \/ GoStale(e) \/ CleanUp(e)
    \/ \E w \in Worker :
          \/ Drain(w)
          \/ \E S \in SUBSET Event : Dispatch(w, S) \/ Retry(w, S)
          \/ Proceed(w)
          \/ DatabaseFails(w)
    \/ \E p \in Process : Crash(p)

Spec == Init /\ [][Next]_vars

\* The drain runs every 30 seconds, in whichever process has a free worker; a
\* process runs its calls on.  Nothing makes a request or an operator come, nor a
\* handler succeed: it may throw every time.
Fairness ==
    /\ SF_vars(\E w \in Worker : Drain(w))
    /\ \A w \in Worker : WF_vars(Proceed(w))
    /\ \A e \in Event : WF_vars(GoStale(e))

FairSpec == Spec /\ Fairness

----------------------------------------------------------------------------
(* Properties *)

\* Rows, calls and the bus's sets keep their shape; a call never asks for a handler
\* beyond the last.
TypeOK ==
    /\ row \in [Event -> RowRecord]
    /\ wk \in [Worker -> Call]
    /\ handled \in [Process -> SUBSET Event]
    /\ handling \in [Process -> SUBSET Event]
    /\ ran \in [Event -> SUBSET AllHandlers]
    /\ published \subseteq Event
    /\ crashes \in Nat

\* At least once: an event is marked PROCESSED only when every handler has run to
\* its end, in this process or in one that died since.
ProcessedMeansDelivered ==
    \A e \in Event : row[e].status \in {"PROCESSED", "DELETED"} => ran[e] = AllHandlers

\* What counts as delivered is delivered, or about to be: a call at work on the event
\* either runs the rest of its handlers or marks the row FAILED by its id, whatever
\* status a later call gave it.  Otherwise the event is lost: some handler never saw
\* it and no drain takes it.
NothingLost ==
    \A e \in Event :
        \/ row[e].status \notin {"PROCESSED", "DELETED"}
        \/ ran[e] = AllHandlers
        \/ \E w \in Worker : wk[w].e = e /\ wk[w].pc \in {"handle", "failed"}

\* The bus forgets nothing: handling has exactly the events some live call is
\* delivering.  An event left behind in it would never be delivered again, and be
\* marked PROCESSED without it.
HandlingExact ==
    \A p \in Process :
        handling[p] = {wk[w].e : w \in {x \in Worker : ProcessOf[x] = p /\ wk[x].pc = "handle"}}

\* A worker that comes late never takes a delivered event back.
ProcessedIsFinal ==
    [][\A e \in Event : row[e].status = "PROCESSED" => row'[e].status \in {"PROCESSED", "DELETED"}]_vars

\* Every event written is delivered, or tried until the attempts are used up.
EventuallyDelivered ==
    \A e \in Event : (row[e].status = "PENDING")
        ~> (row[e].status \in {"PROCESSED", "DELETED"} \/ row[e].attempts >= MaxAttempts)

\* What a row says of its event to the outside.
Stored == {e \in Event : row[e].status # "ABSENT"}
Acknowledged == {e \in Event : row[e].status \in {"PROCESSED", "DELETED"}}

Delivery == INSTANCE EventDelivery WITH
                Events <- Event, HandlerCount <- Handlers,
                stored <- Stored, run <- ran, acknowledged <- Acknowledged

\* The outbox implements EventDelivery: claims, the bus's memory, drains, retries,
\* crashes and refused statements never show as anything but events stored, handlers
\* run in order on events still due, and one final acknowledgement after the last.
ImplementsDelivery == Delivery!DeliverySpec
=============================================================================
