----------------------- MODULE DomainEventOutboxProofs -----------------------
(***************************************************************************)
(* Proofs about DomainEventOutbox, for any number of events, processes,    *)
(* workers and handlers: the memory of the bus is exact, and as long as no *)
(* worker outlives the stale interval, delivery is at least once.           *)
(***************************************************************************)
EXTENDS DomainEventOutbox, TLAPS

----------------------------------------------------------------------------
LEMMA IdleType == Idle \in Call
  BY OutboxAssumption DEF Idle, Call

LEMMA OnwardType == ASSUME NEW c \in Call PROVE Onward(c) \in Call
  BY IdleType DEF Onward, Call

LEMMA StepType ==
  ASSUME TypeOK, NEW w \in Worker, NEW c \in Call, Step(w, c)
  PROVE  wk' \in [Worker -> Call]
  BY DEF TypeOK, Step

LEMMA AppendedType ==
  ASSUME TypeOK, NEW S PROVE Appended(S) \in [Event -> RowRecord]
  BY DEF TypeOK, Appended, RowRecord, Status

LEMMA MarkType ==
  ASSUME TypeOK, NEW w \in Worker, NEW s \in Status, Mark(w, s)
  PROVE  row' \in [Event -> RowRecord]
  <1>1. wk[w].e \in Event
    BY DEF TypeOK, Call
  <1> QED
    BY <1>1 DEF TypeOK, Mark, RowRecord

LEMMA ProceedTypeOK ==
  ASSUME TypeOK, NEW w \in Worker, Proceed(w) PROVE TypeOK'
  <1> DEFINE c == wk[w]
             p == ProcessOf[w]
  <1>1. c \in Call /\ c.e \in Event /\ c.h \in AllHandlers /\ p \in Process
    BY OutboxAssumption DEF TypeOK, Call, AllHandlers
  <1>2. CASE FindDispatchable(w)
    <2> DEFINE found == {e \in c.todo : row[e].status \in {"PENDING", "FAILED"}}
    <2>1. [c EXCEPT !.todo = found] \in Call
      BY <1>1 DEF Call
    <2>2. wk' \in [Worker -> Call]
      BY <1>2, <2>1, OnwardType, StepType DEF FindDispatchable
    <2> QED
      BY <1>2, <2>2 DEF FindDispatchable, TypeOK
  <1>3. ASSUME NEW e \in Event, MarkProcessing(w, e) PROVE TypeOK'
    <2>1. [c EXCEPT !.pc = "enter", !.e = e, !.todo = @ \ {e}] \in Call
      BY <1>1 DEF Call
    <2>2. [c EXCEPT !.todo = @ \ {e}] \in Call
      BY <1>1 DEF Call
    <2>3. wk' \in [Worker -> Call]
      BY <1>3, <2>1, <2>2, OnwardType, StepType DEF MarkProcessing
    <2>4. row' \in [Event -> RowRecord]
      <3> DEFINE r == [status |-> "PROCESSING", attempts |-> row[e].attempts + 1,
                       stale |-> FALSE]
      <3>1. row[e].attempts \in Nat
        BY DEF TypeOK, RowRecord
      <3>2. r \in RowRecord
        BY <3>1 DEF RowRecord, Status
      <3>3. row' = row \/ row' = [row EXCEPT ![e] = r]
        BY <1>3 DEF MarkProcessing
      <3> HIDE DEF r
      <3> QED
        BY <3>2, <3>3 DEF TypeOK
    <2> QED
      BY <1>3, <2>3, <2>4 DEF MarkProcessing, TypeOK
  <1>4. CASE EnterBus(w)
    <2>1. [c EXCEPT !.pc = "processed"] \in Call
      BY <1>1 DEF Call
    <2>2. [c EXCEPT !.pc = "handle", !.h = 1] \in Call
      <3>1. 1 \in 1..Handlers
        BY OutboxAssumption
      <3> QED
        BY <1>1, <3>1 DEF Call
    <2>3. wk' \in [Worker -> Call]
      BY <1>4, <2>1, <2>2, StepType DEF EnterBus
    <2>4. handling' \in [Process -> SUBSET Event]
      BY <1>1, <1>4 DEF EnterBus, TypeOK
    <2> QED
      BY <1>4, <2>3, <2>4 DEF EnterBus, TypeOK
  <1>5. CASE HandlerReturns(w)
    <2>1. [c EXCEPT !.pc = "processed"] \in Call
      BY <1>1 DEF Call
    <2>2. c.h < Handlers => c.h + 1 \in 1..Handlers
      BY <1>1, OutboxAssumption DEF AllHandlers
    <2>3. c.h < Handlers => [c EXCEPT !.h = c.h + 1] \in Call
      BY <1>1, <2>2 DEF Call
    <2>4. wk' \in [Worker -> Call]
      BY <1>5, <2>1, <2>3, StepType DEF HandlerReturns
    <2>5. ran' \in [Event -> SUBSET AllHandlers]
      BY <1>1, <1>5 DEF HandlerReturns, TypeOK
    <2>6. handled' \in [Process -> SUBSET Event] /\ handling' \in [Process -> SUBSET Event]
      BY <1>1, <1>5 DEF HandlerReturns, TypeOK
    <2> QED
      BY <1>5, <2>4, <2>5, <2>6 DEF HandlerReturns, TypeOK
  <1>6. CASE HandlerThrows(w)
    <2>1. [c EXCEPT !.pc = "failed"] \in Call
      BY <1>1 DEF Call
    <2>2. wk' \in [Worker -> Call]
      BY <1>6, <2>1, StepType DEF HandlerThrows
    <2>3. handling' \in [Process -> SUBSET Event]
      BY <1>1, <1>6 DEF HandlerThrows, TypeOK
    <2> QED
      BY <1>6, <2>2, <2>3 DEF HandlerThrows, TypeOK
  <1>7. CASE MarkProcessed(w)
    <2>1. wk' \in [Worker -> Call]
      BY <1>1, <1>7, OnwardType, StepType DEF MarkProcessed
    <2>2. row' \in [Event -> RowRecord]
      BY <1>7, MarkType DEF MarkProcessed, Status
    <2> QED
      BY <1>7, <2>1, <2>2 DEF MarkProcessed, TypeOK
  <1>8. CASE MarkFailed(w)
    <2>1. wk' \in [Worker -> Call]
      BY <1>1, <1>8, OnwardType, IdleType, StepType DEF MarkFailed
    <2>2. row' \in [Event -> RowRecord]
      BY <1>8, MarkType DEF MarkFailed, Status
    <2> QED
      BY <1>8, <2>1, <2>2 DEF MarkFailed, TypeOK
  <1> QED
    BY <1>2, <1>3, <1>4, <1>5, <1>6, <1>7, <1>8 DEF Proceed

\* What DatabaseFails leaves of a call.
LEMMA RefusedCall ==
  ASSUME TypeOK, NEW w \in Worker, DatabaseFails(w)
  PROVE  \E n \in Call :
            /\ Step(w, n) /\ n.pc \in {"idle", "failed"} /\ wk[w].pc # "handle"
            /\ n.pc = "failed" => wk[w].pc = "processed" /\ n.e = wk[w].e
  <1>1. wk[w] \in Call
    BY DEF TypeOK
  <1>2. CASE wk[w].pc = "processed"
    <2> DEFINE n == [wk[w] EXCEPT !.pc = "failed"]
    <2>1. n \in Call /\ n.pc = "failed" /\ n.e = wk[w].e
      BY <1>1 DEF Call
    <2>2. Step(w, n)
      BY <1>2 DEF DatabaseFails
    <2> QED
      BY <1>2, <2>1, <2>2
  <1>3. CASE wk[w].pc # "processed"
    <2>1. Step(w, Idle) /\ wk[w].pc # "handle"
      BY <1>3 DEF DatabaseFails
    <2>2. Idle.pc = "idle"
      BY DEF Idle
    <2> QED
      BY <2>1, <2>2, IdleType
  <1> QED
    BY <1>2, <1>3

LEMMA BeginTypeOK ==
  ASSUME TypeOK, NEW w \in Worker, NEW S \in SUBSET Event,
         Drain(w) \/ Dispatch(w, S) \/ Retry(w, S)
  PROVE  TypeOK'
  <1>1. ASSUME NEW T \in SUBSET Event
        PROVE  /\ [Idle EXCEPT !.mode = "drain", !.pc = "next", !.todo = T] \in Call
               /\ [Idle EXCEPT !.mode = "direct", !.pc = "find", !.todo = T] \in Call
               /\ [Idle EXCEPT !.mode = "retry", !.pc = "next", !.todo = T] \in Call
    BY IdleType, ZenonT(60) DEF Call
  <1>2. CASE Drain(w)
    <2> DEFINE due == {e \in Event : Due(row[e])}
    <2>1. due \in SUBSET Event /\ UNCHANGED <<row, handled, handling, ran, published, crashes>>
      BY <1>2 DEF Drain
    <2>2. Step(w, [Idle EXCEPT !.mode = "drain", !.pc = "next", !.todo = due])
      BY <1>2 DEF Drain
    <2> HIDE DEF due
    <2>3. wk' \in [Worker -> Call]
      BY <1>1, <2>1, <2>2, StepType
    <2> QED
      BY <2>1, <2>3 DEF TypeOK
  <1>3. CASE Dispatch(w, S)
    <2>1. wk' \in [Worker -> Call]
      BY <1>1, <1>3, StepType DEF Dispatch
    <2>2. row' \in [Event -> RowRecord]
      BY <1>3, AppendedType DEF Dispatch
    <2> QED
      BY <1>3, <2>1, <2>2 DEF Dispatch, TypeOK
  <1>4. CASE Retry(w, S)
    <2> DEFINE found == {e \in S : row[e].status \in {"PENDING", "PROCESSING", "FAILED"}}
    <2>1. found \in SUBSET Event /\ UNCHANGED <<row, handled, handling, ran, published, crashes>>
      BY <1>4 DEF Retry
    <2>2. Step(w, [Idle EXCEPT !.mode = "retry", !.pc = "next", !.todo = found])
      BY <1>4, SMTT(40) DEF Retry
    <2> HIDE DEF found
    <2>3. wk' \in [Worker -> Call]
      BY <1>1, <2>1, <2>2, StepType
    <2> QED
      BY <2>1, <2>3 DEF TypeOK
  <1> QED
    BY <1>2, <1>3, <1>4

LEMMA RefusedTypeOK ==
  ASSUME TypeOK, NEW w \in Worker, DatabaseFails(w) PROVE TypeOK'
  <1>1. wk' \in [Worker -> Call]
    BY RefusedCall, StepType
  <1> QED
    BY <1>1 DEF DatabaseFails, TypeOK

LEMMA EnvTypeOK ==
  ASSUME TypeOK,
         \/ \E e \in Event : AppendTx(e) \/ GoStale(e) \/ CleanUp(e)
         \/ \E p \in Process : Crash(p)
  PROVE  TypeOK'
  <1>1. ASSUME NEW e \in Event, AppendTx(e) PROVE TypeOK'
    <2>1. row' \in [Event -> RowRecord]
      BY <1>1, AppendedType DEF AppendTx
    <2> QED
      BY <1>1, <2>1 DEF AppendTx, TypeOK
  <1>2. ASSUME NEW e \in Event, GoStale(e) \/ CleanUp(e) PROVE TypeOK'
    <2>1. /\ [row[e] EXCEPT !.stale = TRUE] \in RowRecord
          /\ [row[e] EXCEPT !.status = "DELETED"] \in RowRecord
      BY DEF TypeOK, RowRecord, Status
    <2>2. row' \in [Event -> RowRecord]
      BY <1>2, <2>1 DEF GoStale, CleanUp, TypeOK
    <2> QED
      BY <1>2, <2>2 DEF GoStale, CleanUp, TypeOK
  <1>3. ASSUME NEW p \in Process, Crash(p) PROVE TypeOK'
    BY <1>3, IdleType DEF Crash, TypeOK
  <1> QED
    BY <1>1, <1>2, <1>3

LEMMA InitTypeOK == ASSUME Init PROVE TypeOK
  BY IdleType DEF Init, TypeOK, RowRecord, Status

LEMMA NextTypeOK == ASSUME TypeOK, [Next]_vars PROVE TypeOK'
  <1>1. CASE UNCHANGED vars
    BY <1>1 DEF vars, TypeOK
  <1>2. \A w \in Worker : Drain(w) => \E S \in SUBSET Event : Drain(w)
    OBVIOUS
  <1> QED
    BY <1>1, <1>2, ProceedTypeOK, BeginTypeOK, EnvTypeOK, RefusedTypeOK DEF Next

----------------------------------------------------------------------------
(* The memory of the bus *)

Handles(w, p, e) == ProcessOf[w] = p /\ wk[w].pc = "handle" /\ wk[w].e = e

BusExact ==
    \A p \in Process, e \in Event :
        e \in handling[p] <=> \E w \in Worker : Handles(w, p, e)

OneHandler ==
    \A p \in Process, e \in Event, w, x \in Worker :
        Handles(w, p, e) /\ Handles(x, p, e) => w = x

\* HandlingExact alone is not inductive: removing an event from handling is right
\* only because no other call of the process is delivering it.
BusInv == TypeOK /\ BusExact /\ OneHandler

\* The program counters of the calls a step starts or goes on with.
LEMMA CallPcs ==
  ASSUME NEW c \in Call, NEW T, NEW e
  PROVE  /\ Idle.pc = "idle"
         /\ Onward(c).pc \in {"idle", "next"}
         /\ \A m : [Idle EXCEPT !.mode = m, !.pc = "next", !.todo = T].pc = "next"
         /\ \A m : [Idle EXCEPT !.mode = m, !.pc = "find", !.todo = T].pc = "find"
         /\ LET x == [c EXCEPT !.pc = "enter", !.e = e, !.todo = @ \ {e}] IN
            x.pc = "enter" /\ x.e = e
         /\ LET x == [c EXCEPT !.pc = "handle", !.h = 1] IN
            x.pc = "handle" /\ x.e = c.e /\ x.h = 1
         /\ \A q : [c EXCEPT !.pc = q].pc = q /\ [c EXCEPT !.pc = q].e = c.e
         /\ \A h : LET x == [c EXCEPT !.h = h] IN x.pc = c.pc /\ x.e = c.e /\ x.h = h
  <1>1. Idle.pc = "idle"
    BY DEF Idle
  <1>2. Onward(c).pc \in {"idle", "next"}
    BY DEF Onward, Idle
  <1>3. \A m : [Idle EXCEPT !.mode = m, !.pc = "next", !.todo = T].pc = "next"
    BY IdleType DEF Call
  <1>4. \A m : [Idle EXCEPT !.mode = m, !.pc = "find", !.todo = T].pc = "find"
    BY IdleType DEF Call
  <1>5. LET x == [c EXCEPT !.pc = "enter", !.e = e, !.todo = @ \ {e}] IN
        x.pc = "enter" /\ x.e = e
    BY DEF Call
  <1>6. LET x == [c EXCEPT !.pc = "handle", !.h = 1] IN
        x.pc = "handle" /\ x.e = c.e /\ x.h = 1
    BY DEF Call
  <1>7. \A q : [c EXCEPT !.pc = q].pc = q /\ [c EXCEPT !.pc = q].e = c.e
    BY DEF Call
  <1>8. \A h : LET x == [c EXCEPT !.h = h] IN x.pc = c.pc /\ x.e = c.e /\ x.h = h
    BY DEF Call
  <1> QED
    BY <1>1, <1>2, <1>3, <1>4, <1>5, <1>6, <1>7, <1>8

\* A step of a call that is in no handler before and after it.
LEMMA QuietStep ==
  ASSUME BusInv, NEW w \in Worker, NEW c, Step(w, c), wk[w].pc # "handle",
         c.pc # "handle", handling' = handling
  PROVE  (BusExact /\ OneHandler)'
  <1>1. \A x \in Worker : wk'[x] = IF x = w THEN c ELSE wk[x]
    BY DEF BusInv, TypeOK, Step
  <1>2. \A x \in Worker : \A p, e : Handles(x, p, e)' <=> Handles(x, p, e)
    BY <1>1 DEF Handles
  <1> QED
    BY <1>2 DEF BusInv, BusExact, OneHandler

LEMMA LeaveBus ==
  ASSUME BusInv, NEW w \in Worker, NEW c, Step(w, c), wk[w].pc = "handle",
         c.pc # "handle",
         handling' = [handling EXCEPT ![ProcessOf[w]] = @ \ {wk[w].e}]
  PROVE  (BusExact /\ OneHandler)'
  <1>1. \A x \in Worker : wk'[x] = IF x = w THEN c ELSE wk[x]
    BY DEF BusInv, TypeOK, Step
  <1>2. \A x \in Worker : \A p, e : Handles(x, p, e)' <=> x # w /\ Handles(x, p, e)
    BY <1>1 DEF Handles
  <1>3. ProcessOf[w] \in Process /\ wk[w].e \in Event
    BY OutboxAssumption DEF BusInv, TypeOK, Call
  <1>4. Handles(w, ProcessOf[w], wk[w].e)
    BY DEF Handles
  <1>5. \A p \in Process, e \in Event :
          e \in handling'[p] <=> e \in handling[p] /\ ~(p = ProcessOf[w] /\ e = wk[w].e)
    BY <1>3 DEF BusInv, TypeOK
  <1>6. \A p, e : Handles(w, p, e) <=> p = ProcessOf[w] /\ e = wk[w].e
    BY DEF Handles
  <1>7. BusExact'
    <2> SUFFICES ASSUME NEW p \in Process, NEW e \in Event
                 PROVE  e \in handling'[p] <=> \E x \in Worker : Handles(x, p, e)'
      BY DEF BusExact
    <2>1. CASE p = ProcessOf[w] /\ e = wk[w].e
      BY <1>2, <1>4, <1>5, <2>1 DEF BusInv, OneHandler
    <2>2. CASE ~(p = ProcessOf[w] /\ e = wk[w].e)
      BY <1>2, <1>5, <1>6, <2>2 DEF BusInv, BusExact
    <2> QED
      BY <2>1, <2>2
  <1>8. OneHandler'
    BY <1>2 DEF BusInv, OneHandler
  <1> QED
    BY <1>7, <1>8

LEMMA ProceedBus ==
  ASSUME BusInv, NEW w \in Worker, Proceed(w) PROVE (BusExact /\ OneHandler)'
  <1> DEFINE c == wk[w]
  <1>1. c \in Call /\ ProcessOf[w] \in Process /\ c.e \in Event
    BY OutboxAssumption DEF BusInv, TypeOK, Call
  <1>2. CASE FindDispatchable(w)
    <2> DEFINE d == [c EXCEPT !.todo = {e \in c.todo : row[e].status \in {"PENDING", "FAILED"}}]
    <2>1. d \in Call
      BY <1>1 DEF Call
    <2>2. Step(w, Onward(d)) /\ c.pc = "find" /\ handling' = handling
      BY <1>2 DEF FindDispatchable
    <2> HIDE DEF d
    <2> QED
      BY <2>1, <2>2, CallPcs, QuietStep
  <1>3. ASSUME NEW e \in Event, MarkProcessing(w, e) PROVE (BusExact /\ OneHandler)'
    <2> DEFINE d == [c EXCEPT !.todo = @ \ {e}]
               n == [c EXCEPT !.pc = "enter", !.e = e, !.todo = @ \ {e}]
    <2>1. d \in Call /\ n.pc = "enter"
      BY <1>1 DEF Call
    <2>2. (Step(w, n) \/ Step(w, Onward(d))) /\ c.pc = "next" /\ handling' = handling
      BY <1>3 DEF MarkProcessing
    <2> HIDE DEF d, n
    <2> QED
      BY <2>1, <2>2, CallPcs, QuietStep
  <1>4. CASE EnterBus(w)
    <2> DEFINE p == ProcessOf[w]
               n == [c EXCEPT !.pc = "handle", !.h = 1]
    <2>1. CASE c.e \in handled[p] \cup handling[p]
      <3> DEFINE d == [c EXCEPT !.pc = "processed"]
      <3>1. d.pc = "processed"
        BY <1>1 DEF Call
      <3>2. Step(w, d) /\ c.pc = "enter" /\ handling' = handling
        BY <1>4, <2>1 DEF EnterBus
      <3> HIDE DEF d
      <3> QED
        BY <3>1, <3>2, QuietStep
    <2>2. CASE c.e \notin handled[p] \cup handling[p]
      <3>1. /\ Step(w, n) /\ c.pc = "enter"
            /\ handling' = [handling EXCEPT ![p] = @ \cup {c.e}]
        BY <1>4, <2>2 DEF EnterBus
      <3>2. n.pc = "handle" /\ n.e = c.e
        BY <1>1, CallPcs
      <3> HIDE DEF n
      <3>3. \A x \in Worker : wk'[x] = IF x = w THEN n ELSE wk[x]
        BY <3>1 DEF BusInv, TypeOK, Step
      <3>4. \A x \in Worker : \A q, e :
              Handles(x, q, e)' <=> IF x = w THEN q = p /\ e = c.e ELSE Handles(x, q, e)
        BY <3>2, <3>3 DEF Handles
      <3>5. \A x \in Worker : ~Handles(x, p, c.e)
        BY <1>1, <2>2 DEF BusInv, BusExact
      <3>6. \A q, e : ~Handles(w, q, e)
        BY <3>1 DEF Handles
      <3>7. \A q \in Process, e \in Event :
              e \in handling'[q] <=> e \in handling[q] \/ (q = p /\ e = c.e)
        BY <1>1, <3>1 DEF BusInv, TypeOK
      <3>8. BusExact'
        BY <3>4, <3>6, <3>7 DEF BusInv, BusExact
      <3>9. OneHandler'
        BY <3>4, <3>5, <3>6 DEF BusInv, OneHandler
      <3> QED
        BY <3>8, <3>9
    <2> QED
      BY <2>1, <2>2
  <1>5. CASE HandlerReturns(w)
    <2>1. CASE c.h < Handlers
      <3> DEFINE n == [c EXCEPT !.h = c.h + 1]
      <3>1. n.pc = c.pc /\ n.e = c.e
        BY <1>1, CallPcs
      <3>2. Step(w, n) /\ handling' = handling
        BY <1>1, <1>5, <2>1, OutboxAssumption DEF HandlerReturns, Call
      <3> HIDE DEF n
      <3>3. \A x \in Worker : wk'[x] = IF x = w THEN n ELSE wk[x]
        BY <3>2 DEF BusInv, TypeOK, Step
      <3>4. \A x \in Worker : \A q, e : Handles(x, q, e)' <=> Handles(x, q, e)
        BY <3>1, <3>3 DEF Handles
      <3> QED
        BY <3>2, <3>4 DEF BusInv, BusExact, OneHandler
    <2>2. CASE ~(c.h < Handlers)
      <3> DEFINE d == [c EXCEPT !.pc = "processed"]
      <3>1. /\ Step(w, d) /\ c.pc = "handle"
            /\ handling' = [handling EXCEPT ![ProcessOf[w]] = @ \ {c.e}]
        BY <1>5, <2>2 DEF HandlerReturns
      <3>2. d.pc = "processed"
        BY <1>1 DEF Call
      <3> HIDE DEF d
      <3> QED
        BY <3>1, <3>2, LeaveBus
    <2> QED
      BY <2>1, <2>2
  <1>6. CASE HandlerThrows(w)
    <2> DEFINE d == [c EXCEPT !.pc = "failed"]
    <2>1. /\ Step(w, d) /\ c.pc = "handle"
          /\ handling' = [handling EXCEPT ![ProcessOf[w]] = @ \ {c.e}]
      BY <1>6 DEF HandlerThrows
    <2>2. d.pc = "failed"
      BY <1>1 DEF Call
    <2> HIDE DEF d
    <2> QED
      BY <2>1, <2>2, LeaveBus
  <1>7. CASE MarkProcessed(w)
    BY <1>1, <1>7, CallPcs, QuietStep DEF MarkProcessed
  <1>8. CASE MarkFailed(w)
    BY <1>1, <1>8, CallPcs, QuietStep DEF MarkFailed
  <1> QED
    BY <1>2, <1>3, <1>4, <1>5, <1>6, <1>7, <1>8 DEF Proceed

LEMMA NextBus == ASSUME BusInv, [Next]_vars PROVE BusInv'
  <1>1. TypeOK'
    BY NextTypeOK DEF BusInv
  <1>2. ASSUME NEW w \in Worker, Proceed(w) PROVE BusInv'
    BY <1>1, <1>2, ProceedBus DEF BusInv
  <1>3. ASSUME NEW w \in Worker, NEW S \in SUBSET Event,
               Drain(w) \/ Dispatch(w, S) \/ Retry(w, S)
        PROVE  BusInv'
    <2> DEFINE Begun(m, q, T) == [Idle EXCEPT !.mode = m, !.pc = q, !.todo = T]
               due == {e \in Event : Due(row[e])}
               found == {e \in S : row[e].status \in {"PENDING", "PROCESSING", "FAILED"}}
    <2>0. \A m, q, T : Begun(m, q, T).pc = q
      BY IdleType DEF Call
    <2>1. \/ Step(w, Begun("drain", "next", due))
          \/ Step(w, Begun("direct", "find", S))
          \/ Step(w, Begun("retry", "next", found))
      BY <1>3 DEF Drain, Dispatch, Retry
    <2>2. wk[w].pc = "idle" /\ handling' = handling
      BY <1>3 DEF Drain, Dispatch, Retry
    <2> HIDE DEF Begun, due, found
    <2>3. PICK n : Step(w, n) /\ n.pc \in {"next", "find"}
      BY <2>0, <2>1
    <2> QED
      BY <1>1, <2>2, <2>3, QuietStep DEF BusInv
  <1>4. ASSUME NEW p \in Process, Crash(p) PROVE BusInv'
    <2>1. \A x \in Worker, q \in Process : \A e :
            Handles(x, q, e)' <=> q # p /\ Handles(x, q, e)
      BY <1>4, CallPcs, IdleType DEF Crash, Handles
    <2>2. \A q \in Process, e \in Event : e \in handling'[q] <=> q # p /\ e \in handling[q]
      BY <1>4 DEF Crash, BusInv, TypeOK
    <2> QED
      BY <1>1, <2>1, <2>2 DEF BusInv, BusExact, OneHandler
  <1>5. CASE UNCHANGED <<wk, handling>>
    BY <1>1, <1>5 DEF BusInv, BusExact, OneHandler, Handles
  <1>6. ASSUME \/ UNCHANGED vars
               \/ \E e \in Event : AppendTx(e) \/ GoStale(e) \/ CleanUp(e)
        PROVE  UNCHANGED <<wk, handling>>
    BY <1>6 DEF vars, AppendTx, GoStale, CleanUp
  <1>7. ASSUME NEW w \in Worker, DatabaseFails(w) PROVE BusInv'
    <2>1. handling' = handling
      BY <1>7 DEF DatabaseFails
    <2>2. PICK n \in Call : Step(w, n) /\ n.pc \in {"idle", "failed"} /\ wk[w].pc # "handle"
      BY <1>7, RefusedCall DEF BusInv
    <2> QED
      BY <1>1, <2>1, <2>2, QuietStep DEF BusInv
  <1> QED
    BY <1>2, <1>3, <1>4, <1>5, <1>6, <1>7 DEF Next

LEMMA InitBus == ASSUME Init PROVE BusInv
  <1>1. \A w \in Worker : wk[w].pc = "idle"
    BY DEF Init, Idle
  <1>2. \A p \in Process : handling[p] = {}
    BY DEF Init
  <1> QED
    BY <1>1, <1>2, InitTypeOK DEF BusInv, BusExact, OneHandler, Handles

\* Whatever fails, and however late workers are, the bus's handling set names
\* exactly the events being delivered: the finally of dispatch leaves nothing
\* behind that would make a later retry return without delivering.
THEOREM BusMemoryExact == Spec => []HandlingExact
  <1>1. Init => BusInv
    BY InitBus
  <1>2. BusInv /\ [Next]_vars => BusInv'
    BY NextBus
  <1>3. BusInv => HandlingExact
    <2> SUFFICES ASSUME BusInv, NEW p \in Process
                 PROVE  handling[p] = {wk[w].e : w \in {x \in Worker : ProcessOf[x] = p
                                                          /\ wk[x].pc = "handle"}}
      BY DEF HandlingExact
    <2>1. handling[p] \subseteq Event /\ \A w \in Worker : wk[w].e \in Event
      BY DEF BusInv, TypeOK, Call
    <2> QED
      BY <2>1 DEF BusInv, BusExact, Handles
  <1> QED
    BY <1>1, <1>2, <1>3, PTL DEF Spec

----------------------------------------------------------------------------
(* Delivery, when no live worker outlasts DEFAULT_PROCESSING_STALE_MS.  A claim *)
(* then owns its row: the row stays PROCESSING and fresh while the claimant     *)
(* works, so no other worker can claim it, no call can skip an event that       *)
(* another is still delivering, and nobody marks a row but its claimant.        *)

WorkPcs == {"enter", "handle", "processed", "failed"}

Fresh(r) == r.status = "PROCESSING" /\ r.stale = FALSE

Owned == \A w \in Worker, e \in Event : Working(w, e) => Fresh(row[e])

Sole == \A w, x \in Worker, e \in Event : Working(w, e) /\ Working(x, e) => w = x

\* How far a call has come, and what the bus and the rows may claim.
Progress(c, done) ==
    /\ c.pc = "handle" => \A i \in AllHandlers : i < c.h => i \in done
    /\ c.pc = "processed" => done = AllHandlers

Progressed == \A w \in Worker : Progress(wk[w], ran[wk[w].e])

HandledRan == \A p \in Process, e \in Event : e \in handled[p] => ran[e] = AllHandlers

DeliverInv == BusInv /\ Owned /\ Sole /\ Progressed /\ HandledRan /\ ProcessedMeansDelivered

\* What a step of one call has to respect.
LEMMA CallStep ==
  ASSUME DeliverInv, BusInv', NEW w \in Worker, NEW c, Step(w, c),
         \A e \in Event : \/ row'[e] = row[e]
                          \/ \A x \in Worker : x # w => ~Working(x, e),
         c.pc \in WorkPcs => /\ Fresh(row'[c.e])
                             /\ \A x \in Worker : x # w => ~Working(x, c.e),
         \A e \in Event : ran[e] \subseteq ran'[e],
         Progress(c, ran'[c.e]),
         \A p \in Process, e \in Event :
            e \in handled'[p] => e \in handled[p] \/ ran'[e] = AllHandlers,
         \A e \in Event : row'[e].status \in {"PROCESSED", "DELETED"}
            => row[e].status \in {"PROCESSED", "DELETED"} \/ ran'[e] = AllHandlers
  PROVE  DeliverInv'
  <1>1. \A x \in Worker : wk'[x] = IF x = w THEN c ELSE wk[x]
    BY DEF DeliverInv, BusInv, TypeOK, Step
  <1>2. \A x \in Worker : \A e : Working(x, e)' <=> IF x = w THEN c.e = e /\ c.pc \in WorkPcs
                                                ELSE Working(x, e)
    BY <1>1 DEF Working, WorkPcs
  <1>3. \A e \in Event : ran[e] = AllHandlers => ran'[e] = AllHandlers
    <2> SUFFICES ASSUME NEW e \in Event, ran[e] = AllHandlers PROVE ran'[e] = AllHandlers
      OBVIOUS
    <2>1. ran'[e] \subseteq AllHandlers /\ AllHandlers \subseteq ran'[e]
      BY DEF BusInv, TypeOK
    <2> QED
      BY <2>1
  <1>4. \A x \in Worker : wk[x].e \in Event
    BY DEF DeliverInv, BusInv, TypeOK, Call
  <1>5. Owned'
    BY <1>2 DEF DeliverInv, Owned, Fresh
  <1>6. Sole'
    BY <1>2 DEF DeliverInv, Sole
  <1>7. Progressed'
    <2> SUFFICES ASSUME NEW x \in Worker PROVE Progress(wk'[x], ran'[wk'[x].e])
      BY DEF Progressed
    <2>1. CASE x = w
      BY <1>1, <2>1
    <2>2. CASE x # w
      <3>1. Progress(wk[x], ran[wk[x].e]) /\ ran[wk[x].e] \subseteq ran'[wk[x].e]
        BY <1>4 DEF DeliverInv, Progressed
      <3> QED
        BY <1>1, <1>3, <1>4, <2>2, <3>1, Zenon DEF Progress
    <2> QED
      BY <2>1, <2>2
  <1>8. HandledRan'
    BY <1>3 DEF DeliverInv, HandledRan
  <1>9. ProcessedMeansDelivered'
    BY <1>3 DEF DeliverInv, ProcessedMeansDelivered
  <1> QED
    BY <1>5, <1>6, <1>7, <1>8, <1>9 DEF DeliverInv

\* A step that leaves rows, handlers and bus memory alone and claims nothing.
LEMMA RestStep ==
  ASSUME DeliverInv, BusInv', NEW w \in Worker, NEW c, Step(w, c), c.pc \notin WorkPcs,
         UNCHANGED <<row, ran, handled>>
  PROVE  DeliverInv'
  <1>1. Progress(c, ran'[c.e])
    BY DEF Progress, WorkPcs
  <1> QED
    BY <1>1, CallStep

\* The claimant's mark.
LEMMA MarkStep ==
  ASSUME DeliverInv, BusInv', NEW w \in Worker, NEW c, Step(w, c), c.pc \notin WorkPcs,
         NEW s \in {"PROCESSED", "FAILED"}, Working(w, wk[w].e), Mark(w, s),
         s = "PROCESSED" => wk[w].pc = "processed", UNCHANGED <<ran, handled>>
  PROVE  DeliverInv'
  <1>1. wk[w].e \in Event /\ row \in [Event -> RowRecord]
    BY DEF DeliverInv, BusInv, TypeOK, Call
  <1>2. /\ \A e \in Event : e # wk[w].e => row'[e] = row[e]
        /\ row'[wk[w].e].status = s
    BY <1>1 DEF Mark, RowRecord
  <1>3. \A x \in Worker : x # w => ~Working(x, wk[w].e)
    BY <1>1 DEF DeliverInv, Sole
  <1>4. s = "PROCESSED" => ran[wk[w].e] = AllHandlers
    BY DEF DeliverInv, Progressed, Progress
  <1>5. Progress(c, ran'[c.e])
    BY DEF Progress, WorkPcs
  <1>6. \A e \in Event : row'[e].status \in {"PROCESSED", "DELETED"}
            => row[e].status \in {"PROCESSED", "DELETED"} \/ ran'[e] = AllHandlers
    BY <1>2, <1>4
  <1> QED
    BY <1>2, <1>3, <1>5, <1>6, CallStep

LEMMA ProceedDelivers ==
  ASSUME DeliverInv, BusInv', NEW w \in Worker, Proceed(w) PROVE DeliverInv'
  <1> DEFINE c == wk[w]
  <1>1. c \in Call /\ ProcessOf[w] \in Process /\ c.e \in Event
    BY OutboxAssumption DEF DeliverInv, BusInv, TypeOK, Call
  <1>2. Progress(c, ran[c.e])
    BY DEF DeliverInv, Progressed
  <1>3. c.pc \in WorkPcs => /\ Working(w, c.e) /\ Fresh(row[c.e])
                            /\ \A x \in Worker : x # w => ~Working(x, c.e)
    BY <1>1 DEF DeliverInv, Owned, Sole, Working, WorkPcs
  <1>4. CASE FindDispatchable(w)
    <2> DEFINE d == [c EXCEPT !.todo = {e \in c.todo : row[e].status \in {"PENDING", "FAILED"}}]
    <2>1. d \in Call
      BY <1>1 DEF Call
    <2>2. Step(w, Onward(d)) /\ UNCHANGED <<row, ran, handled>>
      BY <1>4 DEF FindDispatchable
    <2> HIDE DEF d
    <2>3. Onward(d).pc \notin WorkPcs
      BY <2>1, CallPcs DEF WorkPcs
    <2> QED
      BY <2>2, <2>3, RestStep
  <1>5. ASSUME NEW e \in Event, MarkProcessing(w, e) PROVE DeliverInv'
    <2> DEFINE d == [c EXCEPT !.todo = @ \ {e}]
               n == [c EXCEPT !.pc = "enter", !.e = e, !.todo = @ \ {e}]
    <2>1. d \in Call /\ n.pc = "enter" /\ n.e = e
      BY <1>1 DEF Call
    <2>2. CASE Claimable(row[e])
      <3>1. /\ Step(w, n) /\ UNCHANGED <<ran, handled>>
            /\ row' = [row EXCEPT ![e] = [status |-> "PROCESSING", attempts |-> @.attempts + 1,
                                          stale |-> FALSE]]
        BY <1>5, <2>2 DEF MarkProcessing
      <3> HIDE DEF n
      <3>2. row \in [Event -> RowRecord]
        BY DEF DeliverInv, BusInv, TypeOK
      <3>3. \A x \in Worker : ~Working(x, e)
        BY <2>2 DEF DeliverInv, Owned, Fresh, Claimable
      <3>4. Fresh(row'[e]) /\ \A f \in Event : f # e => row'[f] = row[f]
        BY <3>1, <3>2 DEF Fresh
      <3>5. Progress(n, ran'[n.e])
        BY <2>1 DEF Progress
      <3>6. \A f \in Event : row'[f].status \in {"PROCESSED", "DELETED"}
              => row[f].status \in {"PROCESSED", "DELETED"} \/ ran'[f] = AllHandlers
        BY <3>4 DEF Fresh
      <3>7. \A f \in Event : \/ row'[f] = row[f]
                             \/ \A x \in Worker : x # w => ~Working(x, f)
        BY <3>3, <3>4
      <3>8. n.pc \in WorkPcs => /\ Fresh(row'[n.e])
                                /\ \A x \in Worker : x # w => ~Working(x, n.e)
        BY <2>1, <3>3, <3>4
      <3> QED
        BY <3>1, <3>5, <3>6, <3>7, <3>8, CallStep
    <2>3. CASE ~Claimable(row[e])
      <3>1. Step(w, Onward(d)) /\ UNCHANGED <<row, ran, handled>>
        BY <1>5, <2>3 DEF MarkProcessing
      <3> HIDE DEF d
      <3>2. Onward(d).pc \notin WorkPcs
        BY <2>1, CallPcs DEF WorkPcs
      <3> QED
        BY <3>1, <3>2, RestStep
    <2> QED
      BY <2>2, <2>3
  <1>6. CASE EnterBus(w)
    <2> DEFINE p == ProcessOf[w]
               n == [c EXCEPT !.pc = "handle", !.h = 1]
               d == [c EXCEPT !.pc = "processed"]
    <2>1. c.pc \in WorkPcs /\ UNCHANGED <<row, ran, handled>>
      BY <1>6 DEF EnterBus, WorkPcs
    <2>2. CASE c.e \in handled[p] \cup handling[p]
      <3>1. Step(w, d)
        BY <1>6, <2>2 DEF EnterBus
      <3>2. c.e \notin handling[p]
        <4>1. c.pc = "enter"
          BY <1>6 DEF EnterBus
        <4>2. \A x \in Worker : ~Handles(x, p, c.e)
          BY <1>3, <2>1, <4>1 DEF Handles, Working
        <4> QED
          BY <1>1, <4>2 DEF DeliverInv, BusInv, BusExact
      <3>3. ran'[c.e] = AllHandlers
        BY <1>1, <2>1, <2>2, <3>2 DEF DeliverInv, HandledRan
      <3>4. d.pc = "processed" /\ d.e = c.e
        BY <1>1 DEF Call
      <3> HIDE DEF d
      <3>5. Progress(d, ran'[d.e])
        BY <3>3, <3>4 DEF Progress
      <3> QED
        BY <1>3, <2>1, <3>1, <3>4, <3>5, CallStep
    <2>3. CASE c.e \notin handled[p] \cup handling[p]
      <3>1. Step(w, n)
        BY <1>6, <2>3 DEF EnterBus
      <3>2. n.pc = "handle" /\ n.e = c.e /\ n.h = 1
        BY <1>1 DEF Call
      <3> HIDE DEF n
      <3>3. Progress(n, ran'[n.e])
        BY <3>2 DEF Progress, AllHandlers
      <3> QED
        BY <1>3, <2>1, <3>1, <3>2, <3>3, CallStep
    <2> QED
      BY <2>2, <2>3
  <1>7. CASE HandlerReturns(w)
    <2>1. /\ c.pc = "handle" /\ c.pc \in WorkPcs /\ row' = row
          /\ ran' = [ran EXCEPT ![c.e] = @ \cup {c.h}]
      BY <1>7 DEF HandlerReturns, WorkPcs
    <2>2. /\ ran'[c.e] = ran[c.e] \cup {c.h}
          /\ \A e \in Event : ran[e] \subseteq ran'[e]
      BY <1>1, <2>1 DEF DeliverInv, BusInv, TypeOK
    <2>3. c.h \in 1..Handlers /\ ran[c.e] \subseteq AllHandlers
      BY <1>1 DEF DeliverInv, BusInv, TypeOK, Call
    <2>4. \A i \in AllHandlers : i < c.h => i \in ran[c.e]
      BY <1>2, <2>1 DEF Progress
    <2>5. CASE c.h < Handlers
      <3> DEFINE n == [c EXCEPT !.h = c.h + 1]
      <3>1. Step(w, n) /\ handled' = handled
        BY <1>7, <2>5, <2>3, OutboxAssumption DEF HandlerReturns
      <3>2. n.pc = "handle" /\ n.e = c.e /\ n.h = c.h + 1
        BY <1>1, <2>1 DEF Call
      <3> HIDE DEF n
      <3>3. Progress(n, ran'[n.e])
        BY <2>2, <2>3, <2>4, <3>2 DEF Progress, AllHandlers
      <3> QED
        BY <1>3, <2>1, <2>2, <3>1, <3>2, <3>3, CallStep
    <2>6. CASE ~(c.h < Handlers)
      <3> DEFINE d == [c EXCEPT !.pc = "processed"]
      <3>1. Step(w, d) /\ handled' = [handled EXCEPT ![ProcessOf[w]] = @ \cup {c.e}]
        BY <1>7, <2>6 DEF HandlerReturns
      <3>2. d.pc = "processed" /\ d.e = c.e
        BY <1>1 DEF Call
      <3> HIDE DEF d
      <3>3. ran'[c.e] = AllHandlers
        BY <2>2, <2>3, <2>4, <2>6, OutboxAssumption DEF AllHandlers
      <3>4. Progress(d, ran'[d.e])
        BY <3>2, <3>3 DEF Progress
      <3>5. \A q \in Process, e \in Event : e \in handled'[q] => e \in handled[q] \/ e = c.e
        BY <1>1, <3>1 DEF DeliverInv, BusInv, TypeOK
      <3>6. \A q \in Process, e \in Event :
              e \in handled'[q] => e \in handled[q] \/ ran'[e] = AllHandlers
        BY <3>3, <3>5
      <3> QED
        BY <1>3, <2>1, <2>2, <3>1, <3>2, <3>4, <3>6, CallStep
    <2> QED
      BY <2>5, <2>6
  <1>8. CASE HandlerThrows(w)
    <2> DEFINE d == [c EXCEPT !.pc = "failed"]
    <2>1. Step(w, d) /\ c.pc \in WorkPcs /\ UNCHANGED <<row, ran, handled>>
      BY <1>8 DEF HandlerThrows, WorkPcs
    <2>2. d.pc = "failed" /\ d.e = c.e
      BY <1>1 DEF Call
    <2> HIDE DEF d
    <2>3. Progress(d, ran'[d.e])
      BY <2>2 DEF Progress
    <2> QED
      BY <1>3, <2>1, <2>2, <2>3, CallStep
  <1>9. CASE MarkProcessed(w)
    <2>1. /\ c.pc = "processed" /\ Mark(w, "PROCESSED") /\ Step(w, Onward(c))
          /\ UNCHANGED <<ran, handled>>
      BY <1>9 DEF MarkProcessed
    <2>2. Onward(c).pc \notin WorkPcs /\ Working(w, c.e)
      BY <1>1, <1>3, <2>1, CallPcs DEF WorkPcs
    <2> QED
      BY <2>1, <2>2, MarkStep
  <1>10. CASE MarkFailed(w)
    <2> DEFINE n == IF c.mode = "direct" THEN Idle ELSE Onward(c)
    <2>1. /\ c.pc = "failed" /\ Mark(w, "FAILED") /\ Step(w, n)
          /\ UNCHANGED <<ran, handled>>
      BY <1>10 DEF MarkFailed
    <2>2. n.pc \notin WorkPcs /\ Working(w, c.e)
      BY <1>1, <1>3, <2>1, CallPcs DEF WorkPcs
    <2> HIDE DEF n
    <2> QED
      BY <2>1, <2>2, MarkStep
  <1> QED
    BY <1>4, <1>5, <1>6, <1>7, <1>8, <1>9, <1>10 DEF Proceed

LEMMA NextDelivers ==
  ASSUME "slow" \notin Faults, DeliverInv, [Next]_vars PROVE DeliverInv'
  <1>1. BusInv'
    BY NextBus DEF DeliverInv
  <1>2. ASSUME NEW w \in Worker, Proceed(w) PROVE DeliverInv'
    BY <1>1, <1>2, ProceedDelivers
  <1>3. ASSUME NEW w \in Worker, NEW S \in SUBSET Event, Drain(w) \/ Retry(w, S)
        PROVE  DeliverInv'
    <2> DEFINE Begun(m, T) == [Idle EXCEPT !.mode = m, !.pc = "next", !.todo = T]
               due == {e \in Event : Due(row[e])}
               found == {e \in S : row[e].status \in {"PENDING", "PROCESSING", "FAILED"}}
    <2>1. \A m, T : Begun(m, T).pc = "next"
      BY IdleType DEF Call
    <2>2. /\ Step(w, Begun("drain", due)) \/ Step(w, Begun("retry", found))
          /\ UNCHANGED <<row, ran, handled>>
      BY <1>3 DEF Drain, Retry
    <2> HIDE DEF Begun, due, found
    <2> QED
      BY <1>1, <2>1, <2>2, RestStep DEF WorkPcs
  <1>4. ASSUME NEW S \in SUBSET Event, row' = Appended(S)
        PROVE  \A e \in Event : \/ row'[e] = row[e]
                                \/ row[e].status = "ABSENT" /\ row'[e].status = "PENDING"
    BY <1>4 DEF Appended, DeliverInv, BusInv, TypeOK, RowRecord
  <1>5. ASSUME NEW w \in Worker, NEW S \in SUBSET Event, Dispatch(w, S) PROVE DeliverInv'
    <2> DEFINE n == [Idle EXCEPT !.mode = "direct", !.pc = "find", !.todo = S]
    <2>1. n.pc = "find"
      BY IdleType DEF Call
    <2>2. Step(w, n) /\ row' = Appended(S) /\ UNCHANGED <<ran, handled>>
      BY <1>5 DEF Dispatch
    <2> HIDE DEF n
    <2>3. \A e \in Event : \/ row'[e] = row[e]
                           \/ row[e].status = "ABSENT" /\ row'[e].status = "PENDING"
      BY <1>4, <2>2
    <2>4. \A e \in Event : \/ row'[e] = row[e]
                           \/ \A x \in Worker : x # w => ~Working(x, e)
      BY <2>3 DEF DeliverInv, Owned, Fresh
    <2>5. Progress(n, ran'[n.e]) /\ n.pc \notin WorkPcs
      BY <2>1 DEF Progress, WorkPcs
    <2>6. \A e \in Event : row'[e].status \in {"PROCESSED", "DELETED"}
            => row[e].status \in {"PROCESSED", "DELETED"} \/ ran'[e] = AllHandlers
      BY <2>3
    <2> QED
      BY <1>1, <2>2, <2>4, <2>5, <2>6, CallStep
  <1>6. ASSUME NEW e \in Event, AppendTx(e) \/ GoStale(e) \/ CleanUp(e) PROVE DeliverInv'
    <2>1. UNCHANGED <<wk, ran, handled>>
      BY <1>6 DEF AppendTx, GoStale, CleanUp
    <2>2. \A f \in Event : \/ row'[f] = row[f]
                           \/ /\ \A x \in Worker : ~Working(x, f)
                              /\ \/ row'[f].status \notin {"PROCESSED", "DELETED"}
                                 \/ row[f].status = "PROCESSED"
      <3>1. CASE AppendTx(e)
        <4>1. row' = Appended({e})
          BY <3>1 DEF AppendTx
        <4>2. \A f \in Event : \/ row'[f] = row[f]
                               \/ row[f].status = "ABSENT" /\ row'[f].status = "PENDING"
          BY <1>4, <4>1
        <4> QED
          BY <4>2 DEF DeliverInv, Owned, Fresh
      <3>2. CASE GoStale(e)
        <4>1. /\ row[e].status = "PROCESSING" /\ \A x \in Worker : ~Working(x, e)
              /\ row' = [row EXCEPT ![e] = [@ EXCEPT !.stale = TRUE]]
          BY <3>2 DEF GoStale
        <4> QED
          BY <4>1 DEF DeliverInv, BusInv, TypeOK, RowRecord
      <3>3. CASE CleanUp(e)
        <4>1. /\ row[e].status = "PROCESSED" /\ \A x \in Worker : ~Working(x, e)
              /\ row' = [row EXCEPT ![e] = [@ EXCEPT !.status = "DELETED"]]
          BY <3>3 DEF CleanUp
        <4> QED
          BY <4>1 DEF DeliverInv, BusInv, TypeOK, RowRecord
      <3> QED
        BY <1>6, <3>1, <3>2, <3>3
    <2>3. \A x \in Worker : \A f : Working(x, f)' <=> Working(x, f)
      BY <2>1 DEF Working
    <2>4. Owned'
      BY <2>2, <2>3 DEF DeliverInv, Owned, Fresh
    <2>5. Sole'
      BY <2>3 DEF DeliverInv, Sole
    <2>6. Progressed' /\ HandledRan'
      BY <2>1 DEF DeliverInv, Progressed, Progress, HandledRan
    <2>7. ProcessedMeansDelivered'
      BY <2>1, <2>2 DEF DeliverInv, ProcessedMeansDelivered
    <2> QED
      BY <1>1, <2>4, <2>5, <2>6, <2>7 DEF DeliverInv
  <1>7. ASSUME NEW p \in Process, Crash(p) PROVE DeliverInv'
    <2>1. /\ \A x \in Worker : wk'[x] = Idle \/ wk'[x] = wk[x]
          /\ UNCHANGED <<row, ran>>
          /\ handled' = [handled EXCEPT ![p] = {}]
      BY <1>7 DEF Crash
    <2>2. Idle.pc = "idle"
      BY DEF Idle
    <2>3. \A x \in Worker : \A e : Working(x, e)' => Working(x, e)
      BY <2>1, <2>2 DEF Working
    <2>4. Owned' /\ Sole'
      BY <2>1, <2>3 DEF DeliverInv, Owned, Sole, Fresh
    <2>5. Progressed'
      BY <2>1, <2>2 DEF DeliverInv, Progressed, Progress
    <2>6. \A q \in Process : handled'[q] \subseteq handled[q]
      BY <2>1 DEF DeliverInv, BusInv, TypeOK
    <2>7. HandledRan' /\ ProcessedMeansDelivered'
      BY <2>1, <2>6 DEF DeliverInv, HandledRan, ProcessedMeansDelivered
    <2> QED
      BY <1>1, <2>4, <2>5, <2>7 DEF DeliverInv
  <1>9. ASSUME NEW w \in Worker, DatabaseFails(w) PROVE DeliverInv'
    <2>1. UNCHANGED <<row, ran, handled>>
      BY <1>9 DEF DatabaseFails
    <2>2. PICK n \in Call :
             /\ Step(w, n) /\ n.pc \in {"idle", "failed"} /\ wk[w].pc # "handle"
             /\ n.pc = "failed" => wk[w].pc = "processed" /\ n.e = wk[w].e
      BY <1>9, RefusedCall DEF DeliverInv, BusInv
    <2>3. wk[w].e \in Event
      BY DEF DeliverInv, BusInv, TypeOK, Call
    <2>4. n.pc \in WorkPcs => /\ Fresh(row'[n.e])
                              /\ \A x \in Worker : x # w => ~Working(x, n.e)
      BY <2>1, <2>2, <2>3 DEF DeliverInv, Owned, Sole, Working, WorkPcs, Fresh
    <2>5. Progress(n, ran'[n.e])
      BY <2>2 DEF Progress
    <2> QED
      BY <1>1, <2>1, <2>2, <2>4, <2>5, CallStep
  <1>8. CASE UNCHANGED vars
    BY <1>1, <1>8 DEF vars, DeliverInv, Owned, Sole, Progressed, HandledRan,
       ProcessedMeansDelivered, Working, Fresh, Progress
  <1> QED
    BY <1>2, <1>3, <1>5, <1>6, <1>7, <1>8, <1>9 DEF Next

LEMMA InitDelivers == ASSUME Init PROVE DeliverInv
  <1>1. BusInv
    BY InitBus
  <1>2. \A w \in Worker : wk[w].pc = "idle"
    BY DEF Init, Idle
  <1>3. \A e \in Event : row[e].status = "ABSENT"
    BY DEF Init
  <1>4. \A p \in Process : handled[p] = {}
    BY DEF Init
  <1> QED
    BY <1>1, <1>2, <1>3, <1>4 DEF DeliverInv, Owned, Sole, Progressed, Progress, HandledRan,
       ProcessedMeansDelivered, Working

\* At least once: if every live worker is done with a row within
\* DEFAULT_PROCESSING_STALE_MS, a row markProcessed has reached is one whose
\* handlers have all returned, through throws, crashes, drains and retries.
THEOREM DeliveredBeforeProcessed ==
  ASSUME "slow" \notin Faults PROVE Spec => []ProcessedMeansDelivered
  <1>1. Init => DeliverInv
    BY InitDelivers
  <1>2. DeliverInv /\ [Next]_vars => DeliverInv'
    BY NextDelivers
  <1>3. DeliverInv => ProcessedMeansDelivered
    BY DEF DeliverInv
  <1> QED
    BY <1>1, <1>2, <1>3, PTL DEF Spec

\* Under the same bound no step takes a PROCESSED row back: markProcessing claims
\* no such row, and a late markFailed has no row but its own.
THEOREM DeliveredStaysDelivered ==
  ASSUME "slow" \notin Faults PROVE Spec => ProcessedIsFinal
  <1> DEFINE Final == \A e \in Event :
                row[e].status = "PROCESSED" => row'[e].status \in {"PROCESSED", "DELETED"}
  <1>1. Init => DeliverInv
    BY InitDelivers
  <1>2. DeliverInv /\ [Next]_vars => DeliverInv'
    BY NextDelivers
  <1>3. DeliverInv /\ [Next]_vars => [Final]_vars
    <2> SUFFICES ASSUME DeliverInv, Next, NEW e \in Event, row[e].status = "PROCESSED"
                 PROVE  row'[e].status \in {"PROCESSED", "DELETED"}
      OBVIOUS
    <2>1. row \in [Event -> RowRecord] /\ \A w \in Worker : ~Working(w, e)
      BY DEF DeliverInv, BusInv, TypeOK, Owned, Fresh
    <2>2. ASSUME NEW S \in SUBSET Event, row' = Appended(S) PROVE row'[e] = row[e]
      BY <2>2 DEF Appended
    <2>3. ASSUME NEW f \in Event, AppendTx(f) \/ GoStale(f) \/ CleanUp(f)
          PROVE  row'[e].status \in {"PROCESSED", "DELETED"}
      <3>1. CASE AppendTx(f)
        <4>1. row' = Appended({f})
          BY <3>1 DEF AppendTx
        <4> QED
          BY <2>2, <4>1
      <3>2. CASE GoStale(f) \/ CleanUp(f)
        BY <2>1, <3>2 DEF GoStale, CleanUp, RowRecord
      <3> QED
        BY <2>3, <3>1, <3>2
    <2>4. ASSUME NEW w \in Worker, NEW S \in SUBSET Event, Drain(w) \/ Dispatch(w, S) \/ Retry(w, S)
          PROVE  row'[e] = row[e]
      BY <2>2, <2>4 DEF Drain, Dispatch, Retry
    <2>5. ASSUME NEW w \in Worker, Proceed(w) PROVE row'[e] = row[e]
      <3>1. CASE FindDispatchable(w) \/ EnterBus(w) \/ HandlerReturns(w) \/ HandlerThrows(w)
        BY <3>1 DEF FindDispatchable, EnterBus, HandlerReturns, HandlerThrows
      <3>2. ASSUME NEW f \in Event, MarkProcessing(w, f) PROVE row'[e] = row[e]
        BY <2>1, <3>2 DEF MarkProcessing, Claimable
      <3>3. CASE MarkProcessed(w) \/ MarkFailed(w)
        <4>1. wk[w].e # e
          BY <2>1, <3>3 DEF MarkProcessed, MarkFailed, Working
        <4> QED
          BY <2>1, <3>3, <4>1 DEF MarkProcessed, MarkFailed, Mark
      <3> QED
        BY <2>5, <3>1, <3>2, <3>3 DEF Proceed
    <2>6. ASSUME NEW p \in Process, Crash(p) PROVE row'[e] = row[e]
      BY <2>6 DEF Crash
    <2>7. ASSUME NEW w \in Worker, DatabaseFails(w) PROVE row'[e] = row[e]
      BY <2>7 DEF DatabaseFails
    <2> QED
      BY <2>3, <2>4, <2>5, <2>6, <2>7 DEF Next
  <1> HIDE DEF Final
  <1>4. Spec => [][Final]_vars
    BY <1>1, <1>2, <1>3, PTL DEF Spec
  <1> QED
    BY <1>4 DEF Final, ProcessedIsFinal

----------------------------------------------------------------------------
(* The refinement of EventDelivery, under the same bound. *)

\* A step that leaves the handlers' record alone and takes no row in or out of the
\* two sets the abstract specification sees.
LEMMA HiddenStep ==
  ASSUME ran' = ran,
         \A e \in Event : /\ row'[e].status = "ABSENT" <=> row[e].status = "ABSENT"
                          /\ row'[e].status \in {"PROCESSED", "DELETED"}
                                <=> row[e].status \in {"PROCESSED", "DELETED"}
  PROVE  UNCHANGED Delivery!deliveryVars
  <1>1. Stored' = Stored
    BY DEF Stored
  <1>2. Acknowledged' = Acknowledged
    BY DEF Acknowledged
  <1> QED
    BY <1>1, <1>2 DEF Delivery!deliveryVars

LEMMA StoreStep ==
  ASSUME NEW S \in SUBSET Event, row' = Appended(S), ran' = ran
  PROVE  Delivery!DeliveryNext
  <1>1. Stored' = Stored \cup S
    BY DEF Stored, Appended
  <1>2. Acknowledged' = Acknowledged
    BY DEF Acknowledged, Appended
  <1>3. Delivery!Store(S)
    BY <1>1, <1>2 DEF Delivery!Store
  <1> QED
    BY <1>3 DEF Delivery!DeliveryNext

LEMMA ReturnStep ==
  ASSUME DeliverInv, NEW w \in Worker, HandlerReturns(w) PROVE Delivery!DeliveryNext
  <1> DEFINE e == wk[w].e
             h == wk[w].h
  <1>1. e \in Event /\ h \in 1..Handlers /\ wk[w].pc = "handle"
    BY DEF DeliverInv, BusInv, TypeOK, Call, HandlerReturns
  <1>2. Fresh(row[e])
    BY <1>1 DEF DeliverInv, Owned, Working
  <1>3. e \in Stored \ Acknowledged
    BY <1>1, <1>2 DEF Stored, Acknowledged, Fresh
  <1>4. 1..(h - 1) \subseteq ran[e]
    <2>1. \A i \in AllHandlers : i < h => i \in ran[e]
      BY <1>1 DEF DeliverInv, Progressed, Progress
    <2>2. Handlers \in Nat /\ \A i \in 1..(h - 1) : i \in AllHandlers /\ i < h
      BY <1>1, OutboxAssumption DEF AllHandlers
    <2> QED
      BY <2>1, <2>2
  <1>5. UNCHANGED <<Stored, Acknowledged>> /\ ran' = [ran EXCEPT ![e] = @ \cup {h}]
    BY DEF HandlerReturns, Stored, Acknowledged
  <1>6. Delivery!RunHandler(e, h)
    BY <1>3, <1>4, <1>5 DEF Delivery!RunHandler
  <1> QED
    BY <1>1, <1>6 DEF Delivery!DeliveryNext

LEMMA AcknowledgeStep ==
  ASSUME DeliverInv, NEW w \in Worker, MarkProcessed(w) PROVE Delivery!DeliveryNext
  <1> DEFINE e == wk[w].e
  <1>1. e \in Event /\ wk[w].pc = "processed" /\ row \in [Event -> RowRecord]
    BY DEF DeliverInv, BusInv, TypeOK, Call, MarkProcessed
  <1>2. Fresh(row[e])
    BY <1>1 DEF DeliverInv, Owned, Working
  <1>3. ran[e] = 1..Handlers
    BY <1>1 DEF DeliverInv, Progressed, Progress, AllHandlers
  <1>4. e \in Stored \ Acknowledged
    BY <1>1, <1>2 DEF Stored, Acknowledged, Fresh
  <1>5. ran' = ran /\ \A f \in Event : row'[f].status = IF f = e THEN "PROCESSED" ELSE row[f].status
    BY <1>1 DEF MarkProcessed, Mark, RowRecord
  <1>6. Stored' = Stored
    BY <1>1, <1>4, <1>5 DEF Stored
  <1>7. Acknowledged' = Acknowledged \cup {e}
    BY <1>1, <1>5 DEF Acknowledged
  <1>8. Delivery!Acknowledge(e)
    BY <1>3, <1>4, <1>5, <1>6, <1>7 DEF Delivery!Acknowledge
  <1> QED
    BY <1>1, <1>8 DEF Delivery!DeliveryNext

LEMMA NextRefines ==
  ASSUME DeliverInv, [Next]_vars PROVE [Delivery!DeliveryNext]_(Delivery!deliveryVars)
  <1>1. row \in [Event -> RowRecord] /\ \A w \in Worker : wk[w].e \in Event
    BY DEF DeliverInv, BusInv, TypeOK, Call
  <1>2. ASSUME row' = row, ran' = ran PROVE UNCHANGED Delivery!deliveryVars
    BY <1>2, HiddenStep
  <1>3. CASE UNCHANGED vars
    BY <1>2, <1>3 DEF vars
  <1>4. ASSUME NEW e \in Event, AppendTx(e) PROVE Delivery!DeliveryNext
    BY <1>4, StoreStep DEF AppendTx
  <1>5. ASSUME NEW e \in Event, GoStale(e) \/ CleanUp(e) PROVE UNCHANGED Delivery!deliveryVars
    <2>1. ran' = ran /\ \A f \in Event : f # e => row'[f] = row[f]
      BY <1>1, <1>5 DEF GoStale, CleanUp
    <2>2. \/ row[e].status = "PROCESSING" /\ row'[e].status = "PROCESSING"
          \/ row[e].status = "PROCESSED" /\ row'[e].status = "DELETED"
      BY <1>1, <1>5 DEF GoStale, CleanUp, RowRecord
    <2> QED
      BY <2>1, <2>2, HiddenStep
  <1>6. ASSUME NEW w \in Worker, NEW S \in SUBSET Event, Dispatch(w, S)
        PROVE  Delivery!DeliveryNext
    BY <1>6, StoreStep DEF Dispatch
  <1>7. ASSUME NEW w \in Worker, NEW S \in SUBSET Event,
               Drain(w) \/ Retry(w, S) \/ DatabaseFails(w)
        PROVE  UNCHANGED Delivery!deliveryVars
    BY <1>2, <1>7 DEF Drain, Retry, DatabaseFails
  <1>8. ASSUME NEW p \in Process, Crash(p) PROVE UNCHANGED Delivery!deliveryVars
    BY <1>2, <1>8 DEF Crash
  <1>9. ASSUME NEW w \in Worker, Proceed(w)
        PROVE  [Delivery!DeliveryNext]_(Delivery!deliveryVars)
    <2>1. CASE FindDispatchable(w) \/ EnterBus(w) \/ HandlerThrows(w)
      BY <1>2, <2>1 DEF FindDispatchable, EnterBus, HandlerThrows
    <2>2. ASSUME NEW e \in Event, MarkProcessing(w, e) PROVE UNCHANGED Delivery!deliveryVars
      <3>1. CASE row' = row
        BY <1>2, <2>2, <3>1 DEF MarkProcessing
      <3>2. CASE Claimable(row[e]) /\ row'[e].status = "PROCESSING"
                 /\ \A f \in Event : f # e => row'[f] = row[f]
        BY <2>2, <3>2, HiddenStep DEF MarkProcessing, Claimable
      <3> QED
        BY <1>1, <2>2, <3>1, <3>2 DEF MarkProcessing
    <2>3. CASE MarkFailed(w)
      <3>1. Fresh(row[wk[w].e])
        BY <1>1, <2>3 DEF DeliverInv, Owned, Working, MarkFailed
      <3>2. ran' = ran /\ \A f \in Event :
               row'[f].status = IF f = wk[w].e THEN "FAILED" ELSE row[f].status
        BY <1>1, <2>3 DEF MarkFailed, Mark, RowRecord
      <3> QED
        BY <3>1, <3>2, HiddenStep DEF Fresh
    <2>4. CASE HandlerReturns(w)
      BY <2>4, ReturnStep
    <2>5. CASE MarkProcessed(w)
      BY <2>5, AcknowledgeStep
    <2> QED
      BY <1>9, <2>1, <2>2, <2>3, <2>4, <2>5 DEF Proceed
  <1>10. \A w \in Worker : Drain(w) \/ DatabaseFails(w)
            => \E S \in SUBSET Event : Drain(w) \/ DatabaseFails(w)
    OBVIOUS
  <1> QED
    BY <1>3, <1>4, <1>5, <1>6, <1>7, <1>8, <1>9, <1>10 DEF Next

LEMMA InitRefines == ASSUME Init PROVE Delivery!DeliveryInit
  <1>1. \A e \in Event : row[e].status = "ABSENT"
    BY DEF Init
  <1>2. Stored = {} /\ Acknowledged = {}
    BY <1>1 DEF Stored, Acknowledged
  <1>3. ran = [e \in Event |-> {}]
    BY DEF Init
  <1> QED
    BY <1>2, <1>3 DEF Delivery!DeliveryInit

\* The outbox, with its rows, workers, processes, retries and crashes, implements
\* EventDelivery for any number of events, workers, processes and handlers: every
\* step is a step of the abstract specification or hidden from it.
THEOREM OutboxImplementsDelivery ==
  ASSUME "slow" \notin Faults PROVE Spec => ImplementsDelivery
  <1>1. Init => DeliverInv /\ Delivery!DeliveryInit
    BY InitDelivers, InitRefines
  <1>2. DeliverInv /\ [Next]_vars => DeliverInv'
    BY NextDelivers
  <1>3. DeliverInv /\ [Next]_vars => [Delivery!DeliveryNext]_(Delivery!deliveryVars)
    BY NextRefines
  <1> QED
    BY <1>1, <1>2, <1>3, PTL DEF Spec, ImplementsDelivery, Delivery!DeliverySpec

\* Rows, calls and the bus's sets keep their shape in every reachable state.
THEOREM OutboxTypeCorrect == Spec => []TypeOK
  <1>1. Init => TypeOK
    BY InitTypeOK
  <1>2. TypeOK /\ [Next]_vars => TypeOK'
    BY NextTypeOK
  <1> QED
    BY <1>1, <1>2, PTL DEF Spec

=============================================================================
