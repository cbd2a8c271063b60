-------------------------- MODULE HybridSyncProofs --------------------------
(***************************************************************************)
(* Proofs about HybridSync for any operations, any number of rounds that   *)
(* overlap and any bounds: no operation is ever lost from the queue,       *)
(* doubled in it or given up early, and the queue delivers them as         *)
(* SyncDelivery promises.                                                  *)
(***************************************************************************)
EXTENDS HybridSync, FiniteSetTheorems, TLAPS

-----------------------------------------------------------------------------
(* Queues without repetitions.                                             *)

Distinct(q) == \A i, j \in DOMAIN q : q[i] = q[j] => i = j

LEMMA HeadRemoved ==
  ASSUME NEW S, NEW q \in Seq(S), q # <<>>, Distinct(q)
  PROVE  /\ Head(q) \in ToSet(q) /\ Head(q) \in S
         /\ Tail(q) \in Seq(S) /\ Distinct(Tail(q))
         /\ ToSet(Tail(q)) = ToSet(q) \ {Head(q)}
<1>1. /\ Len(q) \in Nat /\ Len(q) >= 1 /\ DOMAIN q = 1 .. Len(q)
      /\ Head(q) = q[1] /\ Tail(q) \in Seq(S) /\ Len(Tail(q)) = Len(q) - 1
      /\ \A i \in 1 .. Len(q) - 1 : Tail(q)[i] = q[i + 1]
  OBVIOUS
<1>2. DOMAIN Tail(q) = 1 .. Len(q) - 1
  BY <1>1
<1>3. Distinct(Tail(q))
  BY <1>1, <1>2 DEF Distinct
<1>4. ASSUME NEW x \in ToSet(Tail(q)) PROVE x \in ToSet(q) \ {Head(q)}
  <2>1. PICK i \in 1 .. Len(q) - 1 : x = Tail(q)[i]
    BY <1>2, <1>4 DEF ToSet
  <2>2. x = q[i + 1] /\ i + 1 \in DOMAIN q /\ 1 \in DOMAIN q /\ i + 1 # 1
    BY <1>1, <2>1
  <2> QED
    BY <1>1, <2>2 DEF Distinct, ToSet
<1>5. ASSUME NEW x \in ToSet(q) \ {Head(q)} PROVE x \in ToSet(Tail(q))
  <2>1. PICK i \in 1 .. Len(q) : x = q[i]
    BY <1>1, <1>5 DEF ToSet
  <2>2. i - 1 \in 1 .. Len(q) - 1
    BY <1>1, <1>5, <2>1
  <2>3. Tail(q)[i - 1] = x
    BY <1>1, <2>1, <2>2
  <2> QED
    BY <1>2, <2>2, <2>3 DEF ToSet
<1>6. Head(q) \in ToSet(q) /\ Head(q) \in S
  BY <1>1 DEF ToSet
<1> QED
  BY <1>1, <1>3, <1>4, <1>5, <1>6

LEMMA LastAdded ==
  ASSUME NEW S, NEW q \in Seq(S), Distinct(q), NEW x \in S, x \notin ToSet(q)
  PROVE  /\ Append(q, x) \in Seq(S) /\ Distinct(Append(q, x))
         /\ ToSet(Append(q, x)) = ToSet(q) \cup {x}
<1> DEFINE n == Len(q)
           longer == Append(q, x)
<1>1. /\ n \in Nat /\ DOMAIN q = 1 .. n /\ longer \in Seq(S)
      /\ DOMAIN longer = 1 .. n + 1 /\ longer[n + 1] = x
      /\ \A i \in 1 .. n : longer[i] = q[i]
  OBVIOUS
<1>2. \A i \in 1 .. n : q[i] # x
  BY <1>1 DEF ToSet
<1>3. Distinct(longer)
  BY <1>1, <1>2 DEF Distinct
<1>4. ASSUME NEW y \in ToSet(longer) PROVE y \in ToSet(q) \cup {x}
  BY <1>1, <1>4 DEF ToSet
<1>5. ASSUME NEW y \in ToSet(q) \cup {x} PROVE y \in ToSet(longer)
  <2>1. CASE y = x
    <3>1. n + 1 \in DOMAIN longer /\ longer[n + 1] = y
      BY <1>1, <2>1
    <3> QED
      BY <3>1 DEF ToSet
  <2>2. CASE y \in ToSet(q)
    <3>1. PICK i \in 1 .. n : q[i] = y
      BY <1>1, <2>2 DEF ToSet
    <3>2. i \in DOMAIN longer /\ longer[i] = y
      BY <1>1, <3>1
    <3> QED
      BY <3>2 DEF ToSet
  <2> QED
    BY <1>5, <2>1, <2>2
<1> QED
  BY <1>1, <1>3, <1>4, <1>5

-----------------------------------------------------------------------------
(* The inductive invariant of the queue.                                   *)

Statuses == {"NEW", "PENDING", "COMPLETED", "FAILED", "LOST"}

Phases == {"idle", "nonce", "estimate", "broadcast", "wait", "audit"}

Rest == [op: Ops \cup {NoOp}, nonce: Nat, at: Phases]

QueueTypes ==
  /\ slots \in Seq(Ops \X Nat)
  /\ syncQueue \in Seq(Ops)
  /\ status \in [Ops -> Statuses]
  /\ retryCount \in [Ops -> Nat]
  /\ \A op \in Ops : retryCount[op] <= MaxRetries[op]
  /\ round \in [Rounds -> Rest]

(* A round has an operation exactly while it awaits something.             *)
RoundsBusy == \A r \in Rounds : round[r].op = NoOp <=> round[r].at = "idle"

QueueInv == QueueTypes /\ RoundsBusy /\ OperationsAccounted

OnePlace ==
  \A q, r \in Rounds : round[q].op = round[r].op /\ round[q].op # NoOp => q = r

LEMMA Accounted ==
  OperationsAccounted <=>
    /\ {op \in Ops : status[op] = "PENDING"} = Waiting \cup WorkedOn
    /\ Waiting \cap WorkedOn = {}
    /\ Distinct(syncQueue)
    /\ OnePlace
    /\ \A op \in Ops : status[op] = "FAILED" => retryCount[op] = MaxRetries[op]
BY DEF OperationsAccounted, Distinct, OnePlace

LEMMA InitQueueInv == Init => QueueInv
<1> SUFFICES ASSUME Init PROVE QueueInv
  OBVIOUS
<1>1. QueueTypes /\ RoundsBusy
  BY OperationsAssumption
     DEF Init, QueueTypes, RoundsBusy, Statuses, Phases, Rest, Idle
<1>2. Waiting = {} /\ WorkedOn = {} /\ Distinct(syncQueue)
  BY DEF Init, Waiting, WorkedOn, ToSet, Idle, Distinct
<1>3. OnePlace
  BY DEF Init, Idle, OnePlace
<1> QED
  BY <1>1, <1>2, <1>3, Accounted DEF Init, QueueInv

(* What the rounds work on after one of them takes an operation, after one *)
(* ends, and while they go on.                                             *)
LEMMA RoundTaken ==
  ASSUME OnePlace, NEW r \in Rounds, NEW op \in Ops, op \notin WorkedOn,
         round[r].op = NoOp, round'[r].op = op,
         \A q \in Rounds \ {r} : round'[q].op = round[q].op
  PROVE  WorkedOn' = WorkedOn \cup {op} /\ OnePlace'
<1>1. NoOp \notin Ops /\ op # NoOp
  BY OperationsAssumption
<1>2. \A q \in Rounds : round[q].op # op
  BY <1>1 DEF WorkedOn
<1>3. WorkedOn' = WorkedOn \cup {op}
  BY <1>1 DEF WorkedOn
<1>4. OnePlace'
  BY <1>1, <1>2 DEF OnePlace
<1> QED
  BY <1>3, <1>4

LEMMA RoundEnded ==
  ASSUME OnePlace, NEW r \in Rounds, round[r].op # NoOp, round'[r].op = NoOp,
         \A q \in Rounds \ {r} : round'[q].op = round[q].op
  PROVE  WorkedOn' = WorkedOn \ {round[r].op} /\ OnePlace'
BY DEF WorkedOn, OnePlace

LEMMA RoundsGoOn ==
  ASSUME OnePlace, \A q \in Rounds : round'[q].op = round[q].op
  PROVE  WorkedOn' = WorkedOn /\ OnePlace'
BY DEF WorkedOn, OnePlace

LEMMA Pending ==
  ASSUME QueueInv, NEW op \in Ops
  PROVE  status[op] = "PENDING" <=> op \in Waiting \cup WorkedOn
BY Accounted DEF QueueInv

-----------------------------------------------------------------------------
(* The end of an operation, which its round or the timer holds: it is in   *)
(* no place any more, or back at the end of the queue.                     *)

LEMMA Ends ==
  ASSUME QueueInv, NEW op \in Ops, NEW queue \in Seq(Ops), Distinct(queue),
         op \notin ToSet(queue), op \notin WorkedOn',
         status[op] = "PENDING",
         ToSet(queue) \cup WorkedOn' = (Waiting \cup WorkedOn) \ {op},
         ToSet(queue) \cap WorkedOn' = {},
         OnePlace', Complete(op, queue) \/ FailOrRetry(op, queue)
  PROVE  /\ OperationsAccounted'
         /\ syncQueue' \in Seq(Ops)
         /\ status' \in [Ops -> Statuses]
         /\ retryCount' \in [Ops -> Nat]
         /\ \A o \in Ops : retryCount'[o] <= MaxRetries[o]
<1>1. /\ status \in [Ops -> Statuses] /\ retryCount \in [Ops -> Nat]
      /\ \A o \in Ops : retryCount[o] <= MaxRetries[o] /\ MaxRetries[o] \in Nat
      /\ \A o \in Ops : status[o] = "FAILED" => retryCount[o] = MaxRetries[o]
  BY Accounted, OperationsAssumption DEF QueueInv, QueueTypes
<1>2. \A o \in Ops : status[o] = "PENDING" <=> o \in Waiting \cup WorkedOn
  BY Pending
<1>3. \A o \in WorkedOn' : o \in Ops
  <2>1. Waiting \cup WorkedOn \subseteq Ops
    BY Accounted DEF QueueInv
  <2> QED
    BY <2>1
<1>4. CASE /\ syncQueue' = queue /\ retryCount' = retryCount
           /\ \E st \in {"COMPLETED", "FAILED"} :
                 /\ status' = [status EXCEPT ![op] = st]
                 /\ st = "FAILED" => retryCount[op] = MaxRetries[op]
  <2>1. Waiting' = ToSet(queue)
    BY <1>4 DEF Waiting
  <2>2. /\ status' \in [Ops -> Statuses]
        /\ \A o \in Ops :
             status'[o] = "PENDING" <=> o # op /\ status[o] = "PENDING"
        /\ \A o \in Ops : status'[o] = "FAILED" => retryCount[o] = MaxRetries[o]
    BY <1>1, <1>4 DEF Statuses
  <2>3. {o \in Ops : status'[o] = "PENDING"} = (Waiting \cup WorkedOn) \ {op}
    <3>1. Waiting \cup WorkedOn \subseteq Ops
      BY Accounted DEF QueueInv
    <3> QED
      BY <1>2, <2>2, <3>1
  <2>4. OperationsAccounted'
    BY <1>4, <2>1, <2>2, <2>3
       DEF OperationsAccounted, Distinct, OnePlace
  <2> QED
    BY <1>1, <1>4, <2>2, <2>4
<1>5. CASE /\ syncQueue' = Append(queue, op) /\ status' = status
           /\ retryCount[op] < MaxRetries[op]
           /\ retryCount' = [retryCount EXCEPT ![op] = CountRetry(@)]
  <2>1. /\ syncQueue' \in Seq(Ops) /\ Distinct(syncQueue')
        /\ ToSet(syncQueue') = ToSet(queue) \cup {op}
    BY <1>5, LastAdded
  <2>2. /\ retryCount' \in [Ops -> Nat]
        /\ \A o \in Ops : retryCount'[o] <= MaxRetries[o]
        /\ \A o \in Ops :
             status'[o] = "FAILED" => retryCount'[o] = MaxRetries[o]
    BY <1>1, <1>5 DEF CountRetry
  <2>3. op \in Waiting \cup WorkedOn
    BY <1>2
  <2>4. {o \in Ops : status'[o] = "PENDING"} = Waiting' \cup WorkedOn'
    <3>1. {o \in Ops : status[o] = "PENDING"} = Waiting \cup WorkedOn
      BY Accounted DEF QueueInv
    <3> QED
      BY <1>5, <2>1, <2>3, <3>1 DEF Waiting
  <2>5. Waiting' \cap WorkedOn' = {}
    BY <2>1 DEF Waiting
  <2>6. OperationsAccounted'
    BY <2>1, <2>2, <2>4, <2>5 DEF OperationsAccounted, Distinct, OnePlace
  <2> QED
    BY <1>1, <1>5, <2>1, <2>2, <2>6
<1> QED
  BY <1>1, <1>4, <1>5 DEF Complete, FailOrRetry, RetriesLeft

-----------------------------------------------------------------------------
(* The steps of the queue and of the rounds.                               *)

LEMMA EnqueueInv ==
  ASSUME QueueInv, NEW op \in Ops, Enqueue(op)
  PROVE  QueueInv'
<1>1. /\ status[op] = "NEW" /\ syncQueue' = Append(syncQueue, op)
      /\ status' = [status EXCEPT ![op] = "PENDING"]
      /\ UNCHANGED <<slots, retryCount, round>>
  BY DEF Enqueue, nodeVars
<1>2. op \notin Waiting /\ op \notin WorkedOn
  BY <1>1, Pending
<1>3. /\ syncQueue' \in Seq(Ops) /\ Distinct(syncQueue')
      /\ Waiting' = Waiting \cup {op}
  BY <1>1, <1>2, Accounted, LastAdded DEF QueueInv, QueueTypes, Waiting
<1>4. WorkedOn' = WorkedOn /\ OnePlace'
  BY <1>1, Accounted, RoundsGoOn DEF QueueInv
<1>5. {o \in Ops : status'[o] = "PENDING"} = Waiting' \cup WorkedOn'
  <2>1. {o \in Ops : status[o] = "PENDING"} = Waiting \cup WorkedOn
    BY Accounted DEF QueueInv
  <2>2. \A o \in Ops :
          status'[o] = "PENDING" <=> o = op \/ status[o] = "PENDING"
    BY <1>1 DEF QueueInv, QueueTypes
  <2> QED
    BY <1>3, <1>4, <2>1, <2>2
<1>6. Waiting' \cap WorkedOn' = {}
  BY <1>2, <1>3, <1>4, Accounted DEF QueueInv
<1>7. \A o \in Ops : status'[o] = "FAILED" => retryCount'[o] = MaxRetries[o]
  BY <1>1, Accounted DEF QueueInv, QueueTypes
<1>8. OperationsAccounted'
  BY <1>3, <1>4, <1>5, <1>6, <1>7
     DEF OperationsAccounted, Distinct, OnePlace
<1> QED
  BY <1>1, <1>3, <1>8
     DEF QueueInv, QueueTypes, RoundsBusy, Statuses

(* What the timer finds at the head of the queue.                          *)
LEMMA HeadPending ==
  ASSUME QueueInv, syncQueue # <<>>
  PROVE  /\ Head(syncQueue) \in Ops /\ status[Head(syncQueue)] = "PENDING"
         /\ Head(syncQueue) \notin WorkedOn
         /\ Tail(syncQueue) \in Seq(Ops) /\ Distinct(Tail(syncQueue))
         /\ ToSet(Tail(syncQueue)) = Waiting \ {Head(syncQueue)}
<1>1. syncQueue \in Seq(Ops) /\ Distinct(syncQueue)
  BY Accounted DEF QueueInv, QueueTypes
<1>2. Head(syncQueue) \in Waiting /\ Head(syncQueue) \in Ops
  BY <1>1, HeadRemoved DEF Waiting
<1> QED
  BY <1>1, <1>2, HeadRemoved, Accounted, Pending DEF QueueInv, Waiting

(* The timer ends an operation on the spot.                                *)
LEMMA EndsAtOnce ==
  ASSUME QueueInv, syncQueue # <<>>, UNCHANGED <<slots, round>>,
         \/ Complete(Head(syncQueue), Shifted(syncQueue))
         \/ FailOrRetry(Head(syncQueue), Shifted(syncQueue))
  PROVE  QueueInv'
<1> DEFINE op == Head(syncQueue)
           queue == Tail(syncQueue)
<1>1. /\ op \in Ops /\ status[op] = "PENDING" /\ op \notin WorkedOn
      /\ queue \in Seq(Ops) /\ Distinct(queue)
      /\ ToSet(queue) = Waiting \ {op}
  BY HeadPending
<1>2. WorkedOn' = WorkedOn /\ OnePlace'
  BY Accounted, RoundsGoOn DEF QueueInv
<1>3. /\ op \notin ToSet(queue) /\ op \notin WorkedOn'
      /\ ToSet(queue) \cup WorkedOn' = (Waiting \cup WorkedOn) \ {op}
      /\ ToSet(queue) \cap WorkedOn' = {}
  BY <1>1, <1>2, Accounted DEF QueueInv
<1>4. Complete(op, queue) \/ FailOrRetry(op, queue)
  BY DEF Shifted
<1>5. /\ OperationsAccounted' /\ syncQueue' \in Seq(Ops)
      /\ status' \in [Ops -> Statuses] /\ retryCount' \in [Ops -> Nat]
      /\ \A o \in Ops : retryCount'[o] <= MaxRetries[o]
  <2> HIDE DEF op, queue
  <2> QED
    BY <1>1, <1>2, <1>3, <1>4, Ends
<1> QED
  BY <1>5 DEF QueueInv, QueueTypes, RoundsBusy

(* The timer starts a round.                                               *)
LEMMA RoundStarts ==
  ASSUME QueueInv, syncQueue # <<>>, NEW r \in Rounds, round[r].at = "idle",
         UNCHANGED <<slots, status, retryCount>>,
         syncQueue' = Shifted(syncQueue),
         round' = [round EXCEPT ![r] = [op |-> Head(syncQueue),
                                        at |-> "nonce", nonce |-> 0]]
  PROVE  QueueInv'
<1> DEFINE op == Head(syncQueue)
<1>1. /\ op \in Ops /\ op \notin WorkedOn
      /\ syncQueue' \in Seq(Ops) /\ Distinct(syncQueue')
      /\ Waiting' = Waiting \ {op} /\ op \in Waiting
  <2>1. op \in Waiting
    BY HeadRemoved, Accounted DEF QueueInv, QueueTypes, Waiting
  <2> QED
    BY <2>1, HeadPending DEF Shifted, Waiting
<1>2. /\ round[r].op = NoOp /\ round'[r].op = op
      /\ \A q \in Rounds \ {r} : round'[q].op = round[q].op
  BY DEF QueueInv, QueueTypes, RoundsBusy
<1>3. WorkedOn' = WorkedOn \cup {op} /\ OnePlace'
  <2> HIDE DEF op
  <2> QED
    BY <1>1, <1>2, Accounted, RoundTaken DEF QueueInv
<1>4. OperationsAccounted'
  <2>1. {o \in Ops : status'[o] = "PENDING"} = Waiting' \cup WorkedOn'
    BY <1>1, <1>3, Accounted DEF QueueInv
  <2>2. Waiting' \cap WorkedOn' = {}
    BY <1>1, <1>3, Accounted DEF QueueInv
  <2> QED
    BY <1>1, <1>3, <2>1, <2>2, Accounted
       DEF QueueInv, OperationsAccounted, Distinct, OnePlace
<1>5. QueueTypes' /\ RoundsBusy'
  BY <1>1, OperationsAssumption
     DEF QueueInv, QueueTypes, RoundsBusy, Rest, Phases
<1> QED
  BY <1>4, <1>5 DEF QueueInv

LEMMA TickInv ==
  ASSUME QueueInv, NEW r \in Rounds, Tick(r)
  PROVE  QueueInv'
<1>1. syncQueue # <<>> /\ round[r].at = "idle" /\ slots' = slots
  BY DEF Tick, At, nodeVars
<1>2. CASE /\ UNCHANGED round
           /\ \/ Complete(Head(syncQueue), Shifted(syncQueue))
              \/ FailOrRetry(Head(syncQueue), Shifted(syncQueue))
  BY <1>1, <1>2, EndsAtOnce
<1>3. CASE /\ UNCHANGED <<status, retryCount>>
           /\ syncQueue' = Shifted(syncQueue)
           /\ round' = [round EXCEPT ![r] = [op |-> Head(syncQueue),
                                             at |-> "nonce", nonce |-> 0]]
  BY <1>1, <1>3, RoundStarts
<1> QED
  BY <1>2, <1>3 DEF Tick, syncFineToPublic, syncStatusUpdate, CallContract

(* A round ends, well or not.                                              *)
LEMMA RoundEnds ==
  ASSUME QueueInv, NEW r \in Rounds, round[r].at # "idle",
         Finish(r) \/ Fail(r), slots' \in Seq(Ops \X Nat)
  PROVE  QueueInv'
<1> DEFINE op == round[r].op
<1>1. /\ op \in Ops /\ op # NoOp /\ op \in WorkedOn
      /\ syncQueue \in Seq(Ops)
  BY OperationsAssumption
     DEF QueueInv, QueueTypes, RoundsBusy, Rest, WorkedOn
<1>2. /\ round' = [round EXCEPT ![r] = Idle]
      /\ round'[r].op = NoOp
      /\ \A q \in Rounds \ {r} : round'[q].op = round[q].op
  BY DEF Finish, Fail, Idle, QueueInv, QueueTypes
<1>3. WorkedOn' = WorkedOn \ {op} /\ OnePlace'
  BY <1>1, <1>2, Accounted, RoundEnded DEF QueueInv
<1>4. /\ Distinct(syncQueue) /\ status[op] = "PENDING"
      /\ op \notin ToSet(syncQueue) /\ op \notin WorkedOn'
      /\ ToSet(syncQueue) \cup WorkedOn' = (Waiting \cup WorkedOn) \ {op}
      /\ ToSet(syncQueue) \cap WorkedOn' = {}
  BY <1>1, <1>3, Accounted, Pending DEF QueueInv, Waiting
<1>5. Complete(op, syncQueue) \/ FailOrRetry(op, syncQueue)
  BY DEF Finish, Fail
<1>6. /\ OperationsAccounted' /\ syncQueue' \in Seq(Ops)
      /\ status' \in [Ops -> Statuses] /\ retryCount' \in [Ops -> Nat]
      /\ \A o \in Ops : retryCount'[o] <= MaxRetries[o]
  <2> HIDE DEF op
  <2> QED
    BY <1>1, <1>3, <1>4, <1>5, Ends
<1>7. round' \in [Rounds -> Rest] /\ RoundsBusy'
  BY <1>2 DEF QueueInv, QueueTypes, RoundsBusy, Rest, Phases, Idle
<1> QED
  BY <1>6, <1>7 DEF QueueInv, QueueTypes

(* A round goes on with its operation.                                     *)
LEMMA RoundGoesOn ==
  ASSUME QueueInv, NEW r \in Rounds, round[r].at # "idle",
         NEW phase \in Phases \ {"idle"}, NEW n \in Nat,
         round' = [round EXCEPT ![r].nonce = n, ![r].at = phase],
         UNCHANGED queueVars, slots' \in Seq(Ops \X Nat)
  PROVE  QueueInv'
<1>1. /\ round \in [Rounds -> Rest] /\ round[r] \in Rest
      /\ round[r].op # NoOp
  BY DEF QueueInv, QueueTypes, RoundsBusy
<1>2. /\ round' \in [Rounds -> Rest]
      /\ \A q \in Rounds : round'[q].op = round[q].op
      /\ round'[r].at = phase /\ \A q \in Rounds \ {r} : round'[q] = round[q]
  <2>1. [round[r] EXCEPT !.nonce = n, !.at = phase] \in Rest
    BY <1>1 DEF Rest
  <2>2. /\ round'[r] = [round[r] EXCEPT !.nonce = n, !.at = phase]
        /\ \A q \in Rounds \ {r} : round'[q] = round[q]
        /\ round' \in [Rounds -> Rest]
    BY <1>1, <2>1
  <2> QED
    BY <1>1, <2>2 DEF Rest
<1>3. WorkedOn' = WorkedOn /\ OnePlace'
  BY <1>2, Accounted, RoundsGoOn DEF QueueInv
<1>4. UNCHANGED <<syncQueue, status, retryCount>>
  BY DEF queueVars
<1>5. RoundsBusy'
  BY <1>1, <1>2 DEF QueueInv, RoundsBusy
<1>6. OperationsAccounted'
  BY <1>3, <1>4, Accounted
     DEF QueueInv, OperationsAccounted, Waiting, Distinct, OnePlace
<1> QED
  BY <1>2, <1>4, <1>5, <1>6 DEF QueueInv, QueueTypes

LEMMA AwaitInv ==
  ASSUME QueueInv, NEW r \in Rounds, round[r].at # "idle",
         NEW phase \in Phases \ {"idle"}, Await(r, phase),
         slots' \in Seq(Ops \X Nat)
  PROVE  QueueInv'
<1>1. round[r].nonce \in Nat /\ round[r] \in Rest
  BY DEF QueueInv, QueueTypes, Rest
<1>2. round' = [round EXCEPT ![r].nonce = round[r].nonce, ![r].at = phase]
  BY <1>1 DEF Await, QueueInv, QueueTypes, Rest
<1> QED
  BY <1>1, <1>2, RoundGoesOn DEF Await

(* What is sent is always a try of an operation, in the next place or in   *)
(* the place of one that is not mined.                                     *)
LEMMA BroadcastTypes ==
  ASSUME QueueInv, NEW r \in Rounds, Broadcast(r)
  PROVE  slots' \in Seq(Ops \X Nat)
<1> DEFINE n == round[r].nonce + 1
           t == Try(round[r].op)
<1>1. round[r] \in Rest /\ round[r].op # NoOp /\ slots \in Seq(Ops \X Nat)
  BY DEF QueueInv, QueueTypes, RoundsBusy, Broadcast, At
<1>2. t \in Ops \X Nat /\ n \in Nat /\ n >= 1
  BY <1>1 DEF Try, Rest, QueueInv, QueueTypes
<1>3. slots' = IF n > Len(slots) THEN Append(slots, t)
                                 ELSE [slots EXCEPT ![n] = t]
  BY DEF Broadcast
<1>4. CASE n > Len(slots)
  BY <1>1, <1>2, <1>3, <1>4
<1>5. CASE ~ (n > Len(slots))
  <2> HIDE DEF t, n
  <2> QED
    BY <1>1, <1>2, <1>3, <1>5
<1> QED
  BY <1>4, <1>5

LEMMA RoundInv ==
  ASSUME QueueInv, NEW r \in Rounds, Proceed(r) \/ CallFails(r)
  PROVE  QueueInv'
<1>1. slots \in Seq(Ops \X Nat) /\ Len(slots) \in Nat
  BY DEF QueueInv, QueueTypes
<1>2. /\ "estimate" \in Phases \ {"idle"} /\ "broadcast" \in Phases \ {"idle"}
      /\ "wait" \in Phases \ {"idle"} /\ "audit" \in Phases \ {"idle"}
  BY DEF Phases
<1>3. CASE GetNonce(r)
  <2>1. UNCHANGED queueVars /\ slots' = slots /\ round[r].at # "idle"
    BY <1>3 DEF GetNonce, At, nodeVars
  <2> QED
    BY <1>1, <1>2, <1>3, <2>1, RoundGoesOn DEF GetNonce
<1>4. CASE EstimateGas(r)
  <2>1. slots' = slots /\ round[r].at # "idle"
    BY <1>4 DEF EstimateGas, At, nodeVars
  <2> QED
    BY <1>1, <1>2, <1>4, <2>1, AwaitInv, RoundEnds DEF EstimateGas
<1>5. CASE Broadcast(r)
  <2>1. slots' \in Seq(Ops \X Nat) /\ round[r].at # "idle"
    BY <1>5, BroadcastTypes DEF Broadcast, At
  <2> QED
    BY <1>2, <1>5, <2>1, AwaitInv, RoundEnds DEF Broadcast
<1>6. CASE Refused(r)
  <2>1. slots' = slots /\ round[r].at # "idle"
    BY <1>6 DEF Refused, At, nodeVars
  <2> QED
    BY <1>1, <1>6, <2>1, RoundEnds DEF Refused
<1>7. CASE Settle(r)
  <2>1. slots' = slots /\ round[r].at # "idle"
    BY <1>7 DEF Settle, At, nodeVars
  <2>2. Await(r, "audit") \/ Fail(r)
    BY <1>7 DEF Settle
  <2> QED
    BY <1>1, <1>2, <2>1, <2>2, AwaitInv, RoundEnds
<1>8. CASE Audit(r)
  <2>1. slots' = slots /\ round[r].at # "idle"
    BY <1>8 DEF Audit, At, nodeVars
  <2> QED
    BY <1>1, <1>8, <2>1, RoundEnds DEF Audit
<1>9. CASE CallFails(r)
  <2>1. slots' = slots /\ round[r].at # "idle"
    BY <1>9 DEF CallFails, nodeVars
  <2> QED
    BY <1>1, <1>9, <2>1, RoundEnds DEF CallFails
<1> QED
  BY <1>3, <1>4, <1>5, <1>6, <1>7, <1>8, <1>9 DEF Proceed

(* A process that ends takes its queue along, but leaves no trace of an    *)
(* operation that would still be thought to be on its way.                 *)
LEMMA CrashInv ==
  ASSUME QueueInv, Crash
  PROVE  QueueInv'
<1>1. /\ syncQueue' = <<>> /\ round' = [r \in Rounds |-> Idle]
      /\ status' = [op \in Ops |-> IF status[op] = "PENDING"
                                   THEN "LOST" ELSE status[op]]
      /\ UNCHANGED <<slots, retryCount>>
  BY DEF Crash, nodeVars
<1>2. Waiting' = {} /\ WorkedOn' = {} /\ OnePlace' /\ Distinct(syncQueue')
  BY <1>1 DEF Waiting, ToSet, WorkedOn, Idle, OnePlace, Distinct
<1>3. {op \in Ops : status'[op] = "PENDING"} = {}
  BY <1>1
<1>4. \A op \in Ops : status'[op] = "FAILED" => retryCount'[op] = MaxRetries[op]
  BY <1>1, Accounted DEF QueueInv
<1>5. OperationsAccounted'
  BY <1>2, <1>3, <1>4 DEF OperationsAccounted, Distinct, OnePlace
<1>6. QueueTypes' /\ RoundsBusy'
  BY <1>1
     DEF QueueInv, QueueTypes, RoundsBusy, Statuses, Phases, Rest, Idle
<1> QED
  BY <1>5, <1>6 DEF QueueInv

LEMMA QueueLeftAlone ==
  ASSUME QueueInv, UNCHANGED <<slots, queueVars, round>>
  PROVE  QueueInv'
BY DEF QueueInv, QueueTypes, RoundsBusy, OperationsAccounted, Waiting,
       WorkedOn, queueVars

THEOREM QueueSound == Spec => []QueueInv
<1>1. ASSUME QueueInv, [Next]_vars PROVE QueueInv'
  <2>1. CASE \E op \in Ops : Enqueue(op)
    BY <1>1, <2>1, EnqueueInv
  <2>2. CASE \E r \in Rounds : Tick(r) \/ Proceed(r) \/ CallFails(r)
    BY <1>1, <2>2, TickInv, RoundInv
  <2>3. CASE Crash
    BY <1>1, <2>3, CrashInv
  <2>4. CASE UNCHANGED <<slots, queueVars, round>>
    BY <1>1, <2>4, QueueLeftAlone
  <2> QED
    BY <1>1, <2>1, <2>2, <2>3, <2>4
       DEF Next, MineTransaction, Transact, vars, nodeVars
<1> QED
  BY <1>1, InitQueueInv, PTL DEF Spec

(* However many rounds overlap and whatever fails, stops or ends: each     *)
(* operation that is PENDING waits in the queue once or is worked on by    *)
(* one round, and none is given up before its retries are used up.         *)
THEOREM OperationsKept == Spec => []OperationsAccounted
<1>1. QueueInv => OperationsAccounted
  BY DEF QueueInv
<1> QED
  BY <1>1, QueueSound, PTL

-----------------------------------------------------------------------------
(* What was sent.                                                          *)

BeforeSending == {"nonce", "estimate", "broadcast"}

(* The operation is yet to be tried: it waits, or its round has not sent   *)
(* anything.                                                               *)
Fresh(op) ==
  \/ op \in Waiting
  \/ \E r \in Rounds : round[r].op = op /\ round[r].at \in BeforeSending

Effected(op) ==
  {n \in DOMAIN outcome : slots[n][1] = op /\ outcome[n] = "success"}

OutcomeTypes ==
  /\ outcome \in Seq({"success", "reverted"})
  /\ Len(outcome) <= Len(slots)

(* No try is sent twice, none is sent before it is granted, and an audit   *)
(* follows only a transaction that succeeded.                              *)
SentOnce == \A m, n \in DOMAIN slots : slots[m] = slots[n] => m = n

SentGranted ==
  \A n \in DOMAIN slots : LET op == slots[n][1] IN
     status[op] # "NEW" /\ slots[n][2] <= retryCount[op]

FreshUnsent ==
  \A op \in Ops : Fresh(op) => \A n \in DOMAIN slots : slots[n] # Try(op)

NewUntried == \A op \in Ops : status[op] = "NEW" => retryCount[op] = 0

AuditsEffected ==
  \A r \in Rounds : round[r].at = "audit" => Effected(round[r].op) # {}

TryInv ==
  /\ OutcomeTypes
  /\ SentOnce
  /\ SentGranted
  /\ FreshUnsent
  /\ NewUntried
  /\ AuditsEffected

LEMMA InitTryInv == Init => TryInv
<1> SUFFICES ASSUME Init PROVE TryInv
  OBVIOUS
<1>1. slots = <<>> /\ outcome = <<>> /\ round = [r \in Rounds |-> Idle]
      /\ retryCount = [op \in Ops |-> 0]
  BY DEF Init
<1> QED
  BY <1>1 DEF TryInv, OutcomeTypes, SentOnce, SentGranted, FreshUnsent,
              NewUntried, AuditsEffected, Idle

(* What a step may do to the tries of an operation and to the outcome that *)
(* a round waits for.                                                      *)
KeepsTries(op) ==
  /\ retryCount[op] \in Nat /\ retryCount'[op] \in Nat
  /\ retryCount[op] <= retryCount'[op]
  /\ status'[op] = "NEW" =>
        status[op] = "NEW" /\ retryCount'[op] = retryCount[op]
  /\ Fresh(op)' => \/ Fresh(op) /\ retryCount'[op] = retryCount[op]
                   \/ status[op] = "NEW"
                   \/ retryCount[op] < retryCount'[op]

KeepsAudit(r) ==
  round'[r].at = "audit" =>
    round'[r].op = round[r].op /\ (round[r].at = "audit" \/ Confirmed(r))

(* A step that sends nothing.                                              *)
LEMMA NothingSent ==
  ASSUME QueueInv, TryInv, OutcomeTypes', slots' = slots,
         \A n \in DOMAIN outcome :
           n \in DOMAIN outcome' /\ outcome'[n] = outcome[n],
         \A op \in Ops : KeepsTries(op),
         \A r \in Rounds : KeepsAudit(r)
  PROVE  TryInv'
<1>1. /\ slots \in Seq(Ops \X Nat) /\ DOMAIN slots = 1 .. Len(slots)
      /\ \A n \in DOMAIN slots : slots[n] \in Ops \X Nat
  BY DEF QueueInv, QueueTypes
<1>2. SentOnce'
  BY DEF TryInv, SentOnce
<1>3. SentGranted'
  <2> SUFFICES ASSUME NEW n \in DOMAIN slots
               PROVE  /\ status'[slots[n][1]] # "NEW"
                      /\ slots[n][2] <= retryCount'[slots[n][1]]
    BY DEF SentGranted
  <2>1. slots[n][1] \in Ops /\ slots[n][2] \in Nat
    BY <1>1
  <2>2. status[slots[n][1]] # "NEW" /\ slots[n][2] <= retryCount[slots[n][1]]
    BY DEF TryInv, SentGranted
  <2> QED
    BY <2>1, <2>2 DEF KeepsTries
<1>4. FreshUnsent'
  <2> SUFFICES ASSUME NEW op \in Ops, Fresh(op)', NEW n \in DOMAIN slots,
                      slots[n] = Try(op)'
               PROVE  FALSE
    BY DEF FreshUnsent
  <2>1. slots[n][1] = op /\ slots[n][2] = retryCount'[op]
    BY DEF Try
  <2>2. status[op] # "NEW" /\ retryCount'[op] <= retryCount[op]
    BY <2>1 DEF TryInv, SentGranted
  <2>3. Fresh(op) /\ retryCount'[op] = retryCount[op]
    BY <2>2 DEF KeepsTries
  <2>4. slots[n] = Try(op)
    BY <2>3 DEF Try
  <2> QED
    BY <2>3, <2>4 DEF TryInv, FreshUnsent
<1>5. NewUntried'
  BY DEF TryInv, NewUntried, KeepsTries
<1>6. AuditsEffected'
  <2> SUFFICES ASSUME NEW r \in Rounds, round'[r].at = "audit"
               PROVE  \E n \in DOMAIN outcome' :
                         slots[n][1] = round[r].op /\ outcome'[n] = "success"
    BY DEF AuditsEffected, Effected, KeepsAudit
  <2>1. CASE round[r].at = "audit"
    <3>1. PICK n \in DOMAIN outcome :
             slots[n][1] = round[r].op /\ outcome[n] = "success"
      BY <2>1 DEF TryInv, AuditsEffected, Effected
    <3> QED
      BY <3>1
  <2>2. CASE Confirmed(r)
    <3> DEFINE n == round[r].nonce + 1
    <3>1. /\ n <= Len(outcome) /\ slots[n] = Try(round[r].op)
          /\ outcome[n] = "success"
      BY <2>2 DEF Confirmed
    <3>2. n \in DOMAIN outcome
      BY <3>1 DEF QueueInv, QueueTypes, Rest, TryInv, OutcomeTypes
    <3>3. slots[n][1] = round[r].op
      BY <3>1 DEF Try
    <3> QED
      BY <3>1, <3>2, <3>3
  <2> QED
    BY <2>1, <2>2 DEF KeepsAudit
<1> QED
  BY <1>2, <1>3, <1>4, <1>5, <1>6 DEF TryInv

(* A round that ends either gives its operation up or grants it one more   *)
(* try, which nobody has sent.                                             *)
LEMMA RoundEndKeeps ==
  ASSUME QueueInv, NEW r \in Rounds, round[r].at # "idle",
         Finish(r) \/ Fail(r)
  PROVE  /\ \A op \in Ops : KeepsTries(op)
         /\ \A op \in Ops : Fresh(op)' => \/ op # round[r].op
                                        \/ retryCount[op] < retryCount'[op]
         /\ \A q \in Rounds : KeepsAudit(q)
<1> DEFINE o == round[r].op
<1>1. /\ o \in Ops /\ o # NoOp /\ o \in WorkedOn /\ o \notin Waiting
      /\ syncQueue \in Seq(Ops) /\ Distinct(syncQueue)
      /\ status \in [Ops -> Statuses] /\ retryCount \in [Ops -> Nat]
      /\ round \in [Rounds -> Rest]
  BY OperationsAssumption, Accounted
     DEF QueueInv, QueueTypes, RoundsBusy, Rest, WorkedOn
<1>2. /\ round' = [round EXCEPT ![r] = Idle]
      /\ round'[r] = Idle /\ \A q \in Rounds \ {r} : round'[q] = round[q]
  BY <1>1 DEF Finish, Fail
<1>3. \A q \in Rounds : KeepsAudit(q)
  BY <1>2 DEF KeepsAudit, Idle
<1>4. \A op \in Ops : \A q \in Rounds :
         round'[q].op = op /\ round'[q].at \in BeforeSending
           => op # o /\ Fresh(op)
  BY <1>1, <1>2, Accounted
     DEF QueueInv, OnePlace, Idle, BeforeSending, Fresh
<1>5. CASE syncQueue' = syncQueue /\ UNCHANGED retryCount
           /\ \E st \in {"COMPLETED", "FAILED"} :
                status' = [status EXCEPT ![o] = st]
  <2>1. Waiting' = Waiting
    BY <1>5 DEF Waiting
  <2>2. \A op \in Ops : Fresh(op)' => Fresh(op) /\ op # o
    BY <1>1, <1>4, <2>1 DEF Fresh
  <2>3. \A op \in Ops : status'[op] = "NEW" => status[op] = "NEW"
    BY <1>1, <1>5
  <2> QED
    BY <1>1, <1>3, <1>5, <2>2, <2>3 DEF KeepsTries
<1>6. CASE syncQueue' = Append(syncQueue, o) /\ UNCHANGED status
           /\ retryCount' = [retryCount EXCEPT ![o] = CountRetry(@)]
  <2>1. Waiting' = Waiting \cup {o}
    BY <1>1, <1>6, LastAdded DEF Waiting
  <2>2. /\ \A op \in Ops : retryCount'[op] \in Nat
        /\ retryCount'[o] = retryCount[o] + 1
        /\ \A op \in Ops \ {o} : retryCount'[op] = retryCount[op]
    BY <1>1, <1>6 DEF CountRetry
  <2>3. status[o] # "NEW"
    BY <1>1, Pending
  <2>4. \A op \in Ops : Fresh(op)' => op = o \/ Fresh(op)
    BY <1>4, <2>1 DEF Fresh
  <2> QED
    BY <1>1, <1>3, <1>6, <2>2, <2>3, <2>4 DEF KeepsTries
<1> QED
  BY <1>5, <1>6 DEF Finish, Fail, Complete, FailOrRetry

LEMMA RoundGoesOnKeeps ==
  ASSUME QueueInv, NEW r \in Rounds, round[r].at # "idle",
         NEW phase \in Phases \ {"idle"}, NEW n,
         round' = [round EXCEPT ![r].nonce = n, ![r].at = phase],
         UNCHANGED queueVars,
         phase \in BeforeSending => round[r].at \in BeforeSending,
         phase = "audit" => Confirmed(r)
  PROVE  /\ \A op \in Ops : KeepsTries(op)
         /\ \A q \in Rounds : KeepsAudit(q)
         /\ phase \notin BeforeSending =>
              \A op \in Ops : Fresh(op)' => op # round[r].op
<1>1. /\ retryCount \in [Ops -> Nat] /\ round \in [Rounds -> Rest]
      /\ round[r].op # NoOp
      /\ UNCHANGED <<syncQueue, status, retryCount>>
  BY DEF QueueInv, QueueTypes, RoundsBusy, queueVars
<1>2. /\ round'[r].op = round[r].op /\ round'[r].at = phase
      /\ \A q \in Rounds \ {r} : round'[q] = round[q]
  BY <1>1 DEF Rest
<1>3. \A q \in Rounds : KeepsAudit(q)
  BY <1>2 DEF KeepsAudit
<1>4. \A op \in Ops : Fresh(op)' => Fresh(op)
  BY <1>1, <1>2 DEF Fresh, Waiting
<1>5. \A op \in Ops : KeepsTries(op)
  BY <1>1, <1>4 DEF KeepsTries
<1>6. ASSUME phase \notin BeforeSending, NEW op \in Ops, Fresh(op)'
      PROVE  op # round[r].op
  <2>1. round[r].op \notin Waiting
    BY <1>1, Accounted DEF QueueInv, WorkedOn
  <2>2. CASE op \in Waiting'
    BY <1>1, <2>1, <2>2 DEF Waiting
  <2>3. CASE \E q \in Rounds :
               round'[q].op = op /\ round'[q].at \in BeforeSending
    BY <1>1, <1>2, <1>6, <2>3, Accounted DEF QueueInv, OnePlace
  <2> QED
    BY <1>6, <2>2, <2>3 DEF Fresh
<1> QED
  BY <1>3, <1>5, <1>6

(* A step that sends nothing and mines nothing.                            *)
LEMMA NothingHappens ==
  ASSUME QueueInv, TryInv, UNCHANGED <<slots, outcome>>,
         \A op \in Ops : KeepsTries(op),
         \A r \in Rounds : KeepsAudit(r)
  PROVE  TryInv'
<1>1. OutcomeTypes'
  BY DEF TryInv, OutcomeTypes
<1> QED
  BY <1>1, NothingSent

LEMMA EnqueueTry ==
  ASSUME QueueInv, TryInv, NEW op \in Ops, Enqueue(op)
  PROVE  TryInv'
<1>1. /\ status[op] = "NEW" /\ syncQueue' = Append(syncQueue, op)
      /\ status' = [status EXCEPT ![op] = "PENDING"]
      /\ UNCHANGED <<slots, outcome, retryCount, round>>
  BY DEF Enqueue, nodeVars
<1>2. op \notin Waiting
  BY <1>1, Pending
<1>3. Waiting' = Waiting \cup {op}
  BY <1>1, <1>2, Accounted, LastAdded DEF QueueInv, QueueTypes, Waiting
<1>4. \A o \in Ops : Fresh(o)' => o = op \/ Fresh(o)
  BY <1>1, <1>3 DEF Fresh
<1>5. \A o \in Ops : KeepsTries(o)
  BY <1>1, <1>4 DEF KeepsTries, QueueInv, QueueTypes, Statuses
<1>6. \A r \in Rounds : KeepsAudit(r)
  BY <1>1 DEF KeepsAudit
<1> QED
  BY <1>1, <1>5, <1>6, NothingHappens

LEMMA TickTry ==
  ASSUME QueueInv, TryInv, NEW r \in Rounds, Tick(r)
  PROVE  TryInv'
<1> DEFINE op == Head(syncQueue)
           queue == Tail(syncQueue)
<1>1. /\ syncQueue # <<>> /\ round[r].at = "idle"
      /\ UNCHANGED <<slots, outcome>>
  BY DEF Tick, At, nodeVars
<1>2. /\ op \in Ops /\ status[op] = "PENDING"
      /\ queue \in Seq(Ops) /\ Distinct(queue)
      /\ ToSet(queue) = Waiting \ {op} /\ op \in Waiting
      /\ retryCount \in [Ops -> Nat] /\ status \in [Ops -> Statuses]
      /\ round \in [Rounds -> Rest]
  <2>1. op \in Waiting
    BY <1>1, HeadRemoved, Accounted DEF QueueInv, QueueTypes, Waiting
  <2> QED
    BY <1>1, <2>1, HeadPending DEF QueueInv, QueueTypes
<1> HIDE DEF op, queue
<1>3. CASE UNCHANGED round /\ (Complete(op, queue) \/ FailOrRetry(op, queue))
  <2>1. \A q \in Rounds : KeepsAudit(q)
    BY <1>3 DEF KeepsAudit
  <2>2. CASE /\ syncQueue' = queue /\ UNCHANGED retryCount
             /\ \E st \in {"COMPLETED", "FAILED"} :
                   status' = [status EXCEPT ![op] = st]
    <3>1. \A o \in Ops : Fresh(o)' => Fresh(o)
      BY <1>2, <1>3, <2>2 DEF Fresh, Waiting
    <3>2. \A o \in Ops : status'[o] = "NEW" => status[o] = "NEW"
      BY <1>2, <2>2
    <3>3. \A o \in Ops : KeepsTries(o)
      BY <1>2, <2>2, <3>1, <3>2 DEF KeepsTries
    <3> QED
      BY <1>1, <2>1, <3>3, NothingHappens
  <2>3. CASE /\ syncQueue' = Append(queue, op) /\ UNCHANGED status
             /\ retryCount' = [retryCount EXCEPT ![op] = CountRetry(@)]
    <3>1. Waiting' = Waiting
      <4>1. op \notin ToSet(queue)
        BY <1>2
      <4>2. ToSet(Append(queue, op)) = ToSet(queue) \cup {op}
        BY <1>2, <4>1, LastAdded
      <4> QED
        BY <1>2, <2>3, <4>2 DEF Waiting
    <3>2. \A o \in Ops : Fresh(o)' => Fresh(o)
      BY <1>3, <3>1 DEF Fresh
    <3>3. /\ \A o \in Ops : retryCount'[o] \in Nat
          /\ retryCount'[op] = retryCount[op] + 1
          /\ \A o \in Ops \ {op} : retryCount'[o] = retryCount[o]
      BY <1>2, <2>3 DEF CountRetry
    <3>4. \A o \in Ops : KeepsTries(o)
      BY <1>2, <2>3, <3>2, <3>3 DEF KeepsTries
    <3> QED
      BY <1>1, <2>1, <3>4, NothingHappens
  <2> QED
    BY <1>3, <2>2, <2>3 DEF Complete, FailOrRetry
<1>4. CASE /\ UNCHANGED <<status, retryCount>>
           /\ syncQueue' = queue
           /\ round' = [round EXCEPT ![r] = [op |-> op, at |-> "nonce",
                                             nonce |-> 0]]
  <2>1. \A q \in Rounds : KeepsAudit(q)
    BY <1>2, <1>4 DEF KeepsAudit
  <2>2. \A o \in Ops : Fresh(o)' => Fresh(o)
    BY <1>2, <1>4 DEF Fresh, Waiting
  <2>3. \A o \in Ops : KeepsTries(o)
    BY <1>2, <1>4, <2>2 DEF KeepsTries
  <2> QED
    BY <1>1, <2>1, <2>3, NothingHappens
<1> QED
  BY <1>3, <1>4
     DEF op, queue, Tick, syncFineToPublic, syncStatusUpdate, CallContract,
         Shifted

LEMMA CrashTry ==
  ASSUME QueueInv, TryInv, Crash
  PROVE  TryInv'
<1>1. /\ syncQueue' = <<>> /\ round' = [r \in Rounds |-> Idle]
      /\ status' = [op \in Ops |-> IF status[op] = "PENDING"
                                   THEN "LOST" ELSE status[op]]
      /\ UNCHANGED <<slots, outcome, retryCount>>
  BY DEF Crash, nodeVars
<1>2. \A op \in Ops : ~ Fresh(op)'
  BY <1>1 DEF Fresh, Waiting, ToSet, Idle, BeforeSending
<1>3. \A op \in Ops : KeepsTries(op)
  BY <1>1, <1>2 DEF KeepsTries, QueueInv, QueueTypes
<1>4. \A r \in Rounds : KeepsAudit(r)
  BY <1>1 DEF KeepsAudit, Idle
<1> QED
  BY <1>1, <1>3, <1>4, NothingHappens

LEMMA MineTry ==
  ASSUME QueueInv, TryInv, MineTransaction
  PROVE  TryInv'
<1>1. PICK st \in {"success", "reverted"} : outcome' = Append(outcome, st)
  BY DEF MineTransaction
<1>2. /\ UNCHANGED <<slots, syncQueue, status, retryCount, round>>
      /\ Len(outcome) < Len(slots)
  BY DEF MineTransaction, queueVars
<1>3. OutcomeTypes' /\ \A n \in DOMAIN outcome :
                          n \in DOMAIN outcome' /\ outcome'[n] = outcome[n]
  BY <1>1, <1>2 DEF TryInv, OutcomeTypes, QueueInv, QueueTypes
<1>4. \A op \in Ops : KeepsTries(op)
  BY <1>2 DEF KeepsTries, Fresh, Waiting, QueueInv, QueueTypes
<1>5. \A r \in Rounds : KeepsAudit(r)
  BY <1>2 DEF KeepsAudit
<1> QED
  BY <1>2, <1>3, <1>4, <1>5, NothingSent

(* What is sent replaces nothing that was mined.                           *)
LEMMA Sends ==
  ASSUME QueueInv, TryInv, NEW r \in Rounds, Broadcast(r)
  PROVE  LET t == Try(round[r].op) IN
         \E k \in DOMAIN slots' :
            /\ slots'[k] = t /\ k > Len(outcome) /\ outcome' = outcome
            /\ \A m \in DOMAIN slots' :
                  m # k => m \in DOMAIN slots /\ slots'[m] = slots[m]
            /\ Len(slots) <= Len(slots')
            /\ slots' \in Seq(Ops \X Nat)
            /\ \A m \in 1 .. Len(outcome) : slots'[m] = slots[m]
<1> DEFINE n == round[r].nonce + 1
           t == Try(round[r].op)
<1>1. /\ slots \in Seq(Ops \X Nat) /\ t \in Ops \X Nat /\ n \in Nat /\ n >= 1
      /\ n > Len(outcome) /\ outcome' = outcome
      /\ Len(outcome) \in Nat /\ Len(outcome) <= Len(slots)
  <2>1. round[r] \in Rest /\ round[r].op # NoOp
    BY DEF QueueInv, QueueTypes, RoundsBusy, Broadcast, At
  <2>2. t \in Ops \X Nat /\ n \in Nat /\ n >= 1
    BY <2>1 DEF Try, Rest, QueueInv, QueueTypes
  <2> QED
    BY <2>2 DEF Broadcast, QueueInv, QueueTypes, TryInv, OutcomeTypes
<1>2. slots' = IF n > Len(slots) THEN Append(slots, t)
                                 ELSE [slots EXCEPT ![n] = t]
  BY DEF Broadcast
<1> HIDE DEF n, t
<1>3. CASE n > Len(slots)
  <2> DEFINE k == Len(slots) + 1
  <2>1. slots' = Append(slots, t)
    BY <1>2, <1>3
  <2>2. /\ k \in DOMAIN slots' /\ slots'[k] = t /\ k > Len(outcome)
        /\ Len(slots) <= Len(slots') /\ slots' \in Seq(Ops \X Nat)
        /\ \A m \in DOMAIN slots' :
              m # k => m \in DOMAIN slots /\ slots'[m] = slots[m]
        /\ \A m \in 1 .. Len(outcome) : slots'[m] = slots[m]
    BY <1>1, <2>1
  <2> QED
    BY <1>1, <2>2 DEF t
<1>4. CASE ~ (n > Len(slots))
  <2>1. slots' = [slots EXCEPT ![n] = t] /\ n \in 1 .. Len(slots)
    BY <1>1, <1>2, <1>4
  <2>2. /\ n \in DOMAIN slots' /\ slots'[n] = t /\ n > Len(outcome)
        /\ Len(slots) <= Len(slots') /\ slots' \in Seq(Ops \X Nat)
        /\ \A m \in DOMAIN slots' :
              m # n => m \in DOMAIN slots /\ slots'[m] = slots[m]
        /\ \A m \in 1 .. Len(outcome) : slots'[m] = slots[m]
    BY <1>1, <2>1
  <2> QED
    BY <1>1, <2>2 DEF t
<1> QED
  BY <1>3, <1>4

LEMMA BroadcastTry ==
  ASSUME QueueInv, TryInv, NEW r \in Rounds, Broadcast(r)
  PROVE  TryInv'
<1> DEFINE o == round[r].op
           t == Try(o)
<1>1. PICK k \in DOMAIN slots' :
         /\ slots'[k] = t /\ k > Len(outcome) /\ outcome' = outcome
         /\ \A m \in DOMAIN slots' :
               m # k => m \in DOMAIN slots /\ slots'[m] = slots[m]
         /\ Len(slots) <= Len(slots')
         /\ slots' \in Seq(Ops \X Nat)
         /\ \A m \in 1 .. Len(outcome) : slots'[m] = slots[m]
  BY Sends
<1>2. /\ round[r].at = "broadcast" /\ o \in Ops /\ Fresh(o)
      /\ o \in WorkedOn /\ retryCount \in [Ops -> Nat]
      /\ t[1] = o /\ t[2] = retryCount[o]
      /\ outcome \in Seq({"success", "reverted"}) /\ Len(outcome) <= Len(slots)
      /\ slots \in Seq(Ops \X Nat)
  BY DEF Broadcast, At, QueueInv, QueueTypes, RoundsBusy, Rest, Fresh,
         BeforeSending, WorkedOn, Try, TryInv, OutcomeTypes
<1>3. /\ \A op \in Ops : KeepsTries(op)
      /\ \A q \in Rounds : KeepsAudit(q)
      /\ \A op \in Ops : Fresh(op)' => \/ op # o
                                       \/ retryCount[op] < retryCount'[op]
  <2>1. CASE Await(r, "wait")
    <3>1. round' = [round EXCEPT ![r].nonce = round[r].nonce, ![r].at = "wait"]
      BY <2>1 DEF Await, QueueInv, QueueTypes, Rest
    <3>2. "wait" \in Phases \ {"idle"} /\ "wait" \notin BeforeSending
      BY DEF Phases, BeforeSending
    <3> QED
      BY <1>2, <2>1, <3>1, <3>2, RoundGoesOnKeeps DEF Await
  <2>2. CASE Fail(r)
    BY <1>2, <2>2, RoundEndKeeps
  <2> QED
    BY <2>1, <2>2 DEF Broadcast
<1> HIDE DEF o, t
<1>4. OutcomeTypes'
  BY <1>1, <1>2 DEF OutcomeTypes, QueueInv, QueueTypes
<1>5. \A m \in DOMAIN slots : slots[m] # t
  BY <1>2 DEF TryInv, FreshUnsent, t
<1>6. SentOnce'
  BY <1>1, <1>5 DEF TryInv, SentOnce
<1>7. SentGranted'
  <2> SUFFICES ASSUME NEW m \in DOMAIN slots'
               PROVE  /\ status'[slots'[m][1]] # "NEW"
                      /\ slots'[m][2] <= retryCount'[slots'[m][1]]
    BY DEF SentGranted
  <2>1. /\ slots'[m][1] \in Ops /\ slots'[m][2] \in Nat
        /\ status[slots'[m][1]] # "NEW"
        /\ slots'[m][2] <= retryCount[slots'[m][1]]
    <3>1. CASE m = k
      <4>1. status[o] = "PENDING"
        BY <1>2, Pending
      <4> QED
        BY <1>1, <1>2, <3>1, <4>1
    <3>2. CASE m # k
      <4>1. m \in DOMAIN slots /\ slots'[m] = slots[m]
        BY <1>1, <3>2
      <4>2. slots[m] \in Ops \X Nat
        BY <1>2, <4>1
      <4> QED
        BY <4>1, <4>2 DEF TryInv, SentGranted
    <3> QED
      BY <3>1, <3>2
  <2> QED
    BY <1>3, <2>1 DEF KeepsTries
<1>8. FreshUnsent'
  <2> SUFFICES ASSUME NEW op \in Ops, Fresh(op)', NEW m \in DOMAIN slots',
                      slots'[m] = Try(op)'
               PROVE  FALSE
    BY DEF FreshUnsent
  <2>1. slots'[m][1] = op /\ slots'[m][2] = retryCount'[op]
    BY DEF Try
  <2>2. CASE m = k
    BY <1>1, <1>2, <1>3, <2>1, <2>2
  <2>3. CASE m # k
    <3>1. m \in DOMAIN slots /\ slots'[m] = slots[m]
      BY <1>1, <2>3
    <3>2. status[op] # "NEW" /\ retryCount'[op] <= retryCount[op]
      BY <2>1, <3>1 DEF TryInv, SentGranted
    <3>3. Fresh(op) /\ retryCount'[op] = retryCount[op]
      BY <1>3, <3>2 DEF KeepsTries
    <3>4. slots[m] = Try(op)
      BY <3>1, <3>3 DEF Try
    <3> QED
      BY <3>1, <3>3, <3>4 DEF TryInv, FreshUnsent
  <2> QED
    BY <2>2, <2>3
<1>9. NewUntried'
  BY <1>3 DEF TryInv, NewUntried, KeepsTries
<1>10. AuditsEffected'
  <2> SUFFICES ASSUME NEW q \in Rounds, round'[q].at = "audit"
               PROVE  \E n \in DOMAIN outcome' :
                         slots'[n][1] = round'[q].op /\ outcome'[n] = "success"
    BY DEF AuditsEffected, Effected
  <2>1. round[q].at = "audit" /\ round'[q].op = round[q].op
    <3>1. CASE q = r
      BY <1>2, <3>1 DEF Broadcast, Await, Fail, Idle, QueueInv, QueueTypes,
                         Rest
    <3>2. CASE q # r
      BY <3>2 DEF Broadcast, Await, Fail, QueueInv, QueueTypes
    <3> QED
      BY <3>1, <3>2
  <2>2. PICK n \in DOMAIN outcome :
           slots[n][1] = round[q].op /\ outcome[n] = "success"
    BY <2>1 DEF TryInv, AuditsEffected, Effected
  <2>3. n \in 1 .. Len(outcome)
    BY <1>2
  <2> QED
    BY <1>1, <2>1, <2>2, <2>3
<1> QED
  BY <1>4, <1>6, <1>7, <1>8, <1>9, <1>10 DEF TryInv

LEMMA AwaitTry ==
  ASSUME QueueInv, TryInv, NEW r \in Rounds, round[r].at # "idle",
         NEW phase \in Phases \ {"idle"}, Await(r, phase),
         phase \in BeforeSending => round[r].at \in BeforeSending,
         phase = "audit" => Confirmed(r), UNCHANGED nodeVars
  PROVE  TryInv'
<1>1. round' = [round EXCEPT ![r].nonce = round[r].nonce, ![r].at = phase]
  BY DEF Await, QueueInv, QueueTypes, Rest
<1>2. /\ \A op \in Ops : KeepsTries(op)
      /\ \A q \in Rounds : KeepsAudit(q)
  BY <1>1, RoundGoesOnKeeps DEF Await
<1> QED
  BY <1>2, NothingHappens DEF nodeVars

LEMMA EndTry ==
  ASSUME QueueInv, TryInv, NEW r \in Rounds, round[r].at # "idle",
         Finish(r) \/ Fail(r), UNCHANGED nodeVars
  PROVE  TryInv'
<1>1. /\ \A op \in Ops : KeepsTries(op)
      /\ \A q \in Rounds : KeepsAudit(q)
  BY RoundEndKeeps
<1> QED
  BY <1>1, NothingHappens DEF nodeVars

LEMMA RoundTry ==
  ASSUME QueueInv, TryInv, NEW r \in Rounds, Proceed(r) \/ CallFails(r)
  PROVE  TryInv'
<1>1. /\ "estimate" \in Phases \ {"idle"} /\ "broadcast" \in Phases \ {"idle"}
      /\ "audit" \in Phases \ {"idle"} /\ "audit" \notin BeforeSending
      /\ {"nonce", "estimate"} \subseteq BeforeSending
  BY DEF Phases, BeforeSending
<1>2. CASE GetNonce(r)
  <2>1. /\ UNCHANGED <<nodeVars, queueVars>>
        /\ round[r].at # "idle" /\ round[r].at \in BeforeSending
        /\ round' = [round EXCEPT ![r].nonce = Len(slots), ![r].at = "estimate"]
    BY <1>2 DEF GetNonce, At, BeforeSending
  <2>2. /\ \A op \in Ops : KeepsTries(op)
        /\ \A q \in Rounds : KeepsAudit(q)
    BY <1>1, <2>1, RoundGoesOnKeeps
  <2> QED
    BY <2>1, <2>2, NothingHappens DEF nodeVars
<1>3. CASE EstimateGas(r)
  <2>1. /\ UNCHANGED nodeVars
        /\ round[r].at # "idle" /\ round[r].at \in BeforeSending
    BY <1>3 DEF EstimateGas, At, BeforeSending
  <2> QED
    BY <1>1, <1>3, <2>1, AwaitTry, EndTry DEF EstimateGas
<1>4. CASE Broadcast(r)
  BY <1>4, BroadcastTry
<1>5. CASE Settle(r)
  <2>1. UNCHANGED nodeVars /\ round[r].at # "idle"
    BY <1>5 DEF Settle, At
  <2>2. (Confirmed(r) /\ Await(r, "audit")) \/ Fail(r)
    BY <1>5 DEF Settle
  <2> QED
    BY <1>1, <2>1, <2>2, AwaitTry, EndTry
<1>6. CASE Refused(r) \/ Audit(r) \/ CallFails(r)
  <2>1. UNCHANGED nodeVars /\ round[r].at # "idle"
    BY <1>6 DEF Refused, Audit, CallFails, At
  <2>2. Finish(r) \/ Fail(r)
    BY <1>6 DEF Refused, Audit, CallFails
  <2> QED
    BY <2>1, <2>2, EndTry
<1> QED
  BY <1>2, <1>3, <1>4, <1>5, <1>6 DEF Proceed

LEMMA TryLeftAlone ==
  ASSUME TryInv, UNCHANGED <<nodeVars, queueVars, round>>
  PROVE  TryInv'
BY DEF TryInv, OutcomeTypes, SentOnce, SentGranted, FreshUnsent, NewUntried,
       AuditsEffected, Fresh, Effected, Waiting, Try, nodeVars, queueVars

LEMMA StepKeepsBoth ==
  ASSUME QueueInv, TryInv, [Next]_vars PROVE QueueInv' /\ TryInv'
<1>1. CASE \E op \in Ops : Enqueue(op)
  BY <1>1, EnqueueInv, EnqueueTry
<1>2. CASE \E r \in Rounds : Tick(r) \/ Proceed(r) \/ CallFails(r)
  BY <1>2, TickInv, RoundInv, TickTry, RoundTry
<1>3. CASE Crash
  BY <1>3, CrashInv, CrashTry
<1>4. CASE MineTransaction
  <2>1. UNCHANGED <<slots, queueVars, round>>
    BY <1>4 DEF MineTransaction
  <2> QED
    BY <1>4, <2>1, QueueLeftAlone, MineTry
<1>5. CASE UNCHANGED <<nodeVars, queueVars, round>>
  BY <1>5, QueueLeftAlone, TryLeftAlone DEF nodeVars
<1> QED
  BY <1>1, <1>2, <1>3, <1>4, <1>5 DEF Next, Transact, vars

(* Rounds that overlap, answers that are lost and transactions that take   *)
(* each other's place never send one try of an operation twice, send no    *)
(* try that was not granted, and tell the audit service of nothing that    *)
(* did not succeed on the chain.                                           *)
THEOREM TriesSound == Spec => [](QueueInv /\ TryInv)
BY InitQueueInv, InitTryInv, StepKeepsBoth, PTL DEF Spec

-----------------------------------------------------------------------------
(* The queue delivers what SyncDelivery promises.                          *)

LEMMA UpTo ==
  ASSUME NEW k \in Nat
  PROVE  IsFiniteSet(0 .. k) /\ Cardinality(0 .. k) = k + 1
<1>1. 0 \in Int /\ k \in Int /\ ~ (0 > k) /\ k - 0 + 1 = k + 1
  OBVIOUS
<1> QED
  BY <1>1, FS_Interval

LEMMA EffectedFinite ==
  ASSUME OutcomeTypes, NEW op
  PROVE  IsFiniteSet(Effected(op))
<1>1. IsFiniteSet(1 .. Len(outcome)) /\ DOMAIN outcome = 1 .. Len(outcome)
  BY FS_Interval DEF OutcomeTypes
<1>2. Effected(op) \subseteq 1 .. Len(outcome)
  BY <1>1 DEF Effected
<1> QED
  BY <1>1, <1>2, FS_Subset

(* An operation takes effect at most once for every try it was granted.    *)
LEMMA EffectedBounded ==
  ASSUME QueueInv, TryInv, NEW op \in Ops
  PROVE  Cardinality(Effected(op)) <= TriesOf(op)
<1>1. /\ slots \in Seq(Ops \X Nat) /\ retryCount[op] \in Nat
      /\ DOMAIN outcome = 1 .. Len(outcome) /\ Len(outcome) <= Len(slots)
      /\ Len(outcome) \in Nat /\ IsFiniteSet(Effected(op))
  BY EffectedFinite DEF QueueInv, QueueTypes, TryInv, OutcomeTypes
<1>2. Cardinality(Effected(op)) \in Nat
  BY <1>1, FS_CardinalityType
<1>3. \A n \in Effected(op) :
         /\ n \in DOMAIN slots /\ slots[n] \in Ops \X Nat /\ slots[n][1] = op
         /\ status[op] # "NEW" /\ slots[n][2] <= retryCount[op]
  BY <1>1 DEF Effected, TryInv, SentGranted
<1>4. CASE status[op] = "NEW"
  <2>1. Effected(op) = {}
    BY <1>3, <1>4
  <2> QED
    BY <1>4, <2>1, FS_EmptySet DEF TriesOf
<1>5. CASE status[op] # "NEW"
  <2> DEFINE granted == 0 .. retryCount[op]
             try == [n \in Effected(op) |-> slots[n][2]]
  <2>1. IsFiniteSet(granted) /\ Cardinality(granted) = retryCount[op] + 1
    BY <1>1, UpTo
  <2>2. try \in [Effected(op) -> granted]
    BY <1>1, <1>3
  <2>3. \A m, n \in Effected(op) : try[m] = try[n] => m = n
    <3> SUFFICES ASSUME NEW m \in Effected(op), NEW n \in Effected(op),
                        slots[m][2] = slots[n][2]
                 PROVE  m = n
      OBVIOUS
    <3>1. slots[m] = slots[n]
      BY <1>3
    <3> QED
      BY <1>3, <3>1 DEF TryInv, SentOnce
  <2> HIDE DEF granted, try
  <2>4. ~ (Cardinality(granted) < Cardinality(Effected(op)))
    BY <1>1, <2>1, <2>2, <2>3, FS_PigeonHole
  <2> QED
    BY <1>1, <1>2, <1>5, <2>1, <2>4 DEF TriesOf
<1> QED
  BY <1>4, <1>5

LEMMA EffectsAre == effectsOf = [op \in Ops |-> Cardinality(Effected(op))]
BY DEF effectsOf, Effected

LEMMA NoEffect ==
  ASSUME OutcomeTypes, outcome' = outcome,
         \A n \in 1 .. Len(outcome) : slots'[n] = slots[n]
  PROVE  effectsOf' = effectsOf
<1>1. DOMAIN outcome = 1 .. Len(outcome)
  BY DEF OutcomeTypes
<1>2. ASSUME NEW op
      PROVE  {n \in DOMAIN outcome :
               slots[n][1] = op /\ outcome[n] = "success"}'
               = {n \in DOMAIN outcome :
                   slots[n][1] = op /\ outcome[n] = "success"}
  BY <1>1
<1> QED
  BY <1>2 DEF effectsOf

LEMMA TriesCounted ==
  ASSUME QueueInv
  PROVE  \A op \in Ops : TriesOf(op) \in Nat
BY DEF QueueInv, QueueTypes, TriesOf

(* A step that leaves the fate and the tries of every operation alone.     *)
LEMMA Stutters ==
  ASSUME UNCHANGED <<status, retryCount>>, effectsOf' = effectsOf
  PROVE  UNCHANGED Delivery!deliveryVars
BY DEF Delivery!deliveryVars, fateOf, TriesOf

LEMMA EnqueueDelivers ==
  ASSUME QueueInv, TryInv, NEW op \in Ops, Enqueue(op)
  PROVE  Delivery!Submit(op)
<1>1. /\ status[op] = "NEW" /\ status' = [status EXCEPT ![op] = "PENDING"]
      /\ UNCHANGED <<slots, outcome, retryCount>> /\ retryCount[op] = 0
      /\ status \in [Ops -> Statuses]
  BY DEF Enqueue, nodeVars, TryInv, NewUntried, QueueInv, QueueTypes
<1>2. effectsOf' = effectsOf
  BY <1>1, NoEffect DEF TryInv
<1>3. fateOf[op] = "new" /\ fateOf' = [fateOf EXCEPT ![op] = "pending"]
  BY <1>1 DEF fateOf
<1>4. [o \in Ops |-> TriesOf(o)]'
        = [[o \in Ops |-> TriesOf(o)] EXCEPT ![op] = 1]
  <2>1. \A o \in Ops : TriesOf(o)' = IF o = op THEN 1 ELSE TriesOf(o)
    BY <1>1 DEF TriesOf
  <2> QED
    BY <2>1
<1> QED
  BY <1>2, <1>3, <1>4 DEF Delivery!Submit

LEMMA CompleteDelivers ==
  ASSUME QueueInv, NEW op \in Ops, NEW queue, Complete(op, queue),
         status[op] = "PENDING", effectsOf' = effectsOf,
         Kind[op] \in {"REGISTER", "UPDATE_STATUS"} => effectsOf[op] > 0
  PROVE  Delivery!Finish(op)
<1>1. /\ status' = [status EXCEPT ![op] = "COMPLETED"]
      /\ retryCount' = retryCount /\ status \in [Ops -> Statuses]
  BY DEF Complete, QueueInv, QueueTypes
<1>2. fateOf[op] = "pending" /\ fateOf' = [fateOf EXCEPT ![op] = "completed"]
  BY <1>1 DEF fateOf
<1>3. [o \in Ops |-> TriesOf(o)]' = [o \in Ops |-> TriesOf(o)]
  BY <1>1 DEF TriesOf
<1> QED
  BY <1>2, <1>3 DEF Delivery!Finish

LEMMA FailureDelivers ==
  ASSUME QueueInv, NEW op \in Ops, NEW queue, FailOrRetry(op, queue),
         status[op] = "PENDING", effectsOf' = effectsOf
  PROVE  Delivery!TryAgain(op) \/ Delivery!Abandon(op)
<1>1. /\ status \in [Ops -> Statuses] /\ retryCount \in [Ops -> Nat]
      /\ MaxRetries[op] \in Nat /\ retryCount[op] <= MaxRetries[op]
      /\ fateOf[op] = "pending" /\ TriesOf(op) = retryCount[op] + 1
  BY OperationsAssumption DEF QueueInv, QueueTypes, fateOf, TriesOf
<1>2. CASE RetriesLeft(op)
  <2>1. /\ retryCount' = [retryCount EXCEPT ![op] = @ + 1]
        /\ status' = status
    BY <1>2 DEF FailOrRetry, CountRetry
  <2>2. fateOf' = fateOf
    BY <2>1 DEF fateOf
  <2>3. [o \in Ops |-> TriesOf(o)]'
          = [[o \in Ops |-> TriesOf(o)] EXCEPT ![op] = @ + 1]
    BY <1>1, <2>1 DEF TriesOf
  <2> QED
    BY <1>1, <1>2, <2>2, <2>3 DEF RetriesLeft, Delivery!TryAgain
<1>3. CASE ~ RetriesLeft(op)
  <2>1. status' = [status EXCEPT ![op] = "FAILED"] /\ retryCount' = retryCount
    BY <1>3 DEF FailOrRetry
  <2>2. fateOf' = [fateOf EXCEPT ![op] = "failed"]
    BY <1>1, <2>1 DEF fateOf
  <2>3. [o \in Ops |-> TriesOf(o)]' = [o \in Ops |-> TriesOf(o)]
    BY <1>1, <2>1 DEF TriesOf
  <2> QED
    BY <1>1, <1>3, <2>2, <2>3 DEF RetriesLeft, Delivery!Abandon
<1> QED
  BY <1>2, <1>3

LEMMA AuditsSucceeded ==
  ASSUME QueueInv, TryInv, NEW r \in Rounds, round[r].at = "audit"
  PROVE  effectsOf[round[r].op] > 0
<1> DEFINE op == round[r].op
<1>1. op \in Ops /\ Effected(op) # {} /\ IsFiniteSet(Effected(op))
  BY EffectedFinite
     DEF QueueInv, QueueTypes, RoundsBusy, Rest, TryInv, AuditsEffected
<1>2. Cardinality(Effected(op)) \in Nat /\ Cardinality(Effected(op)) # 0
  BY <1>1, FS_CardinalityType, FS_EmptySet
<1> QED
  BY <1>1, <1>2, EffectsAre

Delivered(op) ==
  Delivery!Finish(op) \/ Delivery!TryAgain(op) \/ Delivery!Abandon(op)

LEMMA TickDelivers ==
  ASSUME QueueInv, TryInv, NEW r \in Rounds, Tick(r)
  PROVE  (\E op \in Ops : Delivered(op)) \/ UNCHANGED Delivery!deliveryVars
<1> DEFINE op == Head(syncQueue)
<1>1. /\ syncQueue # <<>> /\ UNCHANGED <<slots, outcome>>
      /\ op \in Ops /\ status[op] = "PENDING"
  BY HeadPending DEF Tick, nodeVars
<1>2. effectsOf' = effectsOf
  BY <1>1, NoEffect DEF TryInv
<1> HIDE DEF op
<1>3. CASE Kind[op] = "APPEAL" /\ Complete(op, Shifted(syncQueue))
  <2>1. Delivery!Finish(op)
    BY <1>1, <1>2, <1>3, CompleteDelivers
  <2> QED
    BY <1>1, <2>1 DEF Delivered
<1>4. CASE FailOrRetry(op, Shifted(syncQueue))
  BY <1>1, <1>2, <1>4, FailureDelivers DEF Delivered
<1>5. CASE UNCHANGED <<status, retryCount>>
  BY <1>2, <1>5, Stutters
<1> QED
  BY <1>3, <1>4, <1>5
     DEF op, Tick, syncFineToPublic, syncStatusUpdate, CallContract

LEMMA RoundDelivers ==
  ASSUME QueueInv, TryInv, NEW r \in Rounds, Proceed(r) \/ CallFails(r)
  PROVE  (\E op \in Ops : Delivered(op)) \/ UNCHANGED Delivery!deliveryVars
<1>1. effectsOf' = effectsOf
  <2>1. CASE Broadcast(r)
    BY <2>1, Sends, NoEffect DEF TryInv
  <2>2. CASE UNCHANGED nodeVars
    BY <2>2, NoEffect DEF TryInv, nodeVars
  <2> QED
    BY <2>1, <2>2 DEF Proceed, GetNonce, EstimateGas, Refused, Settle, Audit,
                      CallFails
<1>2. round[r].at # "idle"
  BY DEF Proceed, GetNonce, EstimateGas, Broadcast, Refused, Settle, Audit,
         CallFails, At
<1>3. round[r].op \in Ops /\ status[round[r].op] = "PENDING"
  BY <1>2, Pending, OperationsAssumption
     DEF QueueInv, QueueTypes, RoundsBusy, Rest, WorkedOn
<1>4. CASE Finish(r) /\ round[r].at = "audit"
  <2>1. Delivery!Finish(round[r].op)
    BY <1>1, <1>3, <1>4, AuditsSucceeded, CompleteDelivers DEF Finish
  <2> QED
    BY <1>3, <2>1 DEF Delivered
<1>5. CASE Fail(r)
  BY <1>1, <1>3, <1>5, FailureDelivers DEF Fail, Delivered
<1>6. CASE UNCHANGED queueVars
  BY <1>1, <1>6, Stutters DEF queueVars
<1> QED
  BY <1>4, <1>5, <1>6
     DEF Proceed, GetNonce, EstimateGas, Broadcast, Refused, Settle, Audit,
         CallFails, Await, At

LEMMA CrashDelivers ==
  ASSUME QueueInv, TryInv, Crash
  PROVE  Delivery!Forget
<1>1. /\ status' = [op \in Ops |-> IF status[op] = "PENDING"
                                   THEN "LOST" ELSE status[op]]
      /\ UNCHANGED <<slots, outcome, retryCount>>
      /\ status \in [Ops -> Statuses]
  BY DEF Crash, nodeVars, QueueInv, QueueTypes
<1>2. effectsOf' = effectsOf
  BY <1>1, NoEffect DEF TryInv
<1>3. \A op \in Ops : /\ (fateOf[op] = "pending") = (status[op] = "PENDING")
                      /\ TriesOf(op)' = TriesOf(op)
  BY <1>1 DEF fateOf, TriesOf, Statuses
<1>4. \A op \in Ops :
         fateOf'[op] = IF fateOf[op] = "pending" THEN "lost" ELSE fateOf[op]
  BY <1>1, <1>3 DEF fateOf, Statuses
<1>5. fateOf' = [op \in Ops |-> fateOf'[op]]
  BY DEF fateOf
<1>6. fateOf' = [op \in Ops |-> IF fateOf[op] = "pending"
                                THEN "lost" ELSE fateOf[op]]
  BY <1>4, <1>5
<1> QED
  BY <1>2, <1>3, <1>6 DEF Delivery!Forget

EffectsBounded ==
  \A op \in Ops : Cardinality(Effected(op)) <= TriesOf(op)

LEMMA BoundedAlways == QueueInv /\ TryInv => EffectsBounded
BY EffectedBounded DEF EffectsBounded

(* The next transaction takes effect, or reverts and has none.             *)
LEMMA MineDelivers ==
  ASSUME QueueInv, TryInv, QueueInv', TryInv', MineTransaction
  PROVE  \/ \E op \in Ops : Delivery!TakeEffect(op)
         \/ UNCHANGED Delivery!deliveryVars
<1>1. /\ UNCHANGED <<slots, status, retryCount>>
      /\ slots \in Seq(Ops \X Nat)
      /\ outcome \in Seq({"success", "reverted"}) /\ Len(outcome) < Len(slots)
  BY DEF MineTransaction, queueVars, QueueInv, QueueTypes, TryInv, OutcomeTypes
<1>2. PICK n \in 1 .. Len(slots), op \in Ops :
         n = Len(outcome) + 1 /\ n \notin DOMAIN outcome /\ slots[n][1] = op
  <2>1. /\ Len(outcome) + 1 \in 1 .. Len(slots)
        /\ Len(outcome) + 1 \notin DOMAIN outcome
    BY <1>1
  <2>2. slots[Len(outcome) + 1][1] \in Ops
    BY <1>1, <2>1
  <2> QED
    BY <2>1, <2>2
<1>3. PICK st \in {"success", "reverted"} : outcome' = Append(outcome, st)
  BY DEF MineTransaction
<1>4. /\ DOMAIN outcome' = DOMAIN outcome \cup {n} /\ outcome'[n] = st
      /\ \A m \in DOMAIN outcome : outcome'[m] = outcome[m]
  BY <1>1, <1>2, <1>3
<1>5. \A o \in Ops :
         Effected(o)' = Effected(o) \cup IF o = op /\ st = "success"
                                         THEN {n} ELSE {}
  BY <1>1, <1>2, <1>4 DEF Effected
<1>6. \A o \in Ops : n \notin Effected(o) /\ IsFiniteSet(Effected(o))
  BY <1>2, EffectedFinite DEF Effected, TryInv
<1>7. effectsOf' = [o \in Ops |-> Cardinality(Effected(o)')]
  BY DEF effectsOf, Effected
<1>8. CASE st = "success"
  <2>1. Cardinality(Effected(op)') = Cardinality(Effected(op)) + 1
    <3>1. Effected(op)' = Effected(op) \cup {n}
      BY <1>5, <1>8
    <3>2. Cardinality(Effected(op) \cup {n}) = Cardinality(Effected(op)) + 1
      BY <1>6, FS_AddElement
    <3> QED
      BY <3>1, <3>2
  <2>2. \A o \in Ops \ {op} :
          Cardinality(Effected(o)') = Cardinality(Effected(o))
    <3>1. \A o \in Ops \ {op} : Effected(o)' = Effected(o)
      BY <1>5
    <3> QED
      BY <3>1
  <2>3. effectsOf' = [effectsOf EXCEPT ![op] = @ + 1]
    BY <1>7, <2>1, <2>2, EffectsAre
  <2>4. UNCHANGED <<fateOf, [o \in Ops |-> TriesOf(o)]>>
    BY <1>1 DEF fateOf, TriesOf
  <2>5. effectsOf[op] < TriesOf(op)
    <3>1. EffectsBounded'
      BY BoundedAlways, PTL
    <3>2. Cardinality(Effected(op)') <= TriesOf(op)'
      BY <3>1 DEF EffectsBounded
    <3>3. TriesOf(op)' = TriesOf(op) /\ TriesOf(op) \in Nat
      BY <1>1, TriesCounted DEF TriesOf
    <3>4. Cardinality(Effected(op)) \in Nat
      BY <1>6, FS_CardinalityType
    <3>5. effectsOf[op] = Cardinality(Effected(op))
      BY EffectsAre
    <3> QED
      BY <2>1, <3>2, <3>3, <3>4, <3>5
  <2>6. Delivery!TakeEffect(op)
    BY <2>3, <2>4, <2>5 DEF Delivery!TakeEffect
  <2> QED
    BY <2>6
<1>9. CASE st = "reverted"
  <2>1. effectsOf' = effectsOf
    <3>1. \A o \in Ops : Effected(o)' = Effected(o)
      BY <1>5, <1>9
    <3> QED
      BY <1>7, <3>1, EffectsAre
  <2> QED
    BY <1>1, <2>1, Stutters
<1> QED
  BY <1>8, <1>9

LEMMA InitDelivers == Init => Delivery!Init
<1> SUFFICES ASSUME Init PROVE Delivery!Init
  OBVIOUS
<1>1. /\ slots = <<>> /\ outcome = <<>> /\ status = [op \in Ops |-> "NEW"]
  BY DEF Init
<1>2. \A op : Effected(op) = {}
  BY <1>1 DEF Effected
<1>3. effectsOf = [op \in Ops |-> 0]
  BY <1>2, FS_EmptySet, EffectsAre
<1>4. /\ fateOf = [op \in Ops |-> "new"]
      /\ [op \in Ops |-> TriesOf(op)] = [op \in Ops |-> 0]
  BY <1>1 DEF fateOf, TriesOf
<1> QED
  BY <1>3, <1>4 DEF Delivery!Init

LEMMA StepDelivers ==
  ASSUME QueueInv, TryInv, QueueInv', TryInv', [Next]_vars
  PROVE  [Delivery!Next]_(Delivery!deliveryVars)
<1>1. CASE \E op \in Ops : Enqueue(op)
  BY <1>1, EnqueueDelivers DEF Delivery!Next
<1>2. CASE \E r \in Rounds : Tick(r) \/ Proceed(r) \/ CallFails(r)
  BY <1>2, TickDelivers, RoundDelivers DEF Delivered, Delivery!Next
<1>3. CASE Crash
  BY <1>3, CrashDelivers DEF Delivery!Next
<1>4. CASE MineTransaction
  BY <1>4, MineDelivers DEF Delivery!Next
<1>5. CASE UNCHANGED <<nodeVars, queueVars>>
  <2>1. UNCHANGED <<slots, outcome, status, retryCount>>
    BY <1>5 DEF nodeVars, queueVars
  <2>2. effectsOf' = effectsOf
    BY <2>1, NoEffect DEF TryInv
  <2> QED
    BY <2>1, <2>2, Stutters
<1> QED
  BY <1>1, <1>2, <1>3, <1>4, <1>5 DEF Next, Transact, vars

(* Whatever fails, stops, overlaps or ends, an operation is tried at most  *)
(* maxRetries + 1 times, each try takes effect on the chain at most once,  *)
(* one that is reported as COMPLETED did take effect, and one reported as  *)
(* FAILED had no try left.                                                 *)
THEOREM DeliveryImplemented == Spec => ImplementsDelivery
<1>1. QueueInv /\ TryInv /\ QueueInv' /\ TryInv' /\ [Next]_vars
        => [Delivery!Next]_(Delivery!deliveryVars)
  BY StepDelivers
<1> QED
  BY <1>1, InitDelivers, TriesSound, PTL
     DEF Spec, ImplementsDelivery, Delivery!Spec
=============================================================================
