--------------------------- MODULE IntegrityCheck ---------------------------
(***************************************************************************)
(* GET /api/fines/:fineId/integrity, and the same check as the legacy      *)
(* controller and the hybrid EthereumService ask for it.  A check reads    *)
(* one fine and its history from the contract in up to five calls, one     *)
(* after the other, while other requests go on changing them, and then     *)
(* compares what it read.                                                  *)
(* Each step is one call to the node and the code that runs on its answer. *)
(***************************************************************************)
EXTENDS Naturals, Sequences, FineDomain

CONSTANTS
  Address, NoAddress, Deployer, Submissions,   \* as in FineManagement
  MaxFines, MaxUpdates, MaxBlock,
  Checks         \* the requests, bounded in number

ASSUME ContractAssumption ==
  /\ Deployer \in Address /\ NoAddress \notin Address
  /\ MaxFines \in Nat /\ MaxBlock \in Nat
  /\ MaxUpdates \in Nat \ {0}   \* a registration is an entry too

VARIABLES
  owner, operators, fineIds, fines, fineStatusHistory, finesByPlate,
  finesByOwner, block,   \* the contract
  pc,        \* check -> the call it awaits
  got,       \* check -> what it has read so far
  report     \* check -> its answer

contractVars == <<owner, operators, fineIds, fines, fineStatusHistory,
                  finesByPlate, finesByOwner, block>>
checkVars == <<pc, got, report>>
vars == <<contractVars, checkVars>>

Chain == INSTANCE FineManagement

ASSUME SubmissionsAssumption == Submissions \subseteq Chain!Submission

Phases == {"idle", "find", "fine", "registration", "total", "history", "done"}

(* fineId comes from the path; currentState, timestamp and totalUpdates    *)
(* from the contract.  since is auxiliary: how long the history was when   *)
(* the state was read.                                                     *)
NothingRead ==
  [fineId |-> 0, currentState |-> "PENDING", since |-> 0, timestamp |-> 0,
   totalUpdates |-> 0]

(* The fields of IntegrityDetailsDTO that vary.  A request that fails has  *)
(* none.                                                                   *)
Answer(verdict, timestamp, length) ==
  [verdict |-> verdict, registrationTimestamp |-> timestamp,
   statusHistoryLength |-> length]

Failure == Answer("failed", 0, 0)

TypeOK ==
  /\ Chain!TypeOK
  /\ pc \in [Checks -> Phases]
  /\ got \in [Checks -> [fineId: 0 .. MaxFines, currentState: FineState,
                         since: 0 .. MaxUpdates, timestamp: 0 .. MaxBlock,
                         totalUpdates: 0 .. MaxUpdates]]
  /\ report \in [Checks -> [verdict: {"none", "failed", "valid", "invalid"},
                            registrationTimestamp: 0 .. MaxBlock,
                            statusHistoryLength: 0 .. MaxUpdates]]

-----------------------------------------------------------------------------

At(c, phase) == pc[c] = phase

Await(c, phase) ==
  /\ pc' = [pc EXCEPT ![c] = phase]
  /\ UNCHANGED report

Respond(c, response) ==
  /\ pc' = [pc EXCEPT ![c] = "done"]
  /\ report' = [report EXCEPT ![c] = response]

(* The call that each of the three begins with: the use case wants the     *)
(* fine as a domain entity, the others turn to the repository at once,     *)
(* whose answer they pass on.                                              *)
verifyBlockchainIntegrity == "find"

legacyVerifyBlockchainIntegrity == "fine"

verifyFineIntegrity == "fine"

FirstCalls == {verifyBlockchainIntegrity, legacyVerifyBlockchainIntegrity,
               verifyFineIntegrity}

Ask(c) == \E id \in 0 .. MaxFines, call \in FirstCalls :
  /\ At(c, "idle")
  /\ got' = [got EXCEPT ![c].fineId = id]
  /\ Await(c, call)
  /\ UNCHANGED contractVars

(* The use case makes an entity of the fine before it asks for its         *)
(* integrity, and fails where the domain refuses it.                       *)
Find(c) == \E now \in Clock(block) : LET id == got[c].fineId IN
  /\ At(c, "find")
  /\ IF id \in 1 .. Chain!getAllFineCount /\ Readable(fines[id], now)
     THEN Await(c, "fine")
     ELSE Respond(c, Failure)
  /\ UNCHANGED <<contractVars, got>>

(* The contract reverts the call for a number that no fine has.            *)
ReadFine(c) == LET id == got[c].fineId IN
  /\ At(c, "fine")
  /\ id \in 1 .. Chain!getAllFineCount
  /\ got' = [got EXCEPT ![c].currentState = fines[id].currentState,
                        ![c].since = Len(fineStatusHistory[id])]
  /\ Await(c, "registration")
  /\ UNCHANGED contractVars

ReadRegistration(c) ==
  /\ At(c, "registration")
  /\ got' = [got EXCEPT ![c].timestamp =
               Chain!getFineRegistrationDetails(got[c].fineId).timestamp]
  /\ Await(c, "total")
  /\ UNCHANGED contractVars

(* Faulty: the number of the next entry is taken for the number of them.   *)
ReadTotalPlusOne(c) ==
  /\ At(c, "total")
  /\ got' = [got EXCEPT ![c].totalUpdates =
               Len(fineStatusHistory[got[c].fineId]) + 1]
  /\ Await(c, "history")
  /\ UNCHANGED contractVars

ReadTotal(c) ==
  /\ At(c, "total")
  /\ got' = [got EXCEPT ![c].totalUpdates =
               Len(fineStatusHistory[got[c].fineId])]
  /\ Await(c, "history")
  /\ UNCHANGED contractVars

(* Faulty: the sort is ascending.                                          *)
LastStatusAscending(h) == h[1]

(* The head of the history after the stable sort by descending timestamp:  *)
(* the first of the entries with the latest one.                           *)
LastStatus(h) ==
  h[CHOOSE k \in DOMAIN h : \A j \in DOMAIN h :
      IF j < k THEN h[j].lastUpdatedTimestamp < h[k].lastUpdatedTimestamp
               ELSE h[j].lastUpdatedTimestamp <= h[k].lastUpdatedTimestamp]

(* The verifications.  A history without entries never passes: the code    *)
(* compares a bigint to the number 0 there.  The timestamp of a block is   *)
(* never 0, so the check of the timestamp always passes.                   *)
Consistent(state, h) == h # <<>> /\ LastStatus(h).newState = state

ReadHistory(c) ==
  LET read == got[c]
      statusHistory ==
        Chain!getFineStatusHistory(read.fineId, 1, read.totalUpdates)
  IN
  /\ At(c, "history")
  /\ Respond(c, Answer(IF Consistent(read.currentState, statusHistory)
                       THEN "valid" ELSE "invalid",
                       read.timestamp, read.totalUpdates))
  /\ UNCHANGED <<contractVars, got>>

(* A call to the node fails.  Inside verifyBlockchainIntegrity the error   *)
(* is caught and answered as an integrity that is not valid.               *)
CallFails(c) ==
  /\ pc[c] \notin {"idle", "done"}
  /\ Respond(c, IF At(c, "find") THEN Failure ELSE Answer("invalid", 0, 0))
  /\ UNCHANGED <<contractVars, got>>

(* A transaction of anyone else, sent through this backend or not.  Rights *)
(* play no part in a check: one account that holds them sends them all.    *)
Transact ==
  /\ \/ \E s \in Submissions : Chain!registerFine(Deployer, s)
     \/ \E id \in Chain!FineIds, st \in FineState :
           Chain!updateFineStatus(Deployer, id, st)
     \/ Chain!MineBlock
  /\ UNCHANGED checkVars

Init ==
  /\ Chain!Init
  /\ pc = [c \in Checks |-> "idle"]
  /\ got = [c \in Checks |-> NothingRead]
  /\ report = [c \in Checks |-> Answer("none", 0, 0)]

Next ==
  \/ \E c \in Checks :
        \/ Ask(c)
        \/ Find(c)
        \/ ReadFine(c)
        \/ ReadRegistration(c)
        \/ ReadTotal(c)
        \/ ReadHistory(c)
        \/ CallFails(c)
  \/ Transact

Spec == Init /\ [][Next]_vars

-----------------------------------------------------------------------------
(* Safety.                                                                 *)

(* The check compared what it read, and says that they do not agree.       *)
Alarm(c) ==
  report[c].verdict = "invalid" /\ report[c].statusHistoryLength > 0

(* The fine was updated after the check read its state.                    *)
UpdatedMeanwhile(c) == report[c].statusHistoryLength > got[c].since

(* The last two entries that the check looked at are of one block.         *)
SharedBlock(c) ==
  LET h == fineStatusHistory[got[c].fineId]
      n == report[c].statusHistoryLength
  IN n > 1 /\ h[n].lastUpdatedTimestamp = h[n - 1].lastUpdatedTimestamp

(* No fine is ever tampered with, so every alarm is a false one; each has  *)
(* one of two causes, an update between the reads or two updates in one    *)
(* block.  Of a fine that nobody touches, whose updates are blocks apart,  *)
(* the check never reports that its history was altered.                   *)
AlarmExplained ==
  \A c \in Checks : Alarm(c) => UpdatedMeanwhile(c) \/ SharedBlock(c)

(* The check sorts the history "para obtener el más reciente": a fine that *)
(* is not updated while it is checked gives no alarm.  Two updates in one  *)
(* block violate it, since the sort keeps the older of them in front.      *)
NoFalseAlarm == \A c \in Checks : Alarm(c) => UpdatedMeanwhile(c)

(* The API tests expect that checks of one fine report the same time of    *)
(* registration, whenever they are made.                                   *)
RegistrationRepeatable ==
  \A c, d \in Checks :
     /\ report[c].verdict = "valid" /\ report[d].verdict = "valid"
     /\ got[c].fineId = got[d].fineId
     => report[c].registrationTimestamp = report[d].registrationTimestamp
=============================================================================
