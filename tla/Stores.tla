-------------------------------- MODULE Stores --------------------------------
(***************************************************************************)
(* storage/store: the configuration chooses one of the stores, and the     *)
(* program uses it through one interface.  What a store keeps of the       *)
(* results of endpoints, of their uptime and of suites shares no rows and  *)
(* no entries (a suite's results only refer to endpoints), so each is      *)
(* followed on its own.                                                    *)
(***************************************************************************)
EXTENDS MemoryStore, SuiteStatuses, Uptime

VARIABLES
    storageType,  \* storage.Config.Type
    kept          \* what is followed: "endpoints", "uptime" or "suites"

storesVars == <<storageType, kept, memoryVars, sqlVars, suiteVars, uptimeVars>>

\* Initialize: SQL for the two drivers, memory by default.
Initialize ==
    /\ storageType \in {"memory", "sqlite", "postgres"}
    /\ kept \in {"endpoints", "uptime", "suites"}
    /\ kept = "uptime" => storageType = "memory"  \* its statistics are kept both ways at once
    /\ MemoryInit
    /\ SqlInit
    /\ SuitesInit
    /\ UptimeInit
    /\ driver = IF storageType = "memory" THEN "sqlite" ELSE storageType

\* Calls reach the store that was chosen.
UseStore ==
    /\ \/ /\ kept = "endpoints"
          /\ \/ storageType = "memory" /\ MemoryNext /\ UNCHANGED sqlVars
             \/ storageType # "memory" /\ SqlNext /\ UNCHANGED memoryVars
          /\ UNCHANGED <<suiteVars, uptimeVars>>
       \/ /\ kept = "suites"
          /\ \/ storageType = "memory" /\ SuitesInMemoryNext
             \/ storageType # "memory" /\ SuitesInSqlNext
          /\ UNCHANGED <<memoryVars, sqlVars, uptimeVars>>
       \/ kept = "uptime" /\ UptimeNext /\ UNCHANGED <<memoryVars, sqlVars, suiteVars>>
    /\ UNCHANGED <<storageType, kept>>

StoresSpec == Initialize /\ [][UseStore]_storesVars

StoresTypeOK == MemoryTypeOK /\ SqlTypeOK /\ SuitesTypeOK /\ UptimeTypeOK

(* A page of the results of an endpoint or of a suite is cut out of everything
   that was inserted for it, whichever store answers: nothing that may still be
   asked for was cleaned up, no page overlaps or skips. *)
StoresAnswerFromHistory ==
    /\ kept = "endpoints" => IF storageType = "memory" THEN MemoryAnswersFromHistory
                             ELSE SqlAnswersFromHistory
    /\ kept = "suites" => IF storageType = "memory" THEN AnswersFromSuiteHistory(MemorySuiteResults)
                          ELSE AnswersFromSuiteHistory(SqlSuiteResults)
=============================================================================
