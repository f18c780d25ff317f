-------------------------- MODULE ConfigurationFile --------------------------
(***************************************************************************)
(* How the listener of main.go notices that the files of the configuration *)
(* have changed: it compares their modification times, in whole seconds,   *)
(* with the time at which the last load ended.  A file may be written or   *)
(* removed at any time, also while a directory is being read file by file. *)
(***************************************************************************)
EXTENDS Naturals

CONSTANTS
    NumberOfFiles,   \* of a directory; 1 also for a configuration that is one file
    MaxSeconds,      \* bound: of the observation
    MaxWrites        \* bound: number of times the files are written or removed

VARIABLES
    second,         \* the time
    written,        \* number of writes so far
    versions,       \* what a file holds: the number of its write, 0 if it does not exist
    modTimes,       \* the second a file was last written in
    readVersions,   \* the version of a file a load has last read
    toRead,         \* files the load has listed and not yet read
    loadState,      \* "sleeping", "reading", "failed" or, after an invalid file, "over"
    lastFileModTime \* Config.lastFileModTime

fileVars == <<second, written, versions, modTimes, readVersions, toRead, loadState, lastFileModTime>>

ConfigurationFiles == 1 .. NumberOfFiles   \* in the lexical order in which they are walked

FileInitWith(state) ==
    /\ second = 0
    /\ written = NumberOfFiles
    /\ versions = [f \in ConfigurationFiles |-> f]
    /\ modTimes = [f \in ConfigurationFiles |-> 0]
    /\ readVersions = [f \in ConfigurationFiles |-> 0]
    /\ toRead = ConfigurationFiles
    /\ loadState = state
    /\ lastFileModTime = 0

FileInit == FileInitWith("reading")

SecondPasses ==
    /\ second < MaxSeconds
    /\ second' = second + 1
    /\ UNCHANGED <<written, versions, modTimes, readVersions, toRead, loadState, lastFileModTime>>

WriteFile(f) ==
    /\ written < NumberOfFiles + MaxWrites
    /\ written' = written + 1
    /\ versions' = [versions EXCEPT ![f] = written + 1]
    /\ modTimes' = [modTimes EXCEPT ![f] = second]
    /\ UNCHANGED <<second, readVersions, toRead, loadState, lastFileModTime>>

RemoveFile(f) ==
    /\ written < NumberOfFiles + MaxWrites /\ versions[f] # 0
    /\ written' = written + 1
    /\ versions' = [versions EXCEPT ![f] = 0]
    /\ UNCHANGED <<second, modTimes, readVersions, toRead, loadState, lastFileModTime>>

\* Slip: in a directory only the first file counts.
FirstIsModified == versions[1] # 0 /\ lastFileModTime < modTimes[1]

\* A file that is gone, like one that cannot be examined, is not modified.
HasLoadedConfigurationBeenModified ==
    \E f \in ConfigurationFiles : versions[f] # 0 /\ lastFileModTime < modTimes[f]

\* listenToConfigurationFileChanges after 30 seconds, and the directory listed.
NoticeModification ==
    /\ loadState = "sleeping"
    /\ HasLoadedConfigurationBeenModified
    /\ toRead' = {f \in ConfigurationFiles : versions[f] # 0}
    /\ loadState' = "reading"
    /\ UNCHANGED <<second, written, versions, modTimes, readVersions, lastFileModTime>>

\* LoadConfiguration reads the next file; one that was removed fails the load.
ReadFile ==
    \E f \in toRead :
        /\ \A g \in toRead : f <= g
        /\ loadState = "reading"
        /\ IF versions[f] = 0
           THEN loadState' = "failed" /\ toRead' = {} /\ UNCHANGED readVersions
           ELSE /\ readVersions' = [readVersions EXCEPT ![f] = versions[f]]
                /\ toRead' = toRead \ {f}
                /\ UNCHANGED loadState
        /\ UNCHANGED <<second, written, versions, modTimes, lastFileModTime>>

\* What was read is valid, or invalid and skipped: UpdateLastFileModTime.
EndLoad ==
    /\ loadState = "failed" \/ (loadState = "reading" /\ toRead = {})
    /\ lastFileModTime' = second
    /\ loadState' = "sleeping"
    /\ UNCHANGED <<second, written, versions, modTimes, readVersions, toRead>>

\* What was read is invalid, or nothing could be: panic.
LoadPanics ==
    /\ loadState = "failed" \/ (loadState = "reading" /\ toRead = {})
    /\ loadState' = "over"
    /\ UNCHANGED <<second, written, versions, modTimes, readVersions, toRead, lastFileModTime>>

LoadSteps == NoticeModification \/ ReadFile \/ EndLoad \/ LoadPanics

FileNext ==
    \/ LoadSteps
    \/ SecondPasses
    \/ \E f \in ConfigurationFiles : WriteFile(f) \/ RemoveFile(f)

\* The listener never stops polling and reading takes finite time; nothing makes
\* anybody write a file.
FileFairness == WF_fileVars(LoadSteps)

(* Whatever is written while no load is under way, in a later second than the
   one in which the last load ended, is read in the end, also if the load it
   causes is skipped as invalid; only a file removed meanwhile may fail the load
   that would have read it. *)
EveryModificationIsRead ==
    \A f \in ConfigurationFiles, v \in 1 .. NumberOfFiles + MaxWrites :
        (versions[f] = v /\ loadState = "sleeping" /\ modTimes[f] > lastFileModTime)
            ~> \/ readVersions[f] >= v
               \/ loadState = "over"
               \/ \E g \in ConfigurationFiles : versions[g] = 0
=============================================================================
