----------------------------- MODULE MCCs2Drive -----------------------------
EXTENDS Cs2Drive

Play(start, length, repeat, keep) ==
    [op |-> "PlayDisc", start |-> start, length |-> length, repeat |-> repeat,
     keep |-> keep]

Commands ==
    {Play(1, ToEnd, 0, FALSE), Play(2, 2, 1, FALSE), Play(Same, Same, Same, TRUE),
     Play(1, 1, 2, TRUE),
     [op |-> "ReadFile", start |-> 2, length |-> 2],
     [op |-> "SeekFAD", to |-> 2],
     [op |-> "InitializeCDSystem", reset |-> FALSE],
     [op |-> "InitializeCDSystem", reset |-> TRUE],
     [op |-> "SetCDDeviceConnection", filter |-> TRUE],
     [op |-> "SetCDDeviceConnection", filter |-> FALSE]}
    \cup {[op |-> o] : o \in {"GetStatus", "GetToc", "SeekStop", "SeekPause",
                             "OpenTray", "ResetSelector", "DeleteSectorData",
                             "AbortFile"}}
=============================================================================
