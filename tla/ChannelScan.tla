----------------------------- MODULE ChannelScan ------------------------------
(***************************************************************************)
(* aug_wifi_scan.c: the least busy channel among the access points that a  *)
(* scan has recorded.  The scan itself is external: it finds access points *)
(* on any channels, of which the driver hands over the first ListSize.     *)
(***************************************************************************)
EXTENDS Integers, Sequences, FiniteSets

CONSTANTS
    ListSize,     \* CONFIG_SCAN_LIST_SIZE
    MaxUnlisted,  \* bound: the access points found beyond those
    NumChannels   \* 13: the last channel the device may choose

\* The counters are bytes and the least count starts at 255: with fewer records
\* than that neither can go wrong.  Kconfig allows 0 to 20.
ASSUME ScanAssumption ==
    /\ ListSize \in 0..254
    /\ MaxUnlisted \in Nat
    /\ NumChannels \in Nat \ {0}

\* An access point may be on the channel after the last one (14, in Japan).
Channels == 1..(NumChannels + 1)

VARIABLES
    scanStep,   \* where aug_get_least_freq_channel stands
    found,      \* the channels of the access points found; ap_info has the first
    count,      \* records per channel
    i,          \* the index of the loop
    min_elem,   \* the channel with the least count so far
    min_count   \* its count

scanVars == <<scanStep, found, count, i, min_elem, min_count>>

ScanTypeOK ==
    /\ scanStep \in {"idle", "count", "choose", "chosen"}
    /\ found \in Seq(Channels)
    /\ Len(found) <= ListSize + MaxUnlisted
    /\ count \in [Channels -> 0..255]
    /\ i \in Nat
    /\ min_elem \in 0..NumChannels
    /\ min_count \in 0..255

\* What esp_wifi_scan_get_ap_records makes of the capacity it is given.
number == IF Len(found) <= ListSize THEN Len(found) ELSE ListSize

NoCount == [c \in Channels |-> 0]

ScanInit ==
    /\ scanStep = "idle"
    /\ found = <<>>
    /\ count = NoCount
    /\ i = 0
    /\ min_elem = 0
    /\ min_count = 255

\* esp_wifi_scan_start has found what there is to find.
ScanStarts ==
    /\ scanStep = "idle"
    /\ scanStep' = "count"
    /\ \E n \in 0..(ListSize + MaxUnlisted) : found' \in [1..n -> Channels]
    /\ i' = 1
    /\ UNCHANGED <<count, min_elem, min_count>>

\* count[ap_info[i].primary]++
CountRecord ==
    /\ scanStep = "count"
    /\ i <= number
    /\ count' = [count EXCEPT ![found[i]] = (@ + 1) % 256]
    /\ i' = i + 1
    /\ UNCHANGED <<scanStep, found, min_elem, min_count>>

AllCounted ==
    /\ scanStep = "count"
    /\ i > number
    /\ scanStep' = "choose"
    /\ i' = 1
    /\ UNCHANGED <<found, count, min_elem, min_count>>

\* Mutant of CompareChannel: the least count is not written down.
CompareForgetful ==
    /\ scanStep = "choose"
    /\ i <= NumChannels
    /\ min_elem' = IF count[i] < min_count THEN i ELSE min_elem
    /\ i' = i + 1
    /\ UNCHANGED <<scanStep, found, count, min_count>>

CompareChannel ==
    /\ scanStep = "choose"
    /\ i <= NumChannels
    /\ IF count[i] < min_count
         THEN min_elem' = i /\ min_count' = count[i]
         ELSE UNCHANGED <<min_elem, min_count>>
    /\ i' = i + 1
    /\ UNCHANGED <<scanStep, found, count>>

AllCompared ==
    /\ scanStep = "choose"
    /\ i > NumChannels
    /\ scanStep' = "chosen"
    /\ UNCHANGED <<found, count, i, min_elem, min_count>>

\* The function returns; the next call has locals of its own.
ScanReturns ==
    /\ scanStep = "chosen"
    /\ scanStep' = "idle"
    /\ found' = <<>>
    /\ count' = NoCount
    /\ i' = 0
    /\ min_elem' = 0
    /\ min_count' = 255

ScanNext ==
    \/ ScanStarts \/ CountRecord \/ AllCounted \/ CompareChannel \/ AllCompared
    \/ ScanReturns

ScanSpec == ScanInit /\ [][ScanNext]_scanVars

\* How many of the first n access points are on channel c.
Busy(c, n) == Cardinality({r \in 1..n : found[r] = c})

\* aug_get_least_freq_channel is said to return "the least busy Wi-Fi channel among
\* available access points" (aug_wifi_scan.h:13).  It does if the list holds them all;
\* otherwise another channel the device may use has fewer, but by no more than the
\* access points left out of the list (aug_wifi_scan.c:22, 31).
LeastBusy ==
    scanStep = "chosen" =>
        /\ min_elem \in 1..NumChannels
        /\ \A c \in 1..NumChannels :
              Busy(min_elem, Len(found))
                <= Busy(c, Len(found)) + (Len(found) - number)
==============================================================================
