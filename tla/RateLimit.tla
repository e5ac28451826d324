------------------------------ MODULE RateLimit ------------------------------
(***************************************************************************)
(* The table of server/src/security/rate_limit.c.  Its only caller is the  *)
(* accept loop, one thread, so a call of rate_limit_allow is one step: the *)
(* time it reads before it takes the mutex cannot be overtaken.  The clock *)
(* is assumed not to step back, and is past the epoch, so the value 0 that *)
(* find_entry_index uses for "none yet" is no entry's last_seen.  That     *)
(* caller always has an address, so the test for an empty one is left out. *)
(***************************************************************************)
EXTENDS Naturals, Sequences, FiniteSetsExt

CONSTANTS IPs,            \* the addresses inet_ntop gives, "desconhecido" too
          NoIP,           \* the ip of an entry never used
          MAX_ENTRIES,    \* MAX_RATE_LIMIT_ENTRIES, 32 in the code
          WINDOW,         \* RATE_LIMIT_WINDOW_SECONDS, 60
          MAX_REQUESTS,   \* RATE_LIMIT_MAX_REQUESTS, 5
          MaxTime,        \* bound: the last second
          MaxCalls        \* bound: the number of requests

ASSUME NoIPAssumption == NoIP \notin IPs
ASSUME SizesAssumption == /\ MAX_ENTRIES \in Nat \ {0}
                          /\ WINDOW \in Nat
                          /\ MAX_REQUESTS \in Nat \ {0}

VARIABLES now,       \* time(NULL)
          entries,   \* entries[i]; count is the length of timestamps
          history    \* every call and its verdict, a ghost

vars == <<now, entries, history>>

Slots == 1..MAX_ENTRIES

FreeEntry == [active |-> FALSE, ip |-> NoIP, timestamps |-> <<>>,
              last_seen |-> 0]

Entry == [active : BOOLEAN, ip : IPs \cup {NoIP}, timestamps : Seq(Nat),
          last_seen : Nat]

Init == /\ now = 1
        /\ entries = [i \in Slots |-> FreeEntry]
        /\ history = <<>>

-----------------------------------------------------------------------------

Holds(e, ip) == e.active /\ e.ip = ip

LeastRecent == {i \in Slots : \A j \in Slots :
                                entries[i].last_seen <= entries[j].last_seen}

(* Faulty variant of find_entry_index: the most recent entry is evicted.   *)
find_entry_index_newest(ip) ==
  LET own  == {i \in Slots : Holds(entries[i], ip)}
      free == {i \in Slots : ~entries[i].active}
      last == {i \in Slots : \A j \in Slots :
                               entries[j].last_seen <= entries[i].last_seen}
  IN Min(IF own # {} THEN own ELSE IF free # {} THEN free ELSE last)

(* Faulty variant: a free entry is taken before the address's own is found.*)
find_entry_index_free_first(ip) ==
  LET own  == {i \in Slots : Holds(entries[i], ip)}
      free == {i \in Slots : ~entries[i].active}
  IN Min(IF free # {} THEN free ELSE IF own # {} THEN own ELSE LeastRecent)

(***************************************************************************)
(* find_entry_index: the address's own entry, else the first free one,     *)
(* else the first of those least recently seen.                            *)
(***************************************************************************)
find_entry_index(ip) ==
  LET own  == {i \in Slots : Holds(entries[i], ip)}
      free == {i \in Slots : ~entries[i].active}
  IN Min(IF own # {} THEN own ELSE IF free # {} THEN free ELSE LeastRecent)

(***************************************************************************)
(* prune_entry: kept[i] is what the loop has written back after it has     *)
(* looked at the first i timestamps.                                       *)
(***************************************************************************)
prune_entry(timestamps) ==
  LET kept[i \in 0..Len(timestamps)] ==
        IF i = 0 THEN <<>>
        ELSE IF now - timestamps[i] <= WINDOW
             THEN Append(kept[i - 1], timestamps[i])
             ELSE kept[i - 1]
  IN kept[Len(timestamps)]

(* Faulty variant of the test of count: one timestamp too many.            *)
AtLimit_off_by_one(timestamps) == Len(timestamps) > MAX_REQUESTS

AtLimit(timestamps) == Len(timestamps) >= MAX_REQUESTS

(* An entry taken from another address, or from none, is cleared first.    *)
Kept(e, ip) == IF Holds(e, ip) THEN prune_entry(e.timestamps) ELSE <<>>

(* The entry after a request of ip: a refused one still counts as seen.    *)
Used(e, ip) == [active     |-> TRUE,
                ip         |-> ip,
                timestamps |-> IF AtLimit(Kept(e, ip)) THEN Kept(e, ip)
                               ELSE Append(Kept(e, ip), now),
                last_seen  |-> now]

rate_limit_allow(ip) ==
  LET i == find_entry_index(ip)
      granted == ~AtLimit(Kept(entries[i], ip))
  IN /\ Len(history) < MaxCalls
     /\ entries' = [entries EXCEPT ![i] = Used(entries[i], ip)]
     /\ history' = Append(history,
                          [ip |-> ip, at |-> now, granted |-> granted])
     /\ UNCHANGED now

(* A second passes.                                                        *)
Tick == /\ now < MaxTime
        /\ now' = now + 1
        /\ UNCHANGED <<entries, history>>

Next == Tick \/ \E ip \in IPs : rate_limit_allow(ip)

Spec == Init /\ [][Next]_vars

-----------------------------------------------------------------------------

(* The table has the shape of the C array, with at most MAX_REQUESTS       *)
(* timestamps in an entry: timestamps[entry->count++] stays in bounds.     *)
TypeOK ==
  /\ now \in Nat
  /\ entries \in [Slots -> Entry]
  /\ \A i \in Slots : Len(entries[i].timestamps) <= MAX_REQUESTS
  /\ history \in Seq([ip : IPs, at : Nat, granted : BOOLEAN])

(***************************************************************************)
(* An address never holds two entries, which would give it two quotas:     *)
(* find_entry_index looks for the address in the whole table before it     *)
(* hands out a free or an old entry.                                       *)
(***************************************************************************)
OneEntryPerIp ==
  \A i, j \in Slots : /\ entries[i].active
                      /\ entries[j].active
                      /\ entries[i].ip = entries[j].ip
                      => i = j

Window == INSTANCE SlidingWindow WITH LIMIT <- MAX_REQUESTS,
                                      REMEMBERED <- MAX_ENTRIES

(***************************************************************************)
(* The table implements the sliding window: the verdict of                 *)
(* rate_limit_allow is the one the full history of an address calls for,   *)
(* except that an address can be granted more after at least MAX_ENTRIES   *)
(* others were heard since.  With no more addresses than entries the       *)
(* exception never applies and the limiter is exact.                       *)
(***************************************************************************)
SlidingWindow == Window!Spec

=============================================================================
