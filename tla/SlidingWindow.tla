---------------------------- MODULE SlidingWindow ----------------------------
(***************************************************************************)
(* What a rate limiter that remembers a bounded number of addresses        *)
(* promises, told from the history of its verdicts alone: an address is    *)
(* refused only when it was granted LIMIT requests within the window, and  *)
(* is granted more only if it may have been forgotten in between, which    *)
(* takes REMEMBERED other addresses heard no earlier than it.              *)
(***************************************************************************)
EXTENDS Naturals, Sequences, FiniteSets

CONSTANTS IPs, WINDOW, LIMIT, REMEMBERED

VARIABLES now,      \* the clock, in seconds
          history   \* the requests answered: address, second, verdict

vars == <<now, history>>

(* The requests of ip among the first n - 1.                               *)
RequestsBefore(ip, n) == {k \in 1..(n - 1) : history[k].ip = ip}

(* Before request n, o was heard in the second of ip's last request, or    *)
(* later.                                                                  *)
HeardSince(o, ip, n) ==
  \E k \in RequestsBefore(o, n) : \A l \in RequestsBefore(ip, n) :
     history[l].at <= history[k].at

MayBeForgotten(ip, n) ==
  Cardinality({o \in IPs \ {ip} : HeardSince(o, ip, n)}) >= REMEMBERED

(* The requests of ip from the n-th on that were granted within the closed *)
(* window ending now.                                                      *)
Grants(ip, n) ==
  {k \in n..Len(history) : /\ history[k].ip = ip
                           /\ history[k].granted
                           /\ now - history[k].at <= WINDOW}

Init == /\ now = 1
        /\ history = <<>>

Tick == now' = now + 1 /\ UNCHANGED history

Answer(ip, granted) ==
  /\ history' = Append(history, [ip |-> ip, at |-> now, granted |-> granted])
  /\ UNCHANGED now

Grant(ip) ==
  /\ \E n \in 1..(Len(history) + 1) : /\ n = 1 \/ MayBeForgotten(ip, n)
                                      /\ Cardinality(Grants(ip, n)) < LIMIT
  /\ Answer(ip, TRUE)

Refuse(ip) == Cardinality(Grants(ip, 1)) >= LIMIT /\ Answer(ip, FALSE)

Next == Tick \/ \E ip \in IPs : Grant(ip) \/ Refuse(ip)

Spec == Init /\ [][Next]_vars

=============================================================================
