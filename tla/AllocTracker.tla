---------------------------- MODULE AllocTracker ----------------------------
(***************************************************************************)
(* What PointerData promises to its callers: one map from a pointer to the *)
(* allocation it stands for, changed by one atomic step for each Add and   *)
(* each Remove, and reports of that map that stay true for as long as they *)
(* are being written.  There are no mutexes, indices or reference counts   *)
(* here; PointerData implements this module (see its TrackerSpec).         *)
(***************************************************************************)
CONSTANTS
  Client,     \* who calls
  Key,        \* pointers
  Info,       \* what is known of an allocation: size, type, backtrace
  Traced(_)   \* whether it has a backtrace: only those are reported

VARIABLES
  live,       \* Key -> Info, for the tracked pointers
  open,       \* the clients that are writing a report
  shown       \* what the report of each client says

tvars == << live, open, shown >>

TInit == live = << >> /\ open = {} /\ shown = [c \in Client |-> {}]

(* Every report that is open says exactly what is live.                    *)
Snapshot == { << k, live[k] >> : k \in { j \in DOMAIN live : Traced(live[j]) } }

Track(k, i) ==
  /\ open = {}
  /\ live' = [x \in DOMAIN live \cup {k} |-> IF x = k THEN i ELSE live[x]]
  /\ UNCHANGED << open, shown >>

Untrack(k) ==
  /\ open = {} /\ k \in DOMAIN live
  /\ live' = [x \in DOMAIN live \ {k} |-> live[x]]
  /\ UNCHANGED << open, shown >>

OpenReport(c) ==
  /\ open = {}
  /\ open' = {c}
  /\ shown' = [shown EXCEPT ![c] = Snapshot]
  /\ UNCHANGED live

CloseReport(c) ==
  /\ c \in open
  /\ open' = open \ {c}
  /\ shown' = [shown EXCEPT ![c] = {}]
  /\ UNCHANGED live

TNext ==
  \/ \E k \in Key, i \in Info : Track(k, i)
  \/ \E k \in Key : Untrack(k)
  \/ \E c \in Client : OpenReport(c) \/ CloseReport(c)

TSpec == TInit /\ [][TNext]_tvars
=============================================================================
