------------------------------- MODULE Timers -------------------------------
(***************************************************************************)
(* The deadlines of the connections of one ServerEndpoint and the loop of  *)
(* the application that sleeps on them: getNextTimeout() (milliseconds     *)
(* from now) or getNextExpiry() (a wall-clock time in milliseconds), a     *)
(* sleep, handleTimers(), and again.  A client's loop is the table of one  *)
(* row.                                                                    *)
(*                                                                         *)
(* The clocks run while the calls do.  now is the monotonic clock of       *)
(* zend_hrtime(), in ticks of which MS make a millisecond; gettimeofday()  *)
(* is offset ticks ahead of it and is not stepped.  Each row reads the     *)
(* clock for itself, and getNextExpiry() reads both clocks, one after the  *)
(* other.                                                                  *)
(***************************************************************************)
EXTENDS Integers

CONSTANTS
  Rows,       \* number of connections in the table
  MS,         \* ticks per millisecond (NGTCP2_MILLISECONDS)
  Apis,       \* which of "timeout" and "expiry" the application asks for
  MaxTime,    \* bound: the clock stops here
  MaxLag      \* bound: ticks that pass during one call

ASSUME TimersAssumption ==
  /\ Rows \in Nat \ {0} /\ MS \in Nat \ {0}
  /\ Apis \subseteq {"timeout", "expiry"}
  /\ MaxTime \in Nat /\ MaxLag \in 0..MaxTime

(* null, or a connection without a deadline: not the difference of two times *)
None == -(MaxTime + 1)

VARIABLES
  now,        \* the monotonic clock
  offset,     \* wall clock minus monotonic clock
  expiry,     \* ngtcp2_conn_get_expiry of each row; None: the connection is closed
  idle,       \* history: rows whose due timer was answered with IDLE_CLOSE
  api,        \* the method the application uses
  pc,         \* "loop", "ask" (in the call), "wall" (between two clocks), "sleep"
  row,        \* the row to ask next
  part,       \* the milliseconds a row computed before it reads the wall clock
  best,       \* min_timeout or min_expiry; None while there is no has_timeout
  lag,        \* history: ticks since the call began
  wake        \* when the application wakes up; None: only a datagram wakes it

asking == <<row, part, best>>
vars   == <<now, offset, expiry, idle, api, pc, asking, lag, wake>>

Times == 0..MaxTime

(* Where ngtcp2 may put a timer that is armed now                          *)
Armed == (now + 1)..(MaxTime - MaxLag)

Init ==
  /\ now = 0
  /\ offset \in 0..(MS - 1)
  /\ expiry \in [1..Rows -> Armed \cup {None}]
  /\ idle = {}
  /\ api \in Apis
  /\ pc = "loop"
  /\ row = 1 /\ part = None /\ best = None
  /\ lag = 0
  /\ wake = None

----------------------------------------------------------------------------
(* Asking for the next deadline                                            *)

(* Fault: the milliseconds are rounded up                                  *)
TimeoutMs_RoundsUp(r) ==
  IF expiry[r] <= now THEN 0 ELSE (expiry[r] - now + MS - 1) \div MS

(* Fault: a deadline in the past is not told apart                         *)
TimeoutMs_Wraps(r) == (expiry[r] - now) \div MS

(* php_quic_connection_get_next_timeout_ms of a connection that is open    *)
TimeoutMs(r) == IF expiry[r] <= now THEN 0 ELSE (expiry[r] - now) \div MS

(* php_quic_epoch_milliseconds                                             *)
EpochMs == (now + offset) \div MS

Merged(b, v) == IF b = None \/ v < b THEN v ELSE b

AskBegin ==
  /\ pc = "loop"
  /\ pc' = "ask"
  /\ row' = 1 /\ best' = None /\ part' = None
  /\ lag' = 0 /\ wake' = None
  /\ UNCHANGED <<now, offset, expiry, idle, api>>

NextRow(b) == row' = row + 1 /\ best' = b /\ part' = None

(* Fault: a closed connection answers zero, not null                       *)
AskClosed_AnswersZero ==
  /\ pc = "ask" /\ row <= Rows /\ expiry[row] = None
  /\ NextRow(Merged(best, 0))
  /\ UNCHANGED <<now, offset, expiry, idle, api, pc, lag, wake>>

(* a closed connection answers null                                        *)
AskClosed ==
  /\ pc = "ask" /\ row <= Rows /\ expiry[row] = None
  /\ NextRow(best)
  /\ UNCHANGED <<now, offset, expiry, idle, api, pc, lag, wake>>

AskTimeout ==
  /\ pc = "ask" /\ row <= Rows /\ expiry[row] # None /\ api = "timeout"
  /\ NextRow(Merged(best, TimeoutMs(row)))
  /\ UNCHANGED <<now, offset, expiry, idle, api, pc, lag, wake>>

AskExpiry ==
  /\ pc = "ask" /\ row <= Rows /\ expiry[row] # None /\ api = "expiry"
  /\ part' = TimeoutMs(row)
  /\ pc' = "wall"
  /\ UNCHANGED <<now, offset, expiry, idle, api, row, best, lag, wake>>

AskWallClock ==
  /\ pc = "wall"
  /\ NextRow(Merged(best, EpochMs + part))
  /\ pc' = "ask"
  /\ UNCHANGED <<now, offset, expiry, idle, api, lag, wake>>

(* What the application makes of the answer: it sleeps that long, or until *)
(* its clock shows that time, or for as long as it takes                   *)
WakeTime ==
  IF best = None THEN None
  ELSE IF api = "timeout" THEN now + best * MS
  ELSE IF best * MS - offset > now THEN best * MS - offset ELSE now

AskReturn ==
  /\ pc = "ask" /\ row > Rows
  /\ pc' = "sleep"
  /\ wake' = WakeTime
  /\ UNCHANGED <<now, offset, expiry, idle, api, asking, lag>>

----------------------------------------------------------------------------
(* handleTimers()                                                          *)

Due(r) == expiry[r] # None /\ expiry[r] <= now

(* The sweep calls the rows up to n.  ngtcp2 arms a due timer again, or    *)
(* the connection closes, or the answer is IDLE_CLOSE, from then on in     *)
(* every sweep: the call succeeds, and the timer stays due                 *)
Handled(n) ==
  LET due == {r \in 1..n : Due(r)} IN
  \E out \in SUBSET due :
    /\ idle \cap due \subseteq out
    /\ idle' = idle \cup out
    /\ \E x \in [due \ out -> Armed \cup {None}] :
         expiry' = [r \in 1..Rows |-> IF r \in due \ out THEN x[r] ELSE expiry[r]]

(* Fault: the sweep stops after the first row                              *)
SweepEnd_First == 1

SweepEnd == Rows

Awake == pc = "sleep" /\ wake # None /\ now >= wake

handleTimers ==
  /\ Awake
  /\ Handled(SweepEnd)
  /\ pc' = "loop"
  /\ UNCHANGED <<now, offset, api, asking, lag, wake>>

(* the call of row n throws: the rows behind it keep their timers          *)
handleTimersThrows ==
  /\ Awake
  /\ \E n \in 1..Rows : expiry[n] # None /\ Handled(n - 1)
  /\ pc' = "loop"
  /\ UNCHANGED <<now, offset, api, asking, lag, wake>>

(* A datagram ends the sleep: recv() and the drain after it arm the timer  *)
(* of its connection again, leave it, or close the connection              *)
Datagram(r) ==
  /\ pc = "sleep" /\ expiry[r] # None
  /\ \E x \in Armed \cup {None, expiry[r]} :
       /\ expiry' = [expiry EXCEPT ![r] = x]
       /\ idle' = IF x = expiry[r] THEN idle ELSE idle \ {r}
  /\ pc' = "loop"
  /\ UNCHANGED <<now, offset, api, asking, lag, wake>>

InCall == pc \in {"ask", "wall"}

Tick ==
  /\ now < MaxTime /\ (InCall => lag < MaxLag)
  /\ now' = now + 1
  /\ lag' = IF InCall THEN lag + 1 ELSE lag
  /\ UNCHANGED <<offset, expiry, idle, api, pc, asking, wake>>

Ask == \/ AskBegin \/ AskClosed \/ AskTimeout \/ AskExpiry \/ AskWallClock
       \/ AskReturn

Next ==
  \/ Ask
  \/ handleTimers
  \/ handleTimersThrows
  \/ \E r \in 1..Rows : Datagram(r)
  \/ Tick

Spec == Init /\ [][Next]_vars

(* Time passes, calls return, and the application handles the timers when  *)
(* its sleep is over, also after an exception and however many datagrams   *)
(* arrive; ngtcp2 does not fail every time.                                *)
FairSpec == Spec /\ WF_vars(Ask) /\ SF_vars(handleTimers) /\ SF_vars(Tick)
----------------------------------------------------------------------------
(* Every clock reading and deadline is one the code can compute; in        *)
(* particular no timeout is negative.                                      *)
TypeOK ==
  /\ now \in Times /\ offset \in 0..(MS - 1)
  /\ expiry \in [1..Rows -> Times \cup {None}] /\ idle \subseteq 1..Rows
  /\ api \in Apis /\ pc \in {"loop", "ask", "wall", "sleep"}
  /\ row \in 1..(Rows + 1) /\ lag \in 0..MaxLag
  /\ part \in Nat \cup {None} /\ best \in Nat \cup {None} /\ wake \in Nat \cup {None}

Returns == pc = "ask" /\ pc' = "sleep"

(* The application never sleeps past the deadline of a connection of the   *)
(* table by more than the time that went by inside the call: neither the   *)
(* rounding to milliseconds, nor the two clocks, nor the order of the rows *)
(* adds to it.                                                             *)
NeverLate ==
  [][Returns => \A r \in 1..Rows :
       expiry[r] # None =>
         /\ wake' # None
         /\ wake' <= (IF expiry[r] > now THEN expiry[r] ELSE now) + lag]_vars

(* Nor does it wake for nothing: there is a deadline that is less than a   *)
(* millisecond away for getNextTimeout(), less than two for                *)
(* getNextExpiry(), where both clocks are rounded down, and a closed       *)
(* connection counts for none.  A deadline in the past is one, so with a   *)
(* row in idle the loop does not sleep at all.                             *)
NotTooEarly ==
  [][Returns /\ wake' # None => \E r \in 1..Rows :
       /\ expiry[r] # None
       /\ expiry[r] < wake' + (IF api = "timeout" THEN MS ELSE 2 * MS)]_vars

(* The inductive invariant of the proofs, about a call that is under way:  *)
(* when the application would wake if it got the answer so far, and how    *)
(* the milliseconds of the row that waits for the wall clock relate to     *)
(* that row's deadline.  lag bounds how old what the call has read is.     *)
WakeAt(b) == IF api = "timeout" THEN now + b * MS ELSE b * MS - offset

Latest(r) == IF expiry[r] + lag > now THEN expiry[r] + lag ELSE now

Slack == IF api = "timeout" THEN MS ELSE 2 * MS

RowsAsked ==
  /\ \A r \in 1..(row - 1) :
       expiry[r] # None => best # None /\ WakeAt(best) <= Latest(r)
  /\ best # None => \E r \in 1..Rows :
                       expiry[r] # None /\ expiry[r] < WakeAt(best) + Slack

RowInHand ==
  /\ api = "expiry" /\ row <= Rows /\ expiry[row] # None /\ part # None
  /\ now + part * MS <= Latest(row)
  /\ expiry[row] < now + part * MS + MS

TimersInv == /\ TypeOK
             /\ InCall => RowsAsked
             /\ pc = "wall" => RowInHand

(* A timer that is due reaches ngtcp2_conn_handle_expiry, whichever row it *)
(* is in, also one behind rows that throw or have idled out: it is armed   *)
(* again or its connection closes, unless the answer is IDLE_CLOSE, which  *)
(* leaves it due for good (see IdleCloses of Lifecycle).                   *)
TimerHandled ==
  \A r \in 1..Rows, t \in Times :
    (expiry[r] = t /\ t <= now) ~> (expiry[r] # t \/ r \in idle)
============================================================================
